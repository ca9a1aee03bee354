------------------------ MODULE VideoSessionProofs ------------------------
(***************************************************************************)
(* Proofs about the video session, for any viewers and number of failures, *)
(* whether handlers are prompt or not: its types, and that it takes a      *)
(* failure for a viewer to make a further offer.                           *)
(***************************************************************************)
EXTENDS VideoSession, FiniteSetTheorems, FunctionTheorems, SequenceTheorems, TLAPS

Inviting == {"joined-follower", "peer-joined"}

\* How many of the letters in s make a viewer offer.
At(s) == {i \in 1..Len(s) : s[i].kind \in Inviting}
Invitations(s) == Cardinality(At(s))

\* A viewer offers once for each time it finds the publisher or is found by it, so every
\* offer but the first takes a failure.
Chance(v) == IF vlink[v] = "closed" \/ (plink = "up" /\ vlink[v] = "up") THEN 1 ELSE 0
BudgetInv == \A v \in Viewers : offers[v] + Invitations(mail[v]) <= breaks + Chance(v)

OffersNumbered == \A i \in 1..Len(inbox) : inbox[i].kind = "offer" => inbox[i].k # None

Typed == TypeOK /\ OffersNumbered /\ BudgetInv

-----------------------------------------------------------------------------
(* Queues, and the invitations in them *)

LEMMA AppendFacts ==
  ASSUME NEW S, NEW s \in Seq(S), NEW e \in S
  PROVE  /\ Append(s, e) \in Seq(S) /\ Len(Append(s, e)) = Len(s) + 1 /\ Len(s) \in Nat
         /\ Append(s, e)[Len(s) + 1] = e
         /\ \A i \in 1..Len(s) : Append(s, e)[i] = s[i]
OBVIOUS

LEMMA TailFacts ==
  ASSUME NEW S, NEW s \in Seq(S), s # <<>>
  PROVE  /\ Head(s) \in S /\ Head(s) = s[1] /\ 1 \in 1..Len(s)
         /\ Tail(s) \in Seq(S) /\ Len(Tail(s)) = Len(s) - 1 /\ Len(s) \in Nat \ {0}
         /\ \A i \in 1..Len(Tail(s)) : i + 1 \in 1..Len(s) /\ Tail(s)[i] = s[i + 1]
OBVIOUS

LEMMA InvitationsEmpty == Invitations(<<>>) = 0
<1>1. At(<<>>) = {}
  BY DEF At
<1> QED BY <1>1, FS_EmptySet DEF Invitations

LEMMA InvitationsNat ==
  ASSUME NEW s \in Seq(ToViewer)
  PROVE  Invitations(s) \in Nat /\ IsFiniteSet(At(s))
<1>1. Len(s) \in Nat
  OBVIOUS
<1>2. IsFiniteSet(1..Len(s))
  BY <1>1, FS_Interval
<1>3. IsFiniteSet(At(s))
  BY <1>2, FS_Subset DEF At
<1> QED BY <1>3, FS_CardinalityType DEF Invitations

LEMMA InvitationsAppend ==
  ASSUME NEW s \in Seq(ToViewer), NEW e \in ToViewer
  PROVE  Invitations(Append(s, e)) = Invitations(s) + (IF e.kind \in Inviting THEN 1 ELSE 0)
<1>1. /\ Len(Append(s, e)) = Len(s) + 1 /\ Len(s) \in Nat
      /\ Append(s, e)[Len(s) + 1] = e
      /\ \A i \in 1..Len(s) : Append(s, e)[i] = s[i]
  BY AppendFacts
<1>2. IsFiniteSet(At(s)) /\ Cardinality(At(s)) \in Nat
  BY InvitationsNat DEF Invitations
<1>3. CASE e.kind \in Inviting
  <2>1. At(Append(s, e)) = At(s) \cup {Len(s) + 1} /\ Len(s) + 1 \notin At(s)
    BY <1>1, <1>3 DEF At
  <2>2. Cardinality(At(Append(s, e))) = Cardinality(At(s)) + 1
    BY <1>2, <2>1, FS_AddElement
  <2> QED BY <1>3, <2>2 DEF Invitations
<1>4. CASE e.kind \notin Inviting
  <2>1. At(Append(s, e)) = At(s)
    BY <1>1, <1>4 DEF At
  <2> QED BY <1>2, <1>4, <2>1 DEF Invitations
<1> QED BY <1>3, <1>4

LEMMA InvitationsTail ==
  ASSUME NEW s \in Seq(ToViewer), s # <<>>
  PROVE  Invitations(s) = Invitations(Tail(s)) + (IF Head(s).kind \in Inviting THEN 1 ELSE 0)
<1> DEFINE shift == [i \in At(Tail(s)) |-> i + 1]
<1>1. /\ Head(s) = s[1] /\ Tail(s) \in Seq(ToViewer) /\ 1 \in 1..Len(s)
      /\ Len(Tail(s)) = Len(s) - 1 /\ Len(s) \in Nat \ {0}
      /\ \A i \in 1..Len(Tail(s)) : i + 1 \in 1..Len(s) /\ Tail(s)[i] = s[i + 1]
  BY TailFacts
<1>2. /\ IsFiniteSet(At(s)) /\ Cardinality(At(s)) \in Nat
      /\ IsFiniteSet(At(Tail(s))) /\ Cardinality(At(Tail(s))) \in Nat
  BY <1>1, InvitationsNat DEF Invitations
<1>3. shift \in Bijection(At(Tail(s)), At(s) \ {1})
  <2>1. \A i \in At(Tail(s)) : i \in Nat /\ i + 1 \in At(s) \ {1}
    BY <1>1 DEF At
  <2>2. ASSUME NEW j \in At(s) \ {1} PROVE \E i \in At(Tail(s)) : shift[i] = j
    <3>1. j - 1 \in 1..Len(Tail(s)) /\ (j - 1) + 1 = j
      BY <1>1 DEF At
    <3>2. j - 1 \in At(Tail(s))
      BY <1>1, <3>1 DEF At
    <3> QED BY <3>1, <3>2
  <2>3. \A i, j \in At(Tail(s)) : shift[i] = shift[j] => i = j
    BY <2>1
  <2>4. shift \in [At(Tail(s)) -> At(s) \ {1}]
    BY <2>1
  <2> HIDE DEF shift
  <2> QED BY <2>2, <2>3, <2>4, Fun_IsBij
<1>4. Cardinality(At(Tail(s))) = Cardinality(At(s) \ {1})
  <2>1. ExistsBijection(At(Tail(s)), At(s) \ {1})
    BY <1>3 DEF ExistsBijection
  <2> QED BY <1>2, <2>1, FS_Bijection
<1>5. CASE Head(s).kind \in Inviting
  <2>1. 1 \in At(s)
    BY <1>1, <1>5 DEF At
  <2>2. Cardinality(At(s) \ {1}) = Cardinality(At(s)) - 1
    BY <1>2, <2>1, FS_RemoveElement
  <2> QED BY <1>2, <1>4, <1>5, <2>2 DEF Invitations
<1>6. CASE Head(s).kind \notin Inviting
  <2>1. At(s) \ {1} = At(s)
    BY <1>1, <1>6 DEF At
  <2>2. Cardinality(At(Tail(s))) = Cardinality(At(s))
    BY <1>4, <2>1, Zenon
  <2> QED BY <1>2, <1>6, <2>2 DEF Invitations
<1> QED BY <1>5, <1>6
-----------------------------------------------------------------------------
(* Types *)

LEMMA OffersExist ==
  /\ MaxBreaks \in Nat /\ MaxOffers \in Nat /\ MaxOffers = MaxBreaks + 1
  /\ None \in 0..MaxOffers /\ 0 \in 0..MaxOffers
  /\ \A v \in Viewers : \A k \in 1..MaxOffers : <<v, k>> \in Offers
BY VideoAssumption DEF MaxOffers, None, Offers

LEMMA LetterType ==
  ASSUME NEW kind \in {"joined", "joined-follower", "peer-joined", "answer"},
         NEW k \in 0..MaxOffers
  PROVE  Letter(kind, k) \in ToViewer /\ Letter(kind, k).kind = kind
BY DEF Letter, ToViewer

LEMMA FrameType ==
  ASSUME NEW kind \in {"offer", "peer-left"}, NEW v \in Viewers, NEW k \in 0..MaxOffers
  PROVE  /\ Frame(kind, v, k) \in ToPublisher
         /\ Frame(kind, v, k).kind = kind /\ Frame(kind, v, k).from = v
         /\ Frame(kind, v, k).k = k
BY DEF Frame, ToPublisher

LEMMA TellTyped ==
  ASSUME TypeOK, NEW vs \in SUBSET Viewers, NEW letter \in ToViewer, Tell(vs, letter)
  PROVE  /\ mail' \in [Viewers -> Seq(ToViewer)]
         /\ \A v \in Viewers : Invitations(mail'[v]) = Invitations(mail[v])
              + (IF v \in vs /\ vlink[v] = "up" /\ letter.kind \in Inviting THEN 1 ELSE 0)
<1>1. \A v \in Viewers : mail[v] \in Seq(ToViewer) /\ Invitations(mail[v]) \in Nat
  BY InvitationsNat DEF TypeOK
<1>2. \A v \in Viewers :
        /\ Append(mail[v], letter) \in Seq(ToViewer)
        /\ Invitations(Append(mail[v], letter))
             = Invitations(mail[v]) + (IF letter.kind \in Inviting THEN 1 ELSE 0)
  BY <1>1, InvitationsAppend, AppendFacts
<1>3. mail' = [v \in Viewers |->
                 IF v \in vs /\ vlink[v] = "up" THEN Append(mail[v], letter) ELSE mail[v]]
  BY DEF Tell
<1>4. mail' \in [Viewers -> Seq(ToViewer)]
  BY <1>1, <1>2, <1>3
<1>5. ASSUME NEW v \in Viewers
      PROVE  Invitations(mail'[v]) = Invitations(mail[v])
               + (IF v \in vs /\ vlink[v] = "up" /\ letter.kind \in Inviting THEN 1 ELSE 0)
  <2>1. CASE v \in vs /\ vlink[v] = "up"
    <3>1. mail'[v] = Append(mail[v], letter)
      BY <1>3, <2>1
    <3> QED BY <1>2, <2>1, <3>1
  <2>2. CASE ~(v \in vs /\ vlink[v] = "up")
    <3>1. mail'[v] = mail[v]
      BY <1>3, <2>2
    <3> QED BY <1>1, <2>2, <3>1
  <2> QED BY <2>1, <2>2
<1> QED BY <1>4, <1>5

LEMMA TellPublisherTyped ==
  ASSUME TypeOK, OffersNumbered, NEW f \in ToPublisher, f.kind = "offer" => f.k # None,
         TellPublisher(f)
  PROVE  inbox' \in Seq(ToPublisher) /\ OffersNumbered'
<1>1. CASE plink = "up"
  <2>1. inbox \in Seq(ToPublisher) /\ inbox' = Append(inbox, f)
    BY <1>1 DEF TypeOK, TellPublisher
  <2>2. /\ inbox' \in Seq(ToPublisher) /\ Len(inbox') = Len(inbox) + 1 /\ Len(inbox) \in Nat
        /\ inbox'[Len(inbox) + 1] = f
        /\ \A i \in 1..Len(inbox) : inbox'[i] = inbox[i]
    BY <2>1, AppendFacts
  <2> QED BY <2>2 DEF OffersNumbered
<1>2. CASE plink # "up"
  BY <1>2 DEF TypeOK, TellPublisher, OffersNumbered
<1> QED BY <1>1, <1>2

LEMMA ReadTyped ==
  ASSUME TypeOK, NEW v \in Viewers, mail[v] # <<>>, Read(v)
  PROVE  /\ mail' \in [Viewers -> Seq(ToViewer)] /\ Head(mail[v]) \in ToViewer
         /\ Invitations(mail'[v]) \in Nat
         /\ Invitations(mail[v]) = Invitations(mail'[v])
              + (IF Head(mail[v]).kind \in Inviting THEN 1 ELSE 0)
         /\ \A w \in Viewers : w # v => mail'[w] = mail[w]
<1>1. mail[v] \in Seq(ToViewer)
  BY DEF TypeOK
<1>2. Tail(mail[v]) \in Seq(ToViewer) /\ Head(mail[v]) \in ToViewer
  BY <1>1, TailFacts
<1>3. mail' = [mail EXCEPT ![v] = Tail(mail[v])] /\ mail'[v] = Tail(mail[v])
  BY DEF Read, TypeOK
<1>4. /\ Invitations(Tail(mail[v])) \in Nat
      /\ Invitations(mail[v]) = Invitations(Tail(mail[v]))
           + (IF Head(mail[v]).kind \in Inviting THEN 1 ELSE 0)
  BY <1>1, <1>2, InvitationsNat, InvitationsTail
<1>5. mail' \in [Viewers -> Seq(ToViewer)] /\ \A w \in Viewers : w # v => mail'[w] = mail[w]
  BY <1>2, <1>3 DEF TypeOK
<1> QED BY <1>2, <1>3, <1>4, <1>5

\* The first frame for the publisher, and the rest.
LEMMA HandlingTyped ==
  ASSUME TypeOK, OffersNumbered, NEW kind, Handling(kind)
  PROVE  /\ Head(inbox) \in ToPublisher /\ Tail(inbox) \in Seq(ToPublisher)
         /\ Head(inbox).from \in Viewers /\ Head(inbox).k \in 0..MaxOffers
         /\ kind = "offer" => <<Head(inbox).from, Head(inbox).k>> \in Offers
         /\ inbox' = Tail(inbox) => OffersNumbered'
<1>1. inbox # <<>> /\ inbox \in Seq(ToPublisher) /\ Head(inbox).kind = kind
  BY DEF Handling, TypeOK
<1>2. /\ Head(inbox) \in ToPublisher /\ Head(inbox) = inbox[1] /\ 1 \in 1..Len(inbox)
      /\ Tail(inbox) \in Seq(ToPublisher)
      /\ \A i \in 1..Len(Tail(inbox)) : i + 1 \in 1..Len(inbox) /\ Tail(inbox)[i] = inbox[i + 1]
  BY <1>1, TailFacts
<1>3. Head(inbox).from \in Viewers /\ Head(inbox).k \in 0..MaxOffers
  BY <1>2 DEF ToPublisher
<1>4. kind = "offer" => Head(inbox).k # None
  BY <1>1, <1>2 DEF OffersNumbered
<1>5. kind = "offer" => <<Head(inbox).from, Head(inbox).k>> \in Offers
  BY <1>3, <1>4, OffersExist DEF None
<1>6. inbox' = Tail(inbox) => OffersNumbered'
  BY <1>2 DEF OffersNumbered
<1> QED BY <1>2, <1>3, <1>5, <1>6

\* A viewer that makes an offer has a number left for it.
LEMMA OfferHasNumber ==
  ASSUME Typed, NEW v \in Viewers, mail[v] # <<>>, Head(mail[v]).kind \in Inviting,
         vlink[v] = "up"
  PROVE  offers[v] + 1 \in 1..MaxOffers
<1>1. mail[v] \in Seq(ToViewer) /\ offers[v] \in Nat /\ breaks \in 0..MaxBreaks
  BY DEF Typed, TypeOK
<1>2. Tail(mail[v]) \in Seq(ToViewer)
  BY <1>1, TailFacts
<1>3. Invitations(mail[v]) \in Nat /\ Invitations(mail[v]) >= 1
  <2>1. Invitations(mail[v]) = Invitations(Tail(mail[v])) + 1
    BY <1>1, InvitationsTail
  <2>2. Invitations(Tail(mail[v])) \in Nat
    BY <1>2, InvitationsNat
  <2> QED BY <2>1, <2>2
<1>4. offers[v] + Invitations(mail[v]) <= breaks + 1
  <2>1. Chance(v) \in {0, 1}
    BY DEF Chance
  <2>2. offers[v] + Invitations(mail[v]) <= breaks + Chance(v)
    BY DEF Typed, BudgetInv
  <2> QED BY <1>1, <2>1, <2>2, InvitationsNat
<1> QED BY <1>1, <1>3, <1>4, InvitationsNat, OffersExist

LEMMA InitTyped == Init => Typed
<1> SUFFICES ASSUME Init PROVE Typed
  OBVIOUS
<1> USE OffersExist, VideoAssumption DEF Init
<1>1. <<>> \in Seq(ToPublisher) /\ <<>> \in Seq(ToViewer) /\ Len(<<>>) = 0
  OBVIOUS
<1>2. TypeOK
  BY <1>1 DEF TypeOK
<1>3. OffersNumbered
  BY <1>1 DEF OffersNumbered
<1>4. BudgetInv
  <2> SUFFICES ASSUME NEW v \in Viewers
               PROVE  offers[v] + Invitations(mail[v]) <= breaks + Chance(v)
    BY DEF BudgetInv
  <2>1. offers[v] = 0 /\ mail[v] = <<>> /\ breaks = 0
    OBVIOUS
  <2>2. Chance(v) \in {0, 1}
    BY DEF Chance
  <2> QED BY <2>1, <2>2, InvitationsEmpty
<1> QED BY <1>2, <1>3, <1>4 DEF Typed

LEMMA BudgetFrame ==
  ASSUME BudgetInv, UNCHANGED <<plink, vlink, mail, offers, breaks>>
  PROVE  BudgetInv'
BY DEF BudgetInv, Chance

LEMMA PublisherTyped == Typed /\ Publisher => Typed'
<1> SUFFICES ASSUME Typed, Publisher PROVE Typed'
  OBVIOUS
<1> USE OffersExist DEF pubVars, viewVars, worldVars
<1>0. TypeOK /\ OffersNumbered /\ BudgetInv
  BY DEF Typed
<1>1. CASE PubJoin
  <2>1. Letter("peer-joined", 0) \in ToViewer /\ Letter("peer-joined", 0).kind \in Inviting
    BY LetterType DEF Inviting
  <2>2. /\ mail' \in [Viewers -> Seq(ToViewer)]
        /\ \A v \in Viewers : Invitations(mail'[v])
             = Invitations(mail[v]) + (IF vlink[v] = "up" THEN 1 ELSE 0)
    BY <1>0, <1>1, <2>1, TellTyped DEF PubJoin
  <2>3. TypeOK'
    BY <1>0, <1>1, <2>2 DEF PubJoin, TypeOK
  <2>4. OffersNumbered'
    BY <1>0, <1>1 DEF PubJoin, OffersNumbered
  <2>5. ASSUME NEW v \in Viewers
        PROVE  offers'[v] + Invitations(mail'[v]) <= breaks' + Chance(v)'
    <3>1. /\ offers[v] \in Nat /\ Invitations(mail[v]) \in Nat /\ breaks \in Nat
          /\ offers'[v] = offers[v] /\ breaks' = breaks
      BY <1>0, <1>1, InvitationsNat DEF PubJoin, TypeOK
    <3>2. Chance(v)' = Chance(v) + (IF vlink[v] = "up" THEN 1 ELSE 0)
      BY <1>1 DEF PubJoin, Chance
    <3>3. Chance(v) \in {0, 1}
      BY DEF Chance
    <3> QED BY <1>0, <2>2, <3>1, <3>2, <3>3 DEF BudgetInv
  <2> QED BY <2>3, <2>4, <2>5 DEF Typed, BudgetInv
<1>2. CASE OnOffer
  <2>1. /\ Handling("offer") /\ inbox' = Tail(inbox)
        /\ UNCHANGED <<plink, callbacks, viewVars, mail, worldVars>>
    BY <1>2 DEF OnOffer
  <2>2. /\ Tail(inbox) \in Seq(ToPublisher)
        /\ Head(inbox).from \in Viewers /\ Head(inbox).k \in 0..MaxOffers
        /\ <<Head(inbox).from, Head(inbox).k>> \in Offers
        /\ OffersNumbered'
    BY <1>0, <2>1, HandlingTyped
  <2>3. busy' \subseteq Offers /\ table' \in [Viewers -> 0..MaxOffers]
    BY <1>0, <1>2, <2>2 DEF OnOffer, TypeOK
  <2>4. pub' \in [Offers -> {"none", "new", "answered", "connected", "failed", "closed"}]
    BY <1>0, <1>2, <2>2 DEF OnOffer, TypeOK
  <2>5. TypeOK'
    BY <1>0, <2>1, <2>2, <2>3, <2>4 DEF TypeOK
  <2> QED BY <1>0, <2>1, <2>2, <2>5, BudgetFrame DEF Typed
<1>3. CASE Answer
  <2>1. PICK o \in busy :
          /\ pub' = [pub EXCEPT ![o] = "answered"] /\ busy' = {}
          /\ IF plink = "up" THEN Tell({o[1]}, Letter("answer", o[2])) ELSE UNCHANGED mail
          /\ UNCHANGED <<plink, table, callbacks, inbox, viewVars, worldVars>>
    BY <1>3 DEF Answer
  <2>2. o \in Offers /\ o[1] \in Viewers /\ o[2] \in 0..MaxOffers
    BY <1>0 DEF TypeOK, Offers
  <2>3. Letter("answer", o[2]) \in ToViewer /\ Letter("answer", o[2]).kind \notin Inviting
    BY <2>2, LetterType DEF Inviting
  <2>4. /\ mail' \in [Viewers -> Seq(ToViewer)]
        /\ \A v \in Viewers : Invitations(mail'[v]) = Invitations(mail[v])
    <3>1. CASE plink = "up"
      <4>1. Tell({o[1]}, Letter("answer", o[2])) /\ {o[1]} \in SUBSET Viewers
        BY <2>1, <2>2, <3>1
      <4>2. \A v \in Viewers : Invitations(mail[v]) \in Nat
        BY <1>0, InvitationsNat DEF TypeOK
      <4> DEFINE letter == Letter("answer", o[2])
      <4>3. letter \in ToViewer /\ letter.kind \notin Inviting /\ Tell({o[1]}, letter)
        BY <2>3, <4>1
      <4> HIDE DEF letter
      <4>4. /\ mail' \in [Viewers -> Seq(ToViewer)]
            /\ \A v \in Viewers : Invitations(mail'[v]) = Invitations(mail[v])
                 + (IF v \in {o[1]} /\ vlink[v] = "up" /\ letter.kind \in Inviting
                    THEN 1 ELSE 0)
        BY <1>0, <4>1, <4>3, TellTyped
      <4> QED BY <4>2, <4>3, <4>4
    <3>2. CASE plink # "up"
      BY <1>0, <2>1, <3>2 DEF TypeOK
    <3> QED BY <3>1, <3>2
  <2>5. TypeOK'
    BY <1>0, <2>1, <2>2, <2>4 DEF TypeOK
  <2>6. OffersNumbered' /\ BudgetInv'
    BY <1>0, <2>1, <2>4 DEF OffersNumbered, BudgetInv, Chance
  <2> QED BY <2>5, <2>6 DEF Typed
<1>4. CASE OnPeerLeft
  <2>1. /\ Handling("peer-left") /\ inbox' = Tail(inbox)
        /\ UNCHANGED <<plink, busy, viewVars, mail, worldVars>>
    BY <1>4 DEF OnPeerLeft
  <2>2. Tail(inbox) \in Seq(ToPublisher) /\ Head(inbox).from \in Viewers /\ OffersNumbered'
    BY <1>0, <2>1, HandlingTyped
  <2>3. /\ table' \in [Viewers -> 0..MaxOffers] /\ callbacks' \subseteq Offers
        /\ pub' \in [Offers -> {"none", "new", "answered", "connected", "failed", "closed"}]
    BY <1>0, <1>4, <2>2 DEF OnPeerLeft, TypeOK
  <2>4. TypeOK'
    BY <1>0, <2>1, <2>2, <2>3 DEF TypeOK
  <2> QED BY <1>0, <2>1, <2>2, <2>4, BudgetFrame DEF Typed
<1>5. ASSUME NEW o \in Offers, OnState(o) PROVE Typed'
  <2>1. TypeOK'
    BY <1>0, <1>5 DEF OnState, TypeOK
  <2>2. OffersNumbered' /\ BudgetInv'
    BY <1>0, <1>5, BudgetFrame DEF OnState, OffersNumbered
  <2> QED BY <2>1, <2>2 DEF Typed
<1> QED BY <1>1, <1>2, <1>3, <1>4, <1>5 DEF Publisher

LEMMA ViewerTyped == \A v \in Viewers : Typed /\ Viewer(v) => Typed'
<1> SUFFICES ASSUME NEW v \in Viewers, Typed, Viewer(v) PROVE Typed'
  OBVIOUS
<1> USE OffersExist DEF pubVars, viewVars, worldVars
<1>0. TypeOK /\ OffersNumbered /\ BudgetInv
  BY DEF Typed
<1>1. CASE ViewerJoin(v)
  <2> DEFINE letter == Letter(IF plink = "up" THEN "joined-follower" ELSE "joined", 0)
  <2>1. letter \in ToViewer /\ (letter.kind \in Inviting <=> plink = "up")
    BY LetterType DEF Inviting
  <2>2. /\ mail' = [mail EXCEPT ![v] = <<letter>>] /\ vlink' = [vlink EXCEPT ![v] = "up"]
        /\ vlink[v] = "down"
        /\ UNCHANGED <<pubVars, inbox, offers, current, view, started, panels, worldVars>>
    BY <1>1 DEF ViewerJoin
  <2> HIDE DEF letter
  <2>3. <<>> \in Seq(ToViewer) /\ <<letter>> = Append(<<>>, letter)
    OBVIOUS
  <2>4. <<letter>> \in Seq(ToViewer)
    BY <2>1
  <2>5. Invitations(<<letter>>) = IF plink = "up" THEN 1 ELSE 0
    <3>1. Invitations(<<letter>>)
            = Invitations(<<>>) + (IF letter.kind \in Inviting THEN 1 ELSE 0)
      BY <2>1, <2>3, InvitationsAppend
    <3> QED BY <2>1, <3>1, InvitationsEmpty
  <2>6. TypeOK'
    BY <1>0, <2>2, <2>4 DEF TypeOK
  <2>7. ASSUME NEW w \in Viewers
        PROVE  offers'[w] + Invitations(mail'[w]) <= breaks' + Chance(w)'
    <3>1. CASE w = v
      <4>1. mail'[v] = <<letter>> /\ vlink'[v] = "up" /\ offers'[v] = offers[v]
            /\ breaks' = breaks /\ plink' = plink
        BY <1>0, <2>2 DEF TypeOK
      <4>2. Chance(v)' = (IF plink = "up" THEN 1 ELSE 0) /\ Chance(v) = 0
        BY <2>2, <4>1 DEF Chance
      <4>3. offers[v] \in Nat /\ Invitations(mail[v]) \in Nat /\ breaks \in Nat
        BY <1>0, InvitationsNat DEF TypeOK
      <4>4. offers[v] + Invitations(mail[v]) <= breaks + Chance(v)
        BY <1>0 DEF BudgetInv
      <4> QED BY <2>5, <3>1, <4>1, <4>2, <4>3, <4>4
    <3>2. CASE w # v
      BY <1>0, <2>2, <3>2 DEF TypeOK, BudgetInv, Chance
    <3> QED BY <3>1, <3>2
  <2>8. OffersNumbered'
    BY <1>0, <2>2 DEF OffersNumbered
  <2> QED BY <2>6, <2>7, <2>8 DEF Typed, BudgetInv
<1>2. ASSUME NEW kinds, Opens(v, kinds), Read(v),
             UNCHANGED <<pubVars, inbox, vlink, offers, worldVars>>
      PROVE  /\ mail' \in [Viewers -> Seq(ToViewer)] /\ Head(mail[v]) \in ToViewer
             /\ OffersNumbered' /\ BudgetInv'
  <2>1. /\ mail' \in [Viewers -> Seq(ToViewer)] /\ Head(mail[v]) \in ToViewer
        /\ Invitations(mail'[v]) \in Nat
        /\ Invitations(mail[v]) = Invitations(mail'[v])
             + (IF Head(mail[v]).kind \in Inviting THEN 1 ELSE 0)
        /\ \A w \in Viewers : w # v => mail'[w] = mail[w]
    BY <1>0, <1>2, ReadTyped DEF Opens
  <2>2. ASSUME NEW w \in Viewers
        PROVE  offers'[w] + Invitations(mail'[w]) <= breaks' + Chance(w)'
    <3>1. Invitations(mail'[w]) \in Nat /\ Invitations(mail'[w]) <= Invitations(mail[w])
      <4>1. CASE w = v
        BY <2>1, <4>1
      <4>2. CASE w # v
        <5>1. Invitations(mail[w]) \in Nat /\ mail'[w] = mail[w]
          BY <1>0, <2>1, <4>2, InvitationsNat DEF TypeOK
        <5> QED BY <5>1
      <4> QED BY <4>1, <4>2
    <3>2. Chance(w)' = Chance(w) /\ Chance(w) \in {0, 1}
      BY <1>2 DEF Chance
    <3>3. offers[w] \in Nat /\ breaks \in Nat /\ Invitations(mail[w]) \in Nat
      BY <1>0, InvitationsNat DEF TypeOK
    <3> QED BY <1>0, <1>2, <3>1, <3>2, <3>3 DEF BudgetInv
  <2>3. OffersNumbered'
    BY <1>0, <1>2 DEF OffersNumbered
  <2> QED BY <2>1, <2>2, <2>3 DEF BudgetInv
<1>3. CASE OnJoined(v)
  <2>1. mail' \in [Viewers -> Seq(ToViewer)] /\ OffersNumbered' /\ BudgetInv'
    BY <1>2, <1>3 DEF OnJoined
  <2>2. TypeOK'
    BY <1>0, <1>3, <2>1 DEF OnJoined, TypeOK
  <2> QED BY <2>1, <2>2 DEF Typed
<1>4. CASE OnFollower(v)
  <2>1. /\ vlink[v] = "up" /\ mail[v] # <<>> /\ Head(mail[v]).kind \in Inviting
        /\ ConnectTo(v) /\ Read(v)
        /\ started' \in {started, started \ {v}}
        /\ UNCHANGED <<pubVars, vlink, panels, worldVars>>
    BY <1>4 DEF OnFollower, Opens, Inviting
  <2> DEFINE k == offers[v] + 1
  <2>2. k \in 1..MaxOffers /\ k # None /\ <<v, k>> \in Offers /\ k \in 0..MaxOffers
    BY <2>1, OfferHasNumber DEF None
  <2>3. /\ offers' = [offers EXCEPT ![v] = k] /\ current' = [current EXCEPT ![v] = k]
        /\ view' = [view EXCEPT ![<<v, k>>] = "offered"]
        /\ TellPublisher(Frame("offer", v, k))
    BY <2>1 DEF ConnectTo
  <2> HIDE DEF k
  <2>4. inbox' \in Seq(ToPublisher) /\ OffersNumbered'
    BY <1>0, <2>2, <2>3, FrameType, TellPublisherTyped
  <2>5. /\ mail' \in [Viewers -> Seq(ToViewer)]
        /\ Invitations(mail'[v]) \in Nat /\ Invitations(mail[v]) = Invitations(mail'[v]) + 1
        /\ \A w \in Viewers : w # v => mail'[w] = mail[w]
    BY <1>0, <2>1, ReadTyped
  <2>6. TypeOK'
    <3>1. /\ offers' \in [Viewers -> 0..MaxOffers] /\ current' \in [Viewers -> 0..MaxOffers]
          /\ view' \in [Offers -> {"none", "offered", "answered", "mismatched", "connected",
                                   "failed", "closed"}]
      BY <1>0, <2>2, <2>3 DEF TypeOK
    <3>2. started' \subseteq Viewers
      BY <1>0, <2>1 DEF TypeOK
    <3> QED BY <1>0, <2>1, <2>4, <2>5, <3>1, <3>2 DEF TypeOK
  <2>7. ASSUME NEW w \in Viewers
        PROVE  offers'[w] + Invitations(mail'[w]) <= breaks' + Chance(w)'
    <3>1. /\ Chance(w)' = Chance(w) /\ breaks' = breaks
          /\ offers[w] + Invitations(mail[w]) <= breaks + Chance(w)
      BY <1>0, <2>1 DEF Chance, BudgetInv
    <3>2. CASE w = v
      <4>1. offers'[v] = offers[v] + 1 /\ offers[v] \in Nat
        BY <1>0, <2>3 DEF TypeOK, k
      <4>2. breaks \in Nat /\ Chance(v) \in {0, 1}
        BY <1>0 DEF TypeOK, Chance
      <4> QED BY <2>5, <3>1, <3>2, <4>1, <4>2
    <3>3. CASE w # v
      <4>1. offers'[w] = offers[w] /\ mail'[w] = mail[w]
        BY <1>0, <2>3, <2>5, <3>3 DEF TypeOK
      <4> QED BY <3>1, <4>1
    <3> QED BY <3>2, <3>3
  <2> QED BY <2>4, <2>6, <2>7 DEF Typed, BudgetInv
<1>5. CASE OnAnswer(v)
  <2>1. mail' \in [Viewers -> Seq(ToViewer)] /\ OffersNumbered' /\ BudgetInv'
    BY <1>2, <1>5 DEF OnAnswer
  <2>2. /\ view' \in [Offers -> {"none", "offered", "answered", "mismatched", "connected",
                                 "failed", "closed"}]
        /\ started' \subseteq Viewers /\ panels' \in [Viewers -> [Panels -> 0..MaxOffers]]
    <3>1. CASE UNCHANGED <<view, started, panels>>
      BY <1>0, <3>1 DEF TypeOK
    <3>2. CASE /\ view' = [view EXCEPT ![<<v, current[v]>>] =
                            IF Head(mail[v]).k = current[v] THEN "answered" ELSE "mismatched"]
               /\ OnTracks(v)
      <4>1. current[v] \in 0..MaxOffers
        BY <1>0 DEF TypeOK
      <4>2. [p \in Panels |-> IF p = "global" /\ v \in started THEN panels[v][p]
                              ELSE current[v]] \in [Panels -> 0..MaxOffers]
        BY <1>0, <4>1 DEF TypeOK
      <4>3. panels' \in [Viewers -> [Panels -> 0..MaxOffers]]
        BY <1>0, <3>2, <4>2 DEF TypeOK, OnTracks
      <4> QED BY <1>0, <3>2, <4>3 DEF TypeOK, OnTracks
    <3> QED BY <1>5, <3>1, <3>2 DEF OnAnswer
  <2>3. TypeOK'
    BY <1>0, <1>5, <2>1, <2>2 DEF OnAnswer, TypeOK
  <2> QED BY <2>1, <2>3 DEF Typed
<1> QED BY <1>1, <1>3, <1>4, <1>5 DEF Viewer

\* A viewer's departure, for good or until it is back.
LEMMA DepartsTyped ==
  ASSUME TypeOK, OffersNumbered, NEW v \in Viewers, Departs(v)
  PROVE  /\ inbox' \in Seq(ToPublisher) /\ OffersNumbered'
         /\ mail' \in [Viewers -> Seq(ToViewer)] /\ mail'[v] = <<>>
         /\ \A w \in Viewers : w # v => mail'[w] = mail[w]
<1>1. <<>> \in Seq(ToViewer)
  OBVIOUS
<1>2. inbox' \in Seq(ToPublisher) /\ OffersNumbered'
  <2>1. CASE vlink[v] = "up"
    <3>1. /\ TellPublisher(Frame("peer-left", v, 0)) /\ Frame("peer-left", v, 0) \in ToPublisher
          /\ Frame("peer-left", v, 0).kind # "offer"
      BY <2>1, FrameType, OffersExist DEF Departs
    <3> QED BY <3>1, TellPublisherTyped
  <2>2. CASE vlink[v] # "up"
    BY <2>2 DEF Departs, TypeOK, OffersNumbered
  <2> QED BY <2>1, <2>2
<1> QED BY <1>1, <1>2 DEF Departs, TypeOK

LEMMA CloseSessionTyped == \A v \in Viewers : Typed /\ CloseSession(v) => Typed'
<1> SUFFICES ASSUME NEW v \in Viewers, Typed, CloseSession(v) PROVE Typed'
  OBVIOUS
<1> USE OffersExist DEF pubVars
<1>0. TypeOK /\ OffersNumbered /\ BudgetInv
  BY DEF Typed
<1>1. /\ vlink[v] # "closed" /\ vlink' = [vlink EXCEPT ![v] = "closed"]
      /\ UNCHANGED <<pubVars, offers, started, panels, breaks, earlier>>
  BY DEF CloseSession
<1>2. /\ inbox' \in Seq(ToPublisher) /\ OffersNumbered'
      /\ mail' \in [Viewers -> Seq(ToViewer)] /\ mail'[v] = <<>>
      /\ \A w \in Viewers : w # v => mail'[w] = mail[w]
  BY <1>0, DepartsTyped DEF CloseSession
<1>3. TypeOK'
  <2>1. /\ view' \in [Offers -> {"none", "offered", "answered", "mismatched", "connected",
                                 "failed", "closed"}]
        /\ current' \in [Viewers -> 0..MaxOffers]
    BY <1>0 DEF TypeOK, CloseSession
  <2> QED BY <1>0, <1>1, <1>2, <2>1 DEF TypeOK
<1>4. ASSUME NEW w \in Viewers
      PROVE  offers'[w] + Invitations(mail'[w]) <= breaks' + Chance(w)'
  <2>1. /\ offers[w] \in Nat /\ breaks \in Nat /\ Invitations(mail[w]) \in Nat
        /\ offers'[w] = offers[w] /\ breaks' = breaks
        /\ offers[w] + Invitations(mail[w]) <= breaks + Chance(w)
    BY <1>0, <1>1, InvitationsNat DEF TypeOK, BudgetInv
  <2>2. CASE w = v
    <3>1. Invitations(mail'[w]) = 0 /\ Chance(w)' = 1 /\ Chance(w) \in {0, 1}
      BY <1>0, <1>1, <1>2, <2>2, InvitationsEmpty DEF Chance, TypeOK
    <3> QED BY <2>1, <3>1
  <2>3. CASE w # v
    <3>1. mail'[w] = mail[w] /\ Chance(w)' = Chance(w)
      BY <1>0, <1>1, <1>2, <2>3 DEF Chance, TypeOK
    <3> QED BY <2>1, <3>1
  <2> QED BY <2>2, <2>3
<1> QED BY <1>2, <1>3, <1>4 DEF Typed, BudgetInv

LEMMA ViewerBreakTyped == \A v \in Viewers : Typed /\ ViewerBreak(v) => Typed'
<1> SUFFICES ASSUME NEW v \in Viewers, Typed, ViewerBreak(v) PROVE Typed'
  OBVIOUS
<1> USE OffersExist DEF pubVars
<1>0. TypeOK /\ OffersNumbered /\ BudgetInv
  BY DEF Typed
<1>1. /\ vlink[v] = "up" /\ vlink' = [vlink EXCEPT ![v] = "down"]
      /\ breaks < MaxBreaks /\ breaks' = breaks + 1
      /\ UNCHANGED <<pubVars, offers, current, view, started, panels, earlier>>
  BY DEF ViewerBreak, Fail
<1>2. /\ inbox' \in Seq(ToPublisher) /\ OffersNumbered'
      /\ mail' \in [Viewers -> Seq(ToViewer)] /\ mail'[v] = <<>>
      /\ \A w \in Viewers : w # v => mail'[w] = mail[w]
  BY <1>0, DepartsTyped DEF ViewerBreak
<1>3. TypeOK'
  <2>1. breaks' \in 0..MaxBreaks /\ vlink' \in [Viewers -> {"up", "down", "closed"}]
    BY <1>0, <1>1 DEF TypeOK
  <2> QED BY <1>0, <1>1, <1>2, <2>1 DEF TypeOK
<1>4. ASSUME NEW w \in Viewers
      PROVE  offers'[w] + Invitations(mail'[w]) <= breaks' + Chance(w)'
  <2>1. /\ offers[w] \in Nat /\ breaks \in Nat /\ Invitations(mail[w]) \in Nat
        /\ offers'[w] = offers[w]
        /\ offers[w] + Invitations(mail[w]) <= breaks + Chance(w)
        /\ Chance(w) \in {0, 1} /\ Chance(w)' \in {0, 1}
    BY <1>0, <1>1, InvitationsNat DEF TypeOK, BudgetInv, Chance
  <2>2. Invitations(mail'[w]) \in Nat /\ Invitations(mail'[w]) <= Invitations(mail[w])
    <3>1. CASE w = v
      BY <1>2, <2>1, <3>1, InvitationsEmpty
    <3>2. CASE w # v
      <4>1. mail'[w] = mail[w]
        BY <1>2, <3>2
      <4> QED BY <2>1, <4>1
    <3> QED BY <3>1, <3>2
  <2> QED BY <1>1, <2>1, <2>2
<1> QED BY <1>2, <1>3, <1>4 DEF Typed, BudgetInv

LEMMA PublisherFailsTyped == Typed /\ (PubBreak \/ PubCrash) => Typed'
<1> SUFFICES ASSUME Typed, PubBreak \/ PubCrash PROVE Typed'
  OBVIOUS
<1> USE OffersExist DEF viewVars
<1>0. TypeOK /\ OffersNumbered /\ BudgetInv
  BY DEF Typed
<1>1. /\ plink' = "down" /\ inbox' = <<>> /\ breaks < MaxBreaks /\ breaks' = breaks + 1
      /\ UNCHANGED <<viewVars, mail, earlier>>
  BY DEF PubBreak, PubCrash, Fail
<1>2. /\ busy' \subseteq Offers /\ table' \in [Viewers -> 0..MaxOffers]
      /\ pub' \in [Offers -> {"none", "new", "answered", "connected", "failed", "closed"}]
      /\ callbacks' \subseteq Offers
  <2>1. CASE PubBreak
    BY <1>0, <2>1 DEF PubBreak, TypeOK
  <2>2. CASE PubCrash
    BY <1>0, <2>2 DEF PubCrash, TypeOK
  <2> QED BY <2>1, <2>2
<1>3. <<>> \in Seq(ToPublisher) /\ Len(<<>>) = 0
  OBVIOUS
<1>4. TypeOK' /\ OffersNumbered'
  BY <1>0, <1>1, <1>2, <1>3 DEF TypeOK, OffersNumbered
<1>5. ASSUME NEW w \in Viewers
      PROVE  offers'[w] + Invitations(mail'[w]) <= breaks' + Chance(w)'
  <2>1. /\ offers[w] \in Nat /\ breaks \in Nat /\ Invitations(mail[w]) \in Nat
        /\ offers[w] + Invitations(mail[w]) <= breaks + Chance(w)
        /\ Chance(w) \in {0, 1} /\ Chance(w)' \in {0, 1}
    BY <1>0, InvitationsNat DEF TypeOK, BudgetInv, Chance
  <2> QED BY <1>1, <2>1
<1> QED BY <1>4, <1>5 DEF Typed, BudgetInv

LEMMA WebRTCTyped == \A o \in Offers : Typed /\ (WebRTC(o) \/ GiveUp(o)) => Typed'
<1> SUFFICES ASSUME NEW o \in Offers, Typed, WebRTC(o) \/ GiveUp(o) PROVE Typed'
  OBVIOUS
<1> USE OffersExist DEF worldVars
<1>0. TypeOK /\ OffersNumbered /\ BudgetInv
  BY DEF Typed
<1>1. UNCHANGED <<plink, busy, table, inbox, vlink, offers, current, started, panels, mail,
                  worldVars>>
  BY DEF WebRTC, Establish, ConsentExpires, GiveUp
<1>2. /\ pub' \in [Offers -> {"none", "new", "answered", "connected", "failed", "closed"}]
      /\ view' \in [Offers -> {"none", "offered", "answered", "mismatched", "connected",
                               "failed", "closed"}]
      /\ callbacks' \subseteq Offers
  <2>1. CASE Establish(o)
    BY <1>0, <2>1 DEF Establish, TypeOK
  <2>2. CASE Fails(o, "pub") \/ Fails(o, "view")
    BY <1>0, <2>2 DEF Fails, TypeOK
  <2> QED BY <2>1, <2>2 DEF WebRTC, ConsentExpires, GiveUp
<1>3. TypeOK' /\ OffersNumbered' /\ BudgetInv'
  BY <1>0, <1>1, <1>2, BudgetFrame DEF TypeOK, OffersNumbered
<1> QED BY <1>3 DEF Typed

LEMMA TypedStep == Typed /\ [Next]_vars => Typed'
<1> SUFFICES ASSUME Typed, [Next]_vars PROVE Typed'
  OBVIOUS
<1>1. CASE Publisher \/ PubBreak \/ PubCrash
  BY <1>1, PublisherTyped, PublisherFailsTyped
<1>2. ASSUME NEW v \in Viewers, Viewer(v) \/ ViewerBreak(v) \/ CloseSession(v) PROVE Typed'
  BY <1>2, ViewerTyped, ViewerBreakTyped, CloseSessionTyped
<1>3. ASSUME NEW o \in Offers, WebRTC(o) \/ GiveUp(o) PROVE Typed'
  BY <1>3, WebRTCTyped
<1>4. CASE UNCHANGED vars
  BY <1>4, BudgetFrame
  DEF vars, pubVars, viewVars, worldVars, Typed, TypeOK, OffersNumbered
<1> QED BY <1>1, <1>2, <1>3, <1>4 DEF Next

\* The types, together with the arithmetic of offers and failures they rest on: a viewer
\* that makes a further offer has had a failure to make it for.
THEOREM TypedAlways == Spec => []Typed
<1> QED BY InitTyped, TypedStep, PTL DEF Spec

\* The types of publisher and browser, for any viewers and failures: an offer has a number,
\* because a viewer makes one more than there are failures.
THEOREM VideoTypeCorrect == Spec => []TypeOK
<1>1. Typed => TypeOK
  BY DEF Typed
<1> QED BY <1>1, TypedAlways, PTL
=============================================================================
