--------------------------- MODULE CheckoutProofs ----------------------------
(***************************************************************************)
(* Proofs about buyers at the replicas, for every number of both, every    *)
(* wallet, every table, every clock and every sequence of table changes,   *)
(* kills, timeouts and broken connections.                                 *)
(***************************************************************************)
EXTENDS CheckoutProps, TLAPS

Pay == [at : Places, offer : Offer \cup {NoOffer}, start : Nat, signedAt : Nat,
        before : Int, resent : BOOLEAN, result : Results]

AStream == [on : Replicas, entry : Prices, since : Nat, answered : BOOLEAN]

\* The parts of a buyer's invariant are always used together.
USE DEF BuyerInv, SignedInv, TermsInv, OnceInv

\* A buyer that a step does not concern.
Untouched(b) ==
    /\ pay'[b] = pay[b] /\ stream'[b] = stream[b] /\ job'[b] = job[b] /\ wallet' = wallet
    /\ (b \in claimed') = (b \in claimed)
    /\ now' >= now

\* Its part of the invariant stays.
LEMMA UntouchedKeeps ==
  ASSUME TypeOK, now' \in Nat, NEW b \in Buyers, BuyerInv(b), Untouched(b)
  PROVE  BuyerInv(b)'
  <1>1. Signed(b) => Signed(b)'
    <2>1. now \in Nat /\ pay[b].signedAt \in Nat
      BY DEF TypeOK, BuyerTypeOK
    <2> QED BY <2>1 DEF Signed, Untouched, Life
  <1>2. NothingHeld(b)' <=> NothingHeld(b)
    BY DEF NothingHeld, Untouched, Open
  <1>3. Open(b)' <=> Open(b)
    BY DEF Untouched, Open
  <1> QED BY <1>1, <1>2, <1>3 DEF BuyerInv, Untouched

\* What a step does to a buyer's stream, job and claim at the most, other than to add to them.
Closes(b) ==
    /\ stream'[b] \in {stream[b], Closed} /\ job'[b] = job[b] /\ wallet' = wallet
    /\ (b \in claimed') = (b \in claimed)
    /\ now' = now

\* The end of a Pay keeps its part: the result is chargeable, or nothing is left to charge.
LEMMA EndKeeps ==
  ASSUME TypeOK, NEW b \in Buyers, BuyerInv(b), Closes(b), NEW result \in Results,
         pay'[b] = [pay[b] EXCEPT !.at = "ended", !.result = result],
         \/ pay[b].resent \/ result \in Chargeable
         \/ stream'[b] = Closed /\ job[b] = NoOffer
  PROVE  BuyerInv(b)'
  <1>1. pay[b] \in Pay
    BY DEF TypeOK, BuyerTypeOK, Pay
  <1>2. /\ pay'[b].at = "ended" /\ pay'[b].result = result
        /\ pay'[b].offer = pay[b].offer /\ pay'[b].signedAt = pay[b].signedAt
        /\ pay'[b].before = pay[b].before /\ pay'[b].resent = pay[b].resent
    BY <1>1 DEF Pay
  <1>3. NothingHeld(b) \/ Signed(b)
    BY <1>1 DEF BuyerInv, Pay, Places
  <1>4. Open(b)' => Open(b) /\ stream'[b] = stream[b]
    BY DEF Open, Closes
  <1>5. NothingHeld(b) => NothingHeld(b)'
    BY <1>4 DEF NothingHeld, Closes
  <1>6. Signed(b) => Signed(b)'
    BY <1>2 DEF Signed, Closes, Life
  <1>7. Open(b)' => stream'[b] # Closed
    BY DEF Open
  <1> QED BY <1>2, <1>3, <1>4, <1>5, <1>6, <1>7 DEF BuyerInv, Closes

\* So does the end of its stream.
LEMMA CloseKeeps ==
  ASSUME TypeOK, NEW b \in Buyers, BuyerInv(b), Closes(b), pay'[b] = pay[b]
  PROVE  BuyerInv(b)'
  <1>1. Open(b)' => Open(b) /\ stream'[b] = stream[b]
    BY DEF Open, Closes
  <1>2. NothingHeld(b) => NothingHeld(b)'
    BY <1>1 DEF NothingHeld, Closes
  <1>3. Signed(b) => Signed(b)'
    BY DEF Signed, Closes, Life
  <1> QED BY <1>1, <1>2, <1>3 DEF BuyerInv, Closes

------------------------------------------------------------------------------
(* Types *)

\* A Pay that ends is still a Pay.
LEMMA EndType ==
  ASSUME BuyerTypeOK, NEW b \in Buyers, NEW result \in Results
  PROVE  [pay[b] EXCEPT !.at = "ended", !.result = result] \in Pay
  BY DEF BuyerTypeOK, Pay, Places

\* What a Verify or a table can be.
LEMMA Constants ==
    /\ Skew \in [Replicas -> Nat] /\ Prices \subseteq Offer
    /\ MaxServe \in Nat /\ MaxEvents \in Nat /\ MaxLosses \in Nat /\ MaxTime \in Nat
    /\ NoTable \notin Prices /\ Unpriced \notin Prices /\ NoOffer \notin Prices
    /\ Wallets \subseteq Wallet /\ Nowhere \notin Replicas /\ SkewAllowance \in Nat
  BY CheckoutAssumption, BuyerAssumption, VerifyAssumption

\* A step of one buyer keeps the invariant if its Pay and stream keep their types and its part
\* holds afterwards.
LEMMA OneBuyer ==
  ASSUME CheckoutInv, NEW b \in Buyers, NEW p \in Pay, NEW st \in AStream \cup {Closed},
         pay' = [pay EXCEPT ![b] = p], stream' = [stream EXCEPT ![b] = st],
         now' = now, wallet' = wallet, table' = table, events' = events,
         losses' \in 0..MaxLosses,
         claimed' = claimed \/ claimed' = claimed \cup {b},
         NEW j \in Prices \cup {NoOffer}, job' = [job EXCEPT ![b] = j],
         BuyerInv(b)'
  PROVE  CheckoutInv'
  <1>1. TypeOK /\ \A c \in Buyers : BuyerInv(c)
    BY DEF CheckoutInv
  <1>2. TypeOK'
    <2>1. pay' \in [Buyers -> Pay]
      BY <1>1 DEF TypeOK, BuyerTypeOK, Pay
    <2>2. stream' \in [Buyers -> AStream \cup {Closed}]
      BY <1>1 DEF TypeOK, SellerTypeOK, AStream
    <2>3. job' \in [Buyers -> Prices \cup {NoOffer}] /\ claimed' \subseteq Buyers
      BY <1>1 DEF TypeOK, SellerTypeOK
    <2> QED BY <1>1, <2>1, <2>2, <2>3 DEF TypeOK, BuyerTypeOK, SellerTypeOK, Pay, AStream, Closed
  <1>3. ASSUME NEW c \in Buyers, c # b PROVE BuyerInv(c)'
    <2>1. Untouched(c)
      BY <1>1, <1>3 DEF Untouched, TypeOK, BuyerTypeOK, SellerTypeOK
    <2> QED BY <1>1, <2>1, UntouchedKeeps DEF TypeOK
  <1> QED BY <1>2, <1>3 DEF CheckoutInv

------------------------------------------------------------------------------
(* Steps of one buyer *)

\* A Pay that ends, its stream being left or closed.
LEMMA EndStep ==
  ASSUME CheckoutInv, NEW b \in Buyers, NEW result \in Results, Ends(b, result),
         NEW st \in {stream[b], Closed}, stream' = [stream EXCEPT ![b] = st],
         UNCHANGED <<now, wallet, table, claimed, job, events>>, losses' \in 0..MaxLosses,
         \/ pay[b].resent \/ result \in Chargeable
         \/ st = Closed /\ job[b] = NoOffer
  PROVE  CheckoutInv'
  <1> DEFINE p == [pay[b] EXCEPT !.at = "ended", !.result = result]
  <1>1. TypeOK /\ BuyerInv(b) /\ BuyerTypeOK
    BY DEF CheckoutInv, TypeOK
  <1>2. p \in Pay
    BY <1>1, EndType
  <1>3. pay' = [pay EXCEPT ![b] = p] /\ pay'[b] = p
    BY <1>1 DEF Ends, Moves, BuyerTypeOK
  <1>4. stream'[b] = st /\ st \in AStream \cup {Closed}
    BY <1>1 DEF TypeOK, SellerTypeOK, AStream
  <1>5. job' = [job EXCEPT ![b] = job[b]] /\ job[b] \in Prices \cup {NoOffer}
    BY <1>1 DEF TypeOK, SellerTypeOK
  <1>6. BuyerInv(b)'
    BY <1>1, <1>3, <1>4, EndKeeps DEF Closes
  <1> HIDE DEF p, BuyerInv
  <1> QED BY <1>2, <1>3, <1>4, <1>5, <1>6, OneBuyer

\* A Pay that goes on: the stream may have changed, and its part of the invariant is to show.
LEMMA MoveStep ==
  ASSUME CheckoutInv, NEW b \in Buyers, NEW p \in Pay, Moves(b, p),
         UNCHANGED <<now, wallet, table, claimed, job, events, stream>>, losses' \in 0..MaxLosses,
         BuyerInv(b)'
  PROVE  CheckoutInv'
  <1>1. /\ stream' = [stream EXCEPT ![b] = stream[b]] /\ stream[b] \in AStream \cup {Closed}
        /\ job' = [job EXCEPT ![b] = job[b]] /\ job[b] \in Prices \cup {NoOffer}
    BY DEF CheckoutInv, TypeOK, SellerTypeOK, AStream
  <1> HIDE DEF BuyerInv
  <1> QED BY <1>1, OneBuyer DEF Moves

\* The first request goes out.
LEMMA AskStep ==
  ASSUME CheckoutInv, NEW b \in Buyers, Ask(b), UNCHANGED <<now, sellerVars>>
  PROVE  CheckoutInv'
  <1> DEFINE p == [pay[b] EXCEPT !.at = "asking", !.start = now]
  <1>1. TypeOK /\ pay[b] \in Pay /\ pay \in [Buyers -> Pay] /\ now \in Nat /\ losses \in 0..MaxLosses
    BY DEF CheckoutInv, TypeOK, BuyerTypeOK, Pay
  <1>2. p \in Pay
    BY <1>1 DEF Pay, Places
  <1>3. Moves(b, p) /\ pay'[b] = p /\ pay[b].at = "idle"
    BY <1>1 DEF Ask, Moves
  <1>4. p.at = "asking"
    BY <1>1 DEF Pay
  <1>5. UNCHANGED <<now, wallet, table, claimed, job, events, stream, losses>>
    BY DEF Ask, sellerVars
  <1>6. NothingHeld(b) /\ NothingHeld(b)'
    BY <1>3, <1>5 DEF CheckoutInv, NothingHeld, Open
  <1>7. BuyerInv(b)'
    BY <1>3, <1>4, <1>6 DEF NothingHeld
  <1> HIDE DEF p, BuyerInv
  <1> QED BY <1>1, <1>2, <1>3, <1>5, <1>7, MoveStep

\* The 402 arrives.
LEMMA QuoteStep ==
  ASSUME CheckoutInv, NEW b \in Buyers, NEW r \in Replicas, Quote(b, r)
  PROVE  CheckoutInv'
  <1>1. TypeOK /\ pay[b] \in Pay /\ pay \in [Buyers -> Pay] /\ losses \in 0..MaxLosses
    BY DEF CheckoutInv, TypeOK, BuyerTypeOK, Pay
  <1>2. UNCHANGED <<now, wallet, table, claimed, job, events, stream, losses>>
    BY DEF Quote, sellerVars
  <1>3. NothingHeld(b) /\ pay[b].at = "asking"
    BY DEF CheckoutInv, Quote
  <1>4. CASE table[r] \in {NoTable, Unpriced}
    <2>1. Ends(b, "unavailable") \/ Ends(b, "free")
      BY <1>4 DEF Quote
    <2>2. stream' = [stream EXCEPT ![b] = Closed] /\ job[b] = NoOffer
      BY <1>1, <1>2, <1>3 DEF NothingHeld, Open, TypeOK, SellerTypeOK
    <2> QED BY <1>1, <1>2, <2>1, <2>2, EndStep DEF Results
  <1>5. CASE table[r] \notin {NoTable, Unpriced}
    <2> DEFINE p == [pay[b] EXCEPT !.at = "quoted", !.offer = table[r]]
    <2>1. table[r] \in Prices /\ table[r] \in Offer
      BY <1>1, <1>5, Constants DEF TypeOK, SellerTypeOK
    <2>2. p \in Pay /\ p.at = "quoted" /\ p.offer = table[r]
      BY <1>1, <2>1 DEF Pay, Places
    <2>3. Moves(b, p) /\ pay'[b] = p
      BY <1>1, <1>5 DEF Quote, Moves
    <2>4. NothingHeld(b)'
      BY <1>2, <1>3 DEF NothingHeld, Open
    <2>5. BuyerInv(b)'
      BY <2>1, <2>2, <2>3, <2>4 DEF NothingHeld
    <2> HIDE DEF p, BuyerInv
    <2> QED BY <1>1, <1>2, <2>2, <2>3, <2>5, MoveStep
  <1> QED BY <1>4, <1>5

\* Of our own 402's one offer, Choose takes that offer or none, and only one that the wallet
\* may pay.
LEMMA ChooseOne ==
  ASSUME NEW w, NEW o, o # NoOffer
  PROVE  LET c == Choose(w, Accepts(o)) IN
           /\ c.offer \in {o, NoOffer} /\ c.why \in {"none", "no_offer", "above_limit"}
           /\ c.offer = o => o.network = w.network /\ ~(o.amount > w.limit)
  <1> DEFINE payable == {i \in DOMAIN <<o>> : <<o>>[i].network = w.network}
             first == <<o>>[CHOOSE i \in payable : \A j \in payable : i <= j]
  <1>1. DOMAIN <<o>> = {1} /\ <<o>>[1] = o
    OBVIOUS
  <1>2. payable = IF o.network = w.network THEN {1} ELSE {}
    BY <1>1
  <1>3. CASE o.network = w.network
    <2>1. first = o
      BY <1>1, <1>2, <1>3
    <2> HIDE DEF first
    <2>2. Choose(w, Accepts(o)) = IF o.amount > w.limit
                                  THEN [offer |-> NoOffer, why |-> "above_limit"]
                                  ELSE [offer |-> o, why |-> "none"]
      BY <1>2, <1>3, <2>1 DEF Choose, Accepts, first
    <2> QED BY <1>3, <2>2
  <1>4. CASE o.network # w.network
    BY <1>2, <1>4 DEF Choose, Accepts
  <1> QED BY <1>3, <1>4

\* A signature lives for some time, and never longer than the offer's window (Sign).
LEMMA LifeCapped ==
  ASSUME NEW w \in Wallet, NEW o \in Offer
  PROVE  Life(w, o) \in Nat /\ Life(w, o) <= o.timeout
  BY DEF Life, Wallet, Offer

\* The offer is signed, or Pay ends without one.
LEMMA SignStep ==
  ASSUME CheckoutInv, NEW b \in Buyers, SignOffer(b), UNCHANGED <<now, sellerVars>>
  PROVE  CheckoutInv'
  <1> DEFINE o == pay[b].offer
             c == Choose(wallet[b], Accepts(o))
  <1>1. TypeOK /\ pay[b] \in Pay /\ pay \in [Buyers -> Pay] /\ losses \in 0..MaxLosses
    BY DEF CheckoutInv, TypeOK, BuyerTypeOK, Pay
  <1>2. UNCHANGED <<now, wallet, table, claimed, job, events, stream, losses>>
    BY DEF SignOffer, sellerVars
  <1>3. NothingHeld(b) /\ o \in Prices
    BY DEF CheckoutInv, SignOffer
  <1>4. o \in Offer /\ o # NoOffer
    BY <1>3, Constants
  <1>5. /\ c.offer \in {o, NoOffer} /\ c.why \in {"none", "no_offer", "above_limit"}
        /\ c.offer = o => o.network = wallet[b].network /\ ~(o.amount > wallet[b].limit)
    BY <1>4, ChooseOne
  <1>6. /\ pay[b].at = "quoted"
        /\ IF c.offer = NoOffer THEN Ends(b, c.why)
           ELSE Moves(b, [pay[b] EXCEPT !.at = "paying", !.offer = c.offer, !.signedAt = now,
                            !.before = Clock(b) + Life(wallet[b], c.offer)])
    BY DEF SignOffer
  <1> HIDE DEF c
  <1>7. CASE c.offer = NoOffer
    <2>1. stream' = [stream EXCEPT ![b] = Closed] /\ job[b] = NoOffer
      BY <1>1, <1>2, <1>3 DEF NothingHeld, Open, TypeOK, SellerTypeOK
    <2> QED BY <1>1, <1>2, <1>5, <1>6, <1>7, <2>1, EndStep DEF Results
  <1>8. CASE c.offer # NoOffer
    <2> DEFINE p == [pay[b] EXCEPT !.at = "paying", !.offer = o, !.signedAt = now,
                       !.before = Clock(b) + Life(wallet[b], o)]
    <2>1. wallet[b] \in Wallet /\ wallet[b].skew \in Int /\ wallet[b].limit \in Nat /\ now \in Nat
      BY <1>1, Constants DEF TypeOK, BuyerTypeOK, Wallet
    <2>2. Life(wallet[b], o) \in Nat /\ o.amount \in Nat
      BY <1>4, <2>1, LifeCapped DEF Offer
    <2>3. Clock(b) + Life(wallet[b], o) \in Int
      BY <2>1, <2>2 DEF Clock
    <2>4. /\ p \in Pay /\ p.at = "paying" /\ p.offer = o /\ p.signedAt = now
          /\ p.before = Clock(b) + Life(wallet[b], o)
      BY <1>1, <1>4, <2>1, <2>3 DEF Pay, Places
    <2>5. Moves(b, p) /\ pay'[b] = p
      BY <1>1, <1>5, <1>6, <1>8 DEF Moves
    <2>6. NothingHeld(b)'
      BY <1>2, <1>3 DEF NothingHeld, Open
    <2> HIDE DEF p, o
    <2>7. Signed(b)'
      <3>1. o.network = wallet[b].network /\ o.amount <= wallet[b].limit
        BY <1>5, <1>8, <2>1, <2>2
      <3>2. Clock(b) + Life(wallet[b], o) = now + wallet[b].skew + Life(wallet[b], o)
        BY DEF Clock
      <3>3. pay'[b].offer = o /\ pay'[b].signedAt = now /\ now <= now
        BY <2>1, <2>4, <2>5
      <3> QED BY <1>2, <1>3, <2>4, <2>5, <3>1, <3>2, <3>3 DEF Signed, Life
    <2>8. BuyerInv(b)'
      BY <2>4, <2>5, <2>6, <2>7 DEF NothingHeld
    <2> HIDE DEF BuyerInv
    <2> QED BY <1>1, <1>2, <2>4, <2>5, <2>8, MoveStep
  <1> QED BY <1>7, <1>8

\* The command's context ends, or the answer arrives.
LEMMA ReturnStep ==
  ASSUME CheckoutInv, NEW b \in Buyers, Expire(b) \/ TakeAnswer(b), UNCHANGED <<now, sellerVars>>
  PROVE  CheckoutInv'
  <1>1. losses \in 0..MaxLosses /\ stream = [stream EXCEPT ![b] = stream[b]]
    BY DEF CheckoutInv, TypeOK, BuyerTypeOK, SellerTypeOK
  <1>2. UNCHANGED <<now, wallet, table, claimed, job, events, stream, losses>>
    BY DEF Expire, TakeAnswer, sellerVars
  <1>3. Ends(b, "timed_out") \/ Ends(b, "ok")
    BY DEF Expire, TakeAnswer
  <1> QED BY <1>1, <1>2, <1>3, EndStep DEF Results, Chargeable

\* The connection breaks: Pay returns, or the request goes out again.
LEMMA LoseStep ==
  ASSUME CheckoutInv, NEW b \in Buyers, NEW again \in BOOLEAN, LoseAnswer(b, again),
         UNCHANGED <<now, sellerVars>>
  PROVE  CheckoutInv'
  <1>1. TypeOK /\ pay[b] \in Pay /\ pay \in [Buyers -> Pay] /\ BuyerInv(b)
    BY DEF CheckoutInv, TypeOK, BuyerTypeOK, Pay
  <1>2. UNCHANGED <<now, wallet, table, claimed, job, events, stream>>
    BY DEF LoseAnswer, sellerVars
  <1>3. losses' \in 0..MaxLosses /\ stream' = [stream EXCEPT ![b] = stream[b]]
    BY <1>1, <1>2, Constants DEF LoseAnswer, TypeOK, BuyerTypeOK, SellerTypeOK
  <1>4. CASE ~again
    BY <1>2, <1>3, <1>4, EndStep DEF LoseAnswer, Results, Chargeable
  <1>5. CASE again
    <2> DEFINE p == [pay[b] EXCEPT !.at = "paying", !.resent = TRUE]
    <2>1. p \in Pay
      BY <1>1 DEF Pay, Places
    <2>2. /\ p.at = "paying" /\ p.resent /\ p.offer = pay[b].offer
          /\ p.signedAt = pay[b].signedAt /\ p.before = pay[b].before
      BY <1>1 DEF Pay
    <2>3. Moves(b, p) /\ pay'[b] = p
      BY <1>1, <1>5 DEF LoseAnswer, Moves
    <2> HIDE DEF p
    <2>4. Signed(b)
      BY <1>1 DEF LoseAnswer
    <2>5. Signed(b)' /\ (Open(b)' <=> Open(b))
      BY <1>2, <2>2, <2>3, <2>4 DEF Signed, Life, Open
    <2>6. BuyerInv(b)'
      BY <1>1, <1>2, <2>2, <2>3, <2>5
    <2> HIDE DEF BuyerInv
    <2> QED BY <1>2, <1>3, <2>1, <2>3, <2>6, MoveStep
  <1> QED BY <1>4, <1>5

\* The second request is turned down: of a buyer that sent it once, nothing is held.
LEMMA RefuseStep ==
  ASSUME CheckoutInv, NEW b \in Buyers, NEW r \in Replicas, Refuse(b, r) \/ PutOff(b, r)
  PROVE  CheckoutInv'
  <1>1. TypeOK /\ BuyerInv(b) /\ losses \in 0..MaxLosses /\ pay[b].at = "paying"
    BY DEF CheckoutInv, TypeOK, BuyerTypeOK, Refuse, PutOff
  <1>2. UNCHANGED <<now, wallet, table, claimed, job, events, stream, losses>>
    BY DEF Refuse, PutOff, sellerVars
  <1>3. \E result \in Results : Ends(b, result)
    BY DEF Refuse, PutOff, Results
  <1>4. PICK result \in Results : Ends(b, result)
    BY <1>3
  <1>5. stream' = [stream EXCEPT ![b] = stream[b]]
    BY <1>1, <1>2 DEF TypeOK, SellerTypeOK
  <1>6. pay[b].resent \/ (stream[b] = Closed /\ job[b] = NoOffer)
    BY <1>1 DEF Open
  <1> QED BY <1>1, <1>2, <1>4, <1>5, <1>6, EndStep

\* Its claim is made and unanswered: of a buyer that sent it once, nothing else is held.
LEMMA ReserveLostStep ==
  ASSUME CheckoutInv, NEW b \in Buyers, NEW r \in Replicas, ReserveLost(b, r)
  PROVE  CheckoutInv'
  <1>1. /\ TypeOK /\ BuyerTypeOK /\ BuyerInv(b) /\ losses \in 0..MaxLosses
        /\ pay[b] \in Pay /\ pay \in [Buyers -> Pay] /\ pay[b].at = "paying"
    BY DEF CheckoutInv, TypeOK, BuyerTypeOK, Pay, ReserveLost
  <1>2. PICK result \in {"replay", "unavailable"} : Ends(b, result)
    BY DEF ReserveLost
  <1> DEFINE p == [pay[b] EXCEPT !.at = "ended", !.result = result]
  <1>3. p \in Pay
    BY <1>1, EndType DEF Results
  <1>4. /\ p.at = "ended" /\ p.offer = pay[b].offer /\ p.resent = pay[b].resent
        /\ p.signedAt = pay[b].signedAt /\ p.before = pay[b].before
    BY <1>1 DEF Pay
  <1>5. /\ pay' = [pay EXCEPT ![b] = p] /\ pay'[b] = p /\ claimed' = claimed \cup {b}
        /\ UNCHANGED <<now, wallet, losses, table, stream, job, events>>
    BY <1>1, <1>2 DEF ReserveLost, Ends, Moves
  <1>6. /\ stream' = [stream EXCEPT ![b] = stream[b]] /\ stream[b] \in AStream \cup {Closed}
        /\ job' = [job EXCEPT ![b] = job[b]] /\ job[b] \in Prices \cup {NoOffer}
    BY <1>1, <1>5 DEF TypeOK, SellerTypeOK, AStream
  <1> HIDE DEF p
  <1>7. Signed(b)' /\ (Open(b)' <=> Open(b))
    BY <1>1, <1>4, <1>5 DEF Signed, Life, Open
  <1>8. BuyerInv(b)'
    BY <1>1, <1>4, <1>5, <1>7
  <1> HIDE DEF BuyerInv
  <1> QED BY <1>1, <1>3, <1>5, <1>6, <1>8, OneBuyer

\* It is accepted: Verify has compared the terms.
LEMMA AdmitStep ==
  ASSUME CheckoutInv, NEW b \in Buyers, NEW r \in Replicas, Admit(b, r)
  PROVE  CheckoutInv'
  <1> DEFINE p == [pay[b] EXCEPT !.at = "waiting"]
             st == [on |-> r, entry |-> table[r], since |-> now, answered |-> FALSE]
  <1>1. /\ TypeOK /\ pay[b] \in Pay /\ pay \in [Buyers -> Pay] /\ losses \in 0..MaxLosses
        /\ BuyerInv(b) /\ pay[b].at = "paying" /\ now \in Nat
    BY DEF CheckoutInv, TypeOK, BuyerTypeOK, Pay, Admit
  <1>2. /\ p \in Pay /\ p.at = "waiting" /\ p.offer = pay[b].offer /\ p.resent = pay[b].resent
        /\ p.signedAt = pay[b].signedAt /\ p.before = pay[b].before
    BY <1>1 DEF Pay, Places
  <1>3. st \in AStream /\ st.entry = table[r]
    <2>1. table[r] \in Prices /\ now \in Nat
      BY <1>1 DEF Admit
    <2> QED BY <2>1, Zenon DEF AStream
  <1>4. SameTerms(table[r], pay[b].offer)
    BY DEF Admit, Verdict, Verify, SignedPayment, PaymentOf, SameTerms
  <1>5. /\ pay' = [pay EXCEPT ![b] = p] /\ stream' = [stream EXCEPT ![b] = st]
        /\ pay'[b] = p /\ stream'[b] = st /\ claimed' = claimed \cup {b}
        /\ UNCHANGED <<now, wallet, losses, table, job, events>>
    BY <1>1 DEF Admit, Moves, TypeOK, SellerTypeOK
  <1>6. job' = [job EXCEPT ![b] = job[b]] /\ job[b] \in Prices \cup {NoOffer}
    BY <1>1, <1>5 DEF TypeOK, SellerTypeOK
  <1> HIDE DEF p, st
  <1>7. Signed(b)'
    BY <1>1, <1>2, <1>5 DEF Signed, Life
  <1>8. BuyerInv(b)'
    BY <1>1, <1>2, <1>3, <1>4, <1>5, <1>7 DEF SameTerms
  <1> HIDE DEF BuyerInv
  <1> QED BY <1>1, <1>2, <1>3, <1>5, <1>6, <1>8, OneBuyer

\* The backend answers: what is queued has the terms of the stream, which are the offer's.
LEMMA RespondStep ==
  ASSUME CheckoutInv, NEW b \in Buyers, NEW answer \in Answers, Respond(b, answer)
  PROVE  CheckoutInv'
  <1>1. /\ TypeOK /\ pay[b] \in Pay /\ pay \in [Buyers -> Pay] /\ losses \in 0..MaxLosses
        /\ BuyerInv(b) /\ Open(b)
    BY DEF CheckoutInv, TypeOK, BuyerTypeOK, Pay, Respond
  <1>2. stream[b] \in AStream /\ job[b] \in Prices \cup {NoOffer}
    BY <1>1 DEF Open, TypeOK, SellerTypeOK, AStream
  <1>3. UNCHANGED <<now, wallet, losses, table, claimed, events>>
    BY DEF Respond, Answer
  <1>4. CASE answer = "error"
    <2>1. stream' = [stream EXCEPT ![b] = Closed] /\ job' = job
      BY <1>4 DEF Respond, Answer
    <2>2. CASE pay[b].at = "waiting"
      <3>1. Ends(b, "backend_error")
        BY <1>4, <2>2 DEF Respond, Answer
      <3>2. pay[b].resent \/ job[b] = NoOffer
        BY <1>1, <2>2
      <3> QED BY <1>1, <1>3, <2>1, <3>1, <3>2, EndStep DEF Results
    <2>3. CASE pay[b].at # "waiting"
      <3>1. pay' = [pay EXCEPT ![b] = pay[b]] /\ pay'[b] = pay[b]
        BY <1>1, <1>4, <2>3 DEF Respond, Answer
      <3>2. job' = [job EXCEPT ![b] = job[b]] /\ stream'[b] = Closed
        BY <1>1, <2>1 DEF TypeOK, SellerTypeOK
      <3>3. BuyerInv(b)'
        BY <1>1, <1>3, <3>1, <3>2, CloseKeeps DEF Closes
      <3> HIDE DEF BuyerInv
      <3> QED BY <1>1, <1>2, <1>3, <2>1, <3>1, <3>2, <3>3, OneBuyer
    <2> QED BY <2>2, <2>3
  <1>5. CASE answer # "error"
    <2> DEFINE st == [stream[b] EXCEPT !.answered = TRUE]
               j == IF answer = "captured" THEN stream[b].entry ELSE job[b]
               p == IF pay[b].at = "waiting" THEN [pay[b] EXCEPT !.at = "answering"] ELSE pay[b]
    <2>1. st \in AStream /\ st.entry = stream[b].entry
      BY <1>2 DEF AStream
    <2>2. j \in Prices \cup {NoOffer}
      BY <1>2 DEF AStream
    <2>3. /\ p \in Pay /\ p.offer = pay[b].offer /\ p.resent = pay[b].resent
          /\ p.signedAt = pay[b].signedAt /\ p.before = pay[b].before /\ p.result = pay[b].result
          /\ p.at = IF pay[b].at = "waiting" THEN "answering" ELSE pay[b].at
      BY <1>1 DEF Pay, Places
    <2>4. stream' = [stream EXCEPT ![b] = st] /\ stream'[b] = st
      BY <1>1, <1>5 DEF Respond, Answer, TypeOK, SellerTypeOK
    <2>5. job' = [job EXCEPT ![b] = j] /\ job'[b] = j
      BY <1>1 DEF Respond, TypeOK, SellerTypeOK
    <2>6. pay' = [pay EXCEPT ![b] = p] /\ pay'[b] = p
      BY <1>1, <1>5 DEF Respond, Answer, Moves
    <2>7. j # NoOffer => SameTerms(j, pay[b].offer)
      BY <1>1
    <2> HIDE DEF st, j, p
    <2>8. Signed(b) /\ Signed(b)'
      <3>1. Signed(b)
        BY <1>1 DEF NothingHeld, Pay, Places
      <3> QED BY <1>3, <2>3, <2>6, <3>1 DEF Signed, Life
    <2>9. pay[b].at \notin {"idle", "asking", "quoted"}
      BY <1>1 DEF NothingHeld
    <2>10. SignedInv(b)'
      BY <2>3, <2>6, <2>8, <2>9
    <2>11. TermsInv(b)'
      BY <1>1, <2>1, <2>3, <2>4, <2>5, <2>6, <2>7 DEF SameTerms
    <2>12. OnceInv(b)'
      BY <1>1, <2>3, <2>6, <2>9
    <2> HIDE DEF SignedInv, TermsInv, OnceInv
    <2>13. BuyerInv(b)'
      BY <2>10, <2>11, <2>12
    <2> HIDE DEF BuyerInv
    <2> QED BY <1>1, <1>3, <2>1, <2>2, <2>3, <2>4, <2>5, <2>6, <2>13, OneBuyer
  <1> QED BY <1>4, <1>5

\* Envoy closes the stream of a request that is over.
LEMMA StreamEndsStep ==
  ASSUME CheckoutInv, NEW b \in Buyers, StreamEnds(b)
  PROVE  CheckoutInv'
  <1>1. /\ TypeOK /\ pay[b] \in Pay /\ pay' = [pay EXCEPT ![b] = pay[b]] /\ BuyerInv(b)
        /\ pay'[b] = pay[b] /\ losses' \in 0..MaxLosses
    BY DEF CheckoutInv, TypeOK, BuyerTypeOK, Pay, StreamEnds, buyerVars
  <1>2. /\ stream' = [stream EXCEPT ![b] = Closed] /\ stream'[b] = Closed
        /\ job' = [job EXCEPT ![b] = job[b]] /\ job[b] \in Prices \cup {NoOffer}
        /\ UNCHANGED <<now, wallet, table, claimed, job, events>>
    BY <1>1 DEF StreamEnds, CloseStream, buyerVars, TypeOK, SellerTypeOK
  <1>3. BuyerInv(b)'
    BY <1>1, <1>2, CloseKeeps DEF Closes
  <1> HIDE DEF BuyerInv
  <1> QED BY <1>1, <1>2, <1>3, OneBuyer

\* Envoy's timeout: the stream is closed with whatever its Pay was at.
LEMMA TimeoutStep ==
  ASSUME CheckoutInv, NEW b \in Buyers, RouteTimeout(b)
  PROVE  CheckoutInv'
  <1>1. /\ TypeOK /\ pay[b] \in Pay /\ pay \in [Buyers -> Pay] /\ BuyerInv(b)
        /\ losses' \in 0..MaxLosses
    BY DEF CheckoutInv, TypeOK, BuyerTypeOK, Pay, RouteTimeout
  <1>2. /\ stream' = [stream EXCEPT ![b] = Closed]
        /\ UNCHANGED <<now, wallet, table, claimed, job, events>>
    BY DEF RouteTimeout, CloseStream
  <1>3. CASE pay[b].at = "waiting"
    <2>1. Ends(b, "unavailable")
      BY <1>3 DEF RouteTimeout
    <2>2. pay[b].resent \/ job[b] = NoOffer
      BY <1>1, <1>3
    <2> QED BY <1>1, <1>2, <2>1, <2>2, EndStep DEF Results
  <1>4. CASE pay[b].at = "answering"
    <2>1. Ends(b, "lost")
      BY <1>4 DEF RouteTimeout
    <2> QED BY <1>1, <1>2, <2>1, EndStep DEF Results, Chargeable
  <1>5. CASE pay[b].at \notin {"waiting", "answering"}
    <2>1. pay' = [pay EXCEPT ![b] = pay[b]] /\ pay'[b] = pay[b]
      BY <1>1, <1>5 DEF RouteTimeout
    <2>2. /\ job' = [job EXCEPT ![b] = job[b]] /\ job[b] \in Prices \cup {NoOffer}
          /\ stream'[b] = Closed
      BY <1>1, <1>2 DEF TypeOK, SellerTypeOK
    <2>3. BuyerInv(b)'
      BY <1>1, <1>2, <2>1, <2>2, CloseKeeps DEF Closes
    <2> HIDE DEF BuyerInv
    <2> QED BY <1>1, <1>2, <2>1, <2>2, <2>3, OneBuyer
  <1> QED BY <1>3, <1>4, <1>5

------------------------------------------------------------------------------
(* Steps of replicas and of time *)

\* A replica dies: its streams close, and a Pay that ends with it ends chargeable.
LEMMA KillStep ==
  ASSUME CheckoutInv, NEW r \in Replicas, Kill(r)
  PROVE  CheckoutInv'
  <1> DEFINE on == {b \in Buyers : stream[b].on = r}
             ended(b) == [pay[b] EXCEPT !.at = "ended", !.result = "killed"]
  <1>1. /\ TypeOK /\ pay \in [Buyers -> Pay] /\ \A b \in Buyers : BuyerInv(b)
        /\ UNCHANGED <<now, wallet, losses, claimed, job>>
    BY DEF CheckoutInv, TypeOK, BuyerTypeOK, Pay, Kill
  <1>2. PICK sent \in SUBSET {b \in on : pay[b].at = "answering"} :
             pay' = [b \in Buyers |->
                       IF b \in on \ sent /\ pay[b].at \in {"waiting", "answering"}
                       THEN ended(b) ELSE pay[b]]
    BY DEF Kill
  <1>3. \A b \in Buyers : pay'[b] \in {pay[b], ended(b)} /\ ended(b) \in Pay
    BY <1>1, <1>2, EndType DEF TypeOK, Results
  <1>4. pay' \in [Buyers -> Pay]
    BY <1>1, <1>2, <1>3
  <1>5. /\ stream' = [b \in Buyers |-> IF b \in on THEN Closed ELSE stream[b]]
        /\ table' = [table EXCEPT ![r] = NoTable]
    BY DEF Kill
  <1>6. events' \in 0..MaxEvents
    <2>1. Event /\ events \in 0..MaxEvents
      BY <1>1 DEF Kill, TypeOK, SellerTypeOK
    <2> QED BY <2>1, Constants DEF Event
  <1>7. TypeOK'
    <2>1. BuyerTypeOK'
      BY <1>1, <1>4 DEF TypeOK, BuyerTypeOK, Pay
    <2>2. SellerTypeOK'
      BY <1>1, <1>5, <1>6 DEF TypeOK, SellerTypeOK, Closed
    <2> QED BY <1>1, <2>1, <2>2 DEF TypeOK
  <1>8. ASSUME NEW b \in Buyers PROVE BuyerInv(b)'
    <2>1. Closes(b)
      BY <1>1, <1>5 DEF Closes
    <2>2. CASE pay'[b] = pay[b]
      BY <1>1, <2>1, <2>2, CloseKeeps
    <2>3. CASE pay'[b] = ended(b)
      BY <1>1, <2>1, <2>3, EndKeeps DEF Results, Chargeable
    <2> QED BY <1>3, <2>2, <2>3
  <1> QED BY <1>7, <1>8 DEF CheckoutInv

\* Tables that change, and time, touch no buyer.
LEMMA EnvironmentStep ==
  ASSUME CheckoutInv,
         \/ Tick \/ UNCHANGED vars
         \/ \E r \in Replicas, t \in Prices \cup {Unpriced} : LoadTable(r, t)
  PROVE  CheckoutInv'
  <1>1. TypeOK /\ \A b \in Buyers : BuyerInv(b)
    BY DEF CheckoutInv
  <1>2. UNCHANGED <<buyerVars, stream, claimed, job>>
    BY DEF Tick, LoadTable, vars, sellerVars
  <1>3. now' \in 0..MaxTime /\ now' >= now
    BY <1>1, Constants DEF Tick, LoadTable, vars, TypeOK
  <1>4. table' \in [Replicas -> Prices \cup {Unpriced, NoTable}] /\ events' \in 0..MaxEvents
    <2>1. CASE Tick \/ UNCHANGED vars
      BY <1>1, <2>1 DEF Tick, vars, sellerVars, TypeOK, SellerTypeOK
    <2>2. ASSUME NEW r \in Replicas, NEW t \in Prices \cup {Unpriced}, LoadTable(r, t)
          PROVE  /\ table' \in [Replicas -> Prices \cup {Unpriced, NoTable}]
                 /\ events' \in 0..MaxEvents
      BY <1>1, <2>2, Constants DEF LoadTable, Event, TypeOK, SellerTypeOK
    <2> QED BY <2>1, <2>2
  <1>5. TypeOK'
    BY <1>1, <1>2, <1>3, <1>4 DEF TypeOK, BuyerTypeOK, SellerTypeOK, buyerVars, Closed
  <1>6. ASSUME NEW b \in Buyers PROVE BuyerInv(b)'
    <2>1. Untouched(b)
      BY <1>2, <1>3 DEF Untouched, buyerVars
    <2> QED BY <1>1, <1>3, <2>1, UntouchedKeeps
  <1> QED BY <1>5, <1>6 DEF CheckoutInv

------------------------------------------------------------------------------
(* The theorems *)

\* At the start no buyer has signed anything.
LEMMA InitHolds == Init => CheckoutInv
  <1> SUFFICES ASSUME Init PROVE CheckoutInv
      OBVIOUS
  <1>1. TypeOK
    <2>1. NewPay \in Pay
      <3>1. 0 \in Nat /\ 0 \in Int
        OBVIOUS
      <3> QED BY <3>1, Zenon DEF NewPay, Pay, Places, Results
    <2>2. BuyerTypeOK
      BY <2>1, Constants DEF Init, BuyerInit, BuyerTypeOK, Pay
    <2>3. SellerTypeOK
      BY Constants DEF Init, SellerTypeOK, Closed
    <2> QED BY <2>2, <2>3, Constants DEF Init, TypeOK
  <1>2. \A b \in Buyers : BuyerInv(b)
    BY DEF Init, BuyerInit, NewPay, NothingHeld, Open
  <1> QED BY <1>1, <1>2 DEF CheckoutInv

\* Every step keeps the invariant.
LEMMA NextHolds == CheckoutInv /\ [Next]_vars => CheckoutInv'
  <1> SUFFICES ASSUME CheckoutInv, [Next]_vars PROVE CheckoutInv'
      OBVIOUS
  <1>1. ASSUME NEW b \in Buyers, Buys(b) PROVE CheckoutInv'
    BY <1>1, AskStep, SignStep, ReturnStep, LoseStep DEF Buys, BuyerStep
  <1>2. ASSUME NEW b \in Buyers, StreamEnds(b) \/ RouteTimeout(b) PROVE CheckoutInv'
    BY <1>2, StreamEndsStep, TimeoutStep
  <1>3. ASSUME NEW b \in Buyers, NEW answer \in Answers, Respond(b, answer) PROVE CheckoutInv'
    BY <1>3, RespondStep
  <1>4. ASSUME NEW b \in Buyers, NEW r \in Replicas,
               Quote(b, r) \/ Admit(b, r) \/ Refuse(b, r) \/ PutOff(b, r) \/ ReserveLost(b, r)
        PROVE  CheckoutInv'
    BY <1>4, QuoteStep, AdmitStep, RefuseStep, ReserveLostStep
  <1>5. ASSUME NEW r \in Replicas, Kill(r) PROVE CheckoutInv'
    BY <1>5, KillStep
  <1> QED BY <1>1, <1>2, <1>3, <1>4, <1>5, EnvironmentStep DEF Next

\* The inductive invariant holds in every reachable state.
THEOREM Invariance == Spec => []CheckoutInv
  BY InitHolds, NextHolds, PTL DEF Spec

\* Every variable of buyers and replicas has its type.
THEOREM TypeCorrect == Spec => []TypeOK
  BY Invariance, PTL DEF CheckoutInv

\* A payment is charged on the terms its buyer agreed to, within its limit and on its network,
\* whatever the replicas' tables have become since (Verify, st.entry, Capture).
THEOREM ChargeIsTheQuote == Spec => []ChargedAsQuoted
  <1>1. CheckoutInv => ChargedAsQuoted
    <2> SUFFICES ASSUME CheckoutInv, NEW b \in Buyers, job[b] # NoOffer
                 PROVE  /\ SameTerms(job[b], pay[b].offer)
                        /\ job[b].amount <= wallet[b].limit
                        /\ job[b].network = wallet[b].network
        BY DEF ChargedAsQuoted
    <2>1. BuyerInv(b) /\ pay[b].at \in Places
      BY DEF CheckoutInv, TypeOK, BuyerTypeOK
    <2>2. Signed(b)
      BY <2>1 DEF NothingHeld, Places
    <2> QED BY <2>1, <2>2 DEF Signed, SameTerms
  <1> QED BY <1>1, Invariance, PTL

\* A buyer that sent its signature once and was answered with an error is not charged, unless
\* the replica died under the answer or the buyer did not see it (responseHeaders, release).
THEOREM ErrorsAreFree == Spec => []ErrorMeansUncharged
  <1>1. CheckoutInv => ErrorMeansUncharged
    BY DEF CheckoutInv, ErrorMeansUncharged, Chargeable
  <1> QED BY <1>1, Invariance, PTL

\* Against the very offer that was signed, Verify fails only when the signature's life is over
\* by the replica's clock or the buyer's clock is too far ahead of it.
LEMMA HonestVerdict ==
  ASSUME CheckoutInv, NEW b \in Buyers, NEW r \in Replicas, pay[b].at = "paying",
         table[r] = pay[b].offer, Verdict(b, r) # "ok"
  PROVE  \/ now - pay[b].signedAt >= Life(wallet[b], pay[b].offer) + Ahead(b, r)
         \/ Ahead(b, r) > SkewAllowance
  <1> DEFINE o == pay[b].offer
             life == Life(wallet[b], o)
  <1>1. Signed(b) /\ wallet[b] \in Wallet /\ o \in Offer
    BY Constants DEF CheckoutInv, TypeOK, BuyerTypeOK, Signed
  <1>2. life \in Nat /\ life <= o.timeout /\ o.timeout \in Nat /\ o.amount \in Nat
    BY <1>1, LifeCapped DEF Offer
  <1>3. /\ now \in Nat /\ Skew[r] \in Nat /\ wallet[b].skew \in Int /\ SkewAllowance \in Nat
        /\ pay[b].signedAt \in Nat /\ pay[b].signedAt <= now
    BY <1>1, Constants DEF CheckoutInv, TypeOK, BuyerTypeOK, Wallet, Signed
  <1>4. pay[b].before = pay[b].signedAt + wallet[b].skew + life
    BY <1>1 DEF Signed
  <1>5. \/ pay[b].before <= now + Skew[r]
        \/ pay[b].before > now + Skew[r] + o.timeout + SkewAllowance
    <2>1. o.network = wallet[b].network
      BY <1>1 DEF Signed
    <2>2. ~(0 > now + Skew[r]) /\ ~(o.amount < o.amount)
      BY <1>2, <1>3
    <2> QED BY <2>1, <2>2 DEF Verdict, Verify, SignedPayment, PaymentOf
  <1> HIDE DEF life
  <1>6. CASE pay[b].before <= now + Skew[r]
    <2>1. now - pay[b].signedAt >= life + (wallet[b].skew - Skew[r])
      BY <1>2, <1>3, <1>4, <1>6
    <2> QED BY <2>1 DEF Ahead, life
  <1>7. CASE pay[b].before > now + Skew[r] + o.timeout + SkewAllowance
    <2>1. wallet[b].skew - Skew[r] > SkewAllowance
      BY <1>2, <1>3, <1>4, <1>7
    <2> QED BY <2>1 DEF Ahead
  <1> QED BY <1>5, <1>6, <1>7

\* What a Pay has ended with is "replay" after a step only if it was so before, or the step is
\* the replica's answer to it.
LEMMA ReplayStep ==
  ASSUME TypeOK, [Next]_vars, NEW b \in Buyers,
         pay[b].result # "replay", pay'[b].result = "replay"
  PROVE  \E r \in Replicas : Refuse(b, r) \/ ReserveLost(b, r)
  <1>1. pay \in [Buyers -> Pay]
    BY DEF TypeOK, BuyerTypeOK, Pay
  <1>2. \A c \in Buyers : \A p : Moves(c, p) => c = b /\ p.result = "replay"
    BY <1>1 DEF Moves
  <1>3. \A c \in Buyers : \A result : Ends(c, result) => c = b /\ result = "replay"
    BY <1>1 DEF Ends, Moves, Pay
  <1>4. ASSUME NEW c \in Buyers, NEW p, Moves(c, p), p.result = pay[c].result PROVE FALSE
    BY <1>2, <1>4
  <1>5. pay' # pay
    OBVIOUS
  <1>6. ASSUME NEW c \in Buyers, Buys(c) PROVE FALSE
    <2>1. CASE Ask(c)
      <3> DEFINE p == [pay[c] EXCEPT !.at = "asking", !.start = now]
      <3>1. Moves(c, p) /\ p.result = pay[c].result
        BY <1>1, <2>1 DEF Ask, Pay
      <3> HIDE DEF p
      <3> QED BY <1>4, <3>1
    <2>2. CASE SignOffer(c)
      <3> DEFINE o == Choose(wallet[c], Accepts(pay[c].offer))
                 p == [pay[c] EXCEPT !.at = "paying", !.offer = o.offer, !.signedAt = now,
                         !.before = Clock(c) + Life(wallet[c], o.offer)]
      <3>1. Ends(c, o.why) \/ Moves(c, p)
        BY <2>2 DEF SignOffer
      <3>2. o.why # "replay"
        BY DEF Choose
      <3>3. p.result = pay[c].result
        BY <1>1 DEF Pay
      <3> HIDE DEF o, p
      <3> QED BY <1>3, <1>4, <3>1, <3>2, <3>3
    <2>3. CASE Expire(c) \/ TakeAnswer(c)
      BY <1>3, <2>3 DEF Expire, TakeAnswer
    <2>4. ASSUME NEW again \in BOOLEAN, LoseAnswer(c, again) PROVE FALSE
      <3> DEFINE p == [pay[c] EXCEPT !.at = "paying", !.resent = TRUE]
      <3>1. Ends(c, "lost") \/ Moves(c, p)
        BY <2>4 DEF LoseAnswer
      <3>2. p.result = pay[c].result
        BY <1>1 DEF Pay
      <3> HIDE DEF p
      <3> QED BY <1>3, <1>4, <3>1, <3>2
    <2> QED BY <1>6, <2>1, <2>2, <2>3, <2>4 DEF Buys, BuyerStep
  <1>7. ASSUME NEW c \in Buyers, StreamEnds(c) \/ RouteTimeout(c) PROVE FALSE
    BY <1>3, <1>5, <1>7 DEF StreamEnds, RouteTimeout, buyerVars
  <1>8. ASSUME NEW c \in Buyers, NEW answer \in Answers, Respond(c, answer) PROVE FALSE
    <2> DEFINE p == [pay[c] EXCEPT !.at = "answering"]
    <2>1. Ends(c, "backend_error") \/ Moves(c, p)
      BY <1>5, <1>8 DEF Respond, Answer
    <2>2. p.result = pay[c].result
      BY <1>1 DEF Pay
    <2> HIDE DEF p
    <2> QED BY <1>3, <1>4, <2>1, <2>2
  <1>9. ASSUME NEW c \in Buyers, NEW r \in Replicas, Quote(c, r) \/ Admit(c, r) \/ PutOff(c, r)
        PROVE  FALSE
    <2> DEFINE quoted == [pay[c] EXCEPT !.at = "quoted", !.offer = table[r]]
               waiting == [pay[c] EXCEPT !.at = "waiting"]
    <2>1. \/ Moves(c, quoted) \/ Moves(c, waiting)
          \/ \E result \in {"unavailable", "free", "insufficient"} : Ends(c, result)
      BY <1>9 DEF Quote, Admit, PutOff
    <2>2. quoted.result = pay[c].result /\ waiting.result = pay[c].result
      BY <1>1 DEF Pay
    <2> HIDE DEF quoted, waiting
    <2> QED BY <1>3, <1>4, <2>1, <2>2
  <1>10. ASSUME NEW c \in Buyers, NEW r \in Replicas, Refuse(c, r) \/ ReserveLost(c, r)
         PROVE  c = b
    BY <1>3, <1>10 DEF Refuse, ReserveLost
  <1>11. ASSUME NEW r \in Replicas, Kill(r) PROVE FALSE
    <2>1. pay'[b] \in {pay[b], [pay[b] EXCEPT !.at = "ended", !.result = "killed"]}
      BY <1>11 DEF Kill
    <2> QED BY <1>1, <2>1 DEF Pay
  <1>12. ~Tick /\ ~UNCHANGED vars
         /\ \A r \in Replicas, t \in Prices \cup {Unpriced} : ~LoadTable(r, t)
    BY <1>5 DEF Tick, LoadTable, vars, buyerVars
  <1> QED BY <1>6, <1>7, <1>8, <1>9, <1>10, <1>11, <1>12 DEF Next

\* An honest payment is refused for one of the five reasons only (Sign against Verify, the
\* claim of a signature against the retry of the script that makes it).
THEOREM HonestBuyersAreServed == Spec => HonestPaymentHonoured
  <1>1. ASSUME CheckoutInv, NEW b \in Buyers, NEW r \in Replicas, Refuse(b, r)
        PROVE  RefusalHasReason(b, r)
    <2>1. pay[b] \in Pay /\ pay \in [Buyers -> Pay]
      BY <1>1 DEF CheckoutInv, TypeOK, BuyerTypeOK, Pay
    <2>2. \A result : Ends(b, result) => pay'[b].result = result
      BY <2>1 DEF Ends, Moves, Pay
    <2>3. pay'[b].result = "refused" => Verdict(b, r) # "ok"
      BY <1>1, <2>2 DEF Refuse
    <2>4. pay[b].at = "paying"
      BY <1>1 DEF Refuse
    <2> QED BY <1>1, <2>3, <2>4, HonestVerdict DEF RefusalHasReason
  <1>2. ASSUME CheckoutInv, [Next]_vars, NEW b \in Buyers PROVE ReplayHasReason(b)
    <2> SUFFICES ASSUME pay[b].result # "replay", pay'[b].result = "replay"
                 PROVE  pay[b].resent \/ OwnClaim(b)
        BY DEF ReplayHasReason
    <2>1. TypeOK /\ BuyerInv(b) /\ pay[b] \in Pay /\ pay \in [Buyers -> Pay]
      BY <1>2 DEF CheckoutInv, TypeOK, BuyerTypeOK, Pay
    <2>2. PICK r \in Replicas : Refuse(b, r) \/ ReserveLost(b, r)
      BY <1>2, <2>1, ReplayStep
    <2>3. CASE Refuse(b, r)
      <3>1. \A result : Ends(b, result) => pay'[b].result = result
        BY <2>1 DEF Ends, Moves, Pay
      <3>2. b \in claimed /\ pay[b].at = "paying"
        BY <2>3, <3>1 DEF Refuse
      <3> QED BY <2>1, <3>2
    <2>4. CASE ReserveLost(b, r)
      BY <2>4 DEF ReserveLost, OwnClaim
    <2> QED BY <2>2, <2>3, <2>4
  <1>3. CheckoutInv /\ [Next]_vars =>
          \A b \in Buyers : ReplayHasReason(b) /\ \A r \in Replicas : RefusalHasReason(b, r)
    BY <1>1, <1>2 DEF RefusalHasReason
  <1> QED BY <1>3, Invariance, PTL DEF HonestPaymentHonoured, Spec

==============================================================================
