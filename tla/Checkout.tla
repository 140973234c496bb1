------------------------------ MODULE Checkout -------------------------------
(***************************************************************************)
(* Buyers at replicas of the filter.  Envoy sends each request to any of   *)
(* them, so that the two requests of a Pay may meet different replicas     *)
(* with different tables and clocks, while tables change and replicas die. *)
(*                                                                         *)
(* What a replica does with one request is one step here up to the backend *)
(* and one after it: which answer it gives, and whether the signature is   *)
(* claimed by then.  Filter has the calls in between and their failures,   *)
(* Process how a replica starts, drains and gets its table.                *)
(***************************************************************************)
EXTENDS Buyer

CONSTANTS
    Replicas,
    Skew,        \* a replica's clock minus true time, which is that of the slowest of them
    MaxServe,    \* Envoy's route timeout, in ticks
    Prices,      \* what a table may ask for the route
    MaxEvents,   \* bound: tables loaded and replicas killed
    NoTable, Unpriced, Nowhere

ASSUME CheckoutAssumption ==
    /\ Skew \in [Replicas -> Nat]
    /\ Prices \subseteq Offer
    /\ {MaxServe, MaxEvents} \subseteq Nat
    /\ Nowhere \notin Replicas
    /\ {NoTable, Unpriced} \cap Offer = {}

VARIABLES
    table,     \* by replica: its price for the route; NoTable also while it has no process
    stream,    \* by buyer: the stream of its accepted request
    claimed,   \* buyers whose signature is claimed in the ledger
    job,       \* by buyer: the terms of the settlement job queued for its signature
    events

sellerVars == <<table, stream, claimed, job, events>>
vars == <<now, buyerVars, sellerVars>>

\* on is the replica, entry the price the request was accepted by (st.entry), answered
\* whether the response phase is over.
Closed == [on |-> Nowhere, entry |-> NoOffer, since |-> 0, answered |-> FALSE]

Open(b) == stream[b] # Closed

SellerTypeOK ==
    /\ table \in [Replicas -> Prices \cup {Unpriced, NoTable}]
    /\ stream \in [Buyers -> [on : Replicas, entry : Prices, since : Nat, answered : BOOLEAN]
                              \cup {Closed}]
    /\ claimed \subseteq Buyers
    /\ job \in [Buyers -> Prices \cup {NoOffer}]
    /\ events \in 0..MaxEvents

Init ==
    /\ now = 0
    /\ BuyerInit
    /\ \E p \in Prices : table = [r \in Replicas |-> p]
    /\ stream = [b \in Buyers |-> Closed]
    /\ claimed = {} /\ job = [b \in Buyers |-> NoOffer]
    /\ events = 0

------------------------------------------------------------------------------
(* The request phase *)

\* The first request: the 402 with the table's one offer (paywall.Render), a route without
\* a price goes to the backend, and without a table the answer is a 503.
Quote(b, r) ==
    /\ pay[b].at = "asking"
    /\ IF table[r] = NoTable THEN Ends(b, "unavailable")
       ELSE IF table[r] = Unpriced THEN Ends(b, "free")
       ELSE Moves(b, [pay[b] EXCEPT !.at = "quoted", !.offer = table[r]])
    /\ UNCHANGED <<now, wallet, losses, sellerVars>>

Verdict(b, r) == Verify(now + Skew[r], table[r], SignedPayment(b))

\* The second request is good by this replica's table and clock, and the signature is new:
\* the reserve script claims it, its reply arrives and the request goes on to the backend.
Admit(b, r) ==
    /\ pay[b].at = "paying"
    /\ table[r] \in Prices
    /\ Verdict(b, r) = "ok"
    /\ b \notin claimed
    /\ Moves(b, [pay[b] EXCEPT !.at = "waiting"])
    /\ stream' = [stream EXCEPT ![b] =
                    [on |-> r, entry |-> table[r], since |-> now, answered |-> FALSE]]
    /\ claimed' = claimed \cup {b}
    /\ UNCHANGED <<now, wallet, losses, table, job, events>>

\* It is not: a 402 with the reason, or the answer the first request would have got.  The
\* claim of a replay is there from an earlier request; the other case is in ReserveLost.
Refuse(b, r) ==
    /\ pay[b].at = "paying"
    /\ \/ table[r] = NoTable /\ Ends(b, "unavailable")
       \/ table[r] = Unpriced /\ Ends(b, "free")
       \/ table[r] \in Prices /\ Verdict(b, r) # "ok" /\ Ends(b, "refused")
       \/ table[r] \in Prices /\ Verdict(b, r) = "ok" /\ b \in claimed /\ Ends(b, "replay")
    /\ UNCHANGED <<now, wallet, losses, sellerVars>>

\* The filter has no time, no balance or no Redis for it before the script has run: a 503; or
\* the script finds that the balance does not cover the price: a 402.
PutOff(b, r) ==
    /\ pay[b].at = "paying"
    /\ table[r] \in Prices
    /\ Verdict(b, r) = "ok"
    /\ \/ Ends(b, "unavailable")
       \/ b \notin claimed /\ Ends(b, "insufficient")
    /\ UNCHANGED <<now, wallet, losses, sellerVars>>

\* The script claims the signature and its reply is lost.  The client runs it once more and it
\* meets its own claim: a 402, as for a replay; or there is no try or no time left: a 503.
\* Either way the claim stays and nothing goes on to the backend.
ReserveLost(b, r) ==
    /\ pay[b].at = "paying"
    /\ table[r] \in Prices
    /\ Verdict(b, r) = "ok"
    /\ b \notin claimed
    /\ Ends(b, "replay") \/ Ends(b, "unavailable")
    /\ claimed' = claimed \cup {b}
    /\ UNCHANGED <<now, wallet, losses, table, stream, job, events>>

------------------------------------------------------------------------------
(* The response phase and the end of the stream *)

Answers == {"captured", "uncaptured", "error"}

\* The client that still waits gets its 2xx or the backend's error; the stream ends with
\* an error.
Answer(b, answer) ==
    /\ stream' = [stream EXCEPT ![b] =
                    IF answer = "error" THEN Closed ELSE [@ EXCEPT !.answered = TRUE]]
    /\ IF pay[b].at # "waiting" THEN UNCHANGED pay
       ELSE IF answer = "error" THEN Ends(b, "backend_error")
       ELSE Moves(b, [pay[b] EXCEPT !.at = "answering"])
    /\ UNCHANGED <<now, wallet, losses, table, claimed, events>>

\* Mutant: the job is made from the table in force when the answer comes.
RespondNewPrice(b, answer) ==
    /\ Open(b) /\ ~stream[b].answered
    /\ job' = IF answer = "captured" THEN [job EXCEPT ![b] = table[stream[b].on]] ELSE job
    /\ Answer(b, answer)

\* Mutant: whatever the backend answered is captured.
RespondAny(b, answer) ==
    /\ Open(b) /\ ~stream[b].answered
    /\ job' = [job EXCEPT ![b] = stream[b].entry]
    /\ Answer(b, answer)

\* The backend answered: a 2xx is captured at the price the request was accepted for, or
\* served unpaid when the capture fails; anything else releases.
Respond(b, answer) ==
    /\ Open(b) /\ ~stream[b].answered
    /\ job' = IF answer = "captured" THEN [job EXCEPT ![b] = stream[b].entry] ELSE job
    /\ Answer(b, answer)

CloseStream(b) == stream' = [stream EXCEPT ![b] = Closed]

\* Envoy closes the stream of a request that is over or whose client is gone.
StreamEnds(b) ==
    /\ Open(b)
    /\ pay[b].at \notin {"waiting", "answering"}
    /\ CloseStream(b)
    /\ UNCHANGED <<now, buyerVars, table, claimed, job, events>>

\* Envoy's route timeout: a 504, or a response that breaks off.
RouteTimeout(b) ==
    /\ Open(b)
    /\ now >= stream[b].since + MaxServe
    /\ CloseStream(b)
    /\ CASE pay[b].at = "waiting" -> Ends(b, "unavailable")
         [] pay[b].at = "answering" -> Ends(b, "lost")
         [] OTHER -> UNCHANGED pay
    /\ UNCHANGED <<now, wallet, losses, table, claimed, job, events>>

------------------------------------------------------------------------------
(* The replicas *)

Event == events < MaxEvents /\ events' = events + 1

\* The watch delivers another table, or a new process its first.
LoadTable(r, t) ==
    /\ Event
    /\ table[r] # t
    /\ table' = [table EXCEPT ![r] = t]
    /\ UNCHANGED <<now, buyerVars, stream, claimed, job>>

\* A replica dies with its streams.  A request in the hands of the backend fails; one whose
\* answer was captured fails too, unless the answer had been sent on.
Kill(r) ==
    LET on == {b \in Buyers : stream[b].on = r} IN
    /\ Event
    /\ table[r] # NoTable
    /\ table' = [table EXCEPT ![r] = NoTable]
    /\ stream' = [b \in Buyers |-> IF b \in on THEN Closed ELSE stream[b]]
    /\ \E sent \in SUBSET {b \in on : pay[b].at = "answering"} :
         pay' = [b \in Buyers |->
                   IF b \in on \ sent /\ pay[b].at \in {"waiting", "answering"}
                   THEN [pay[b] EXCEPT !.at = "ended", !.result = "killed"] ELSE pay[b]]
    /\ UNCHANGED <<now, wallet, losses, claimed, job>>

------------------------------------------------------------------------------

Buys(b) == BuyerStep(b) /\ UNCHANGED <<now, sellerVars>>

\* Time passes; Envoy lets no stream grow older than its route timeout.
Tick ==
    /\ now < MaxTime
    /\ \A b \in Buyers : Open(b) => now < stream[b].since + MaxServe
    /\ now' = now + 1
    /\ UNCHANGED <<buyerVars, sellerVars>>

Next ==
    \/ \E b \in Buyers :
         \/ Buys(b) \/ StreamEnds(b) \/ RouteTimeout(b)
         \/ \E answer \in Answers : Respond(b, answer)
         \/ \E r \in Replicas :
              Quote(b, r) \/ Admit(b, r) \/ Refuse(b, r) \/ PutOff(b, r) \/ ReserveLost(b, r)
    \/ \E r \in Replicas : Kill(r) \/ \E t \in Prices \cup {Unpriced} : LoadTable(r, t)
    \/ Tick

Spec == Init /\ [][Next]_vars

\* Once it has begun, the buyer's code gets on; time passes, and Envoy's timeout fires.  The
\* filter and the backend owe the buyer nothing.
Fairness ==
    /\ \A b \in Buyers :
         WF_vars(Buys(b) /\ pay[b].at # "idle") /\ WF_vars(RouteTimeout(b))
    /\ WF_vars(Tick)

FairSpec == Spec /\ Fairness

==============================================================================
