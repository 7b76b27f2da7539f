--------------------------- MODULE OffchainRefund ---------------------------
(***************************************************************************)
(* The server's refunds of one booking (packages/backend, refundService)   *)
(* and the job that ends their delay (delayedRefundProcessor), which       *)
(* nothing in the server starts: here it may run.  A call reads a refund   *)
(* row, awaits, and writes the row as it read it; other calls run at each  *)
(* await, and any await may fail.  Of the amounts is kept whether the      *)
(* requested one is above the threshold of the delay and whether the       *)
(* approved one is above zero.  A stale save may also clear a              *)
(* sorobanTxHash, which only keeps checkOnchainStatus from acting, and is  *)
(* left out.                                                               *)
(***************************************************************************)
EXTENDS Naturals, FiniteSets, NoValue

CONSTANTS
    Refunds,      \* rows, as many as are made at most
    RefundCallers, Job, \* calls of the routes under way; the job's own
    Delay,        \* DELAYED_HOURS
    MaxDate,      \* bound: the date
    MaxCalls,     \* bound: calls of the routes
    MaxFailures   \* bound: calls that fail

VARIABLES
    date,      \* the current date
    onchain,   \* whether the booking has a sorobanBookingId
    bycard,    \* whether it has a stripePaymentIntentId
    refund,    \* status of the rows
    until,     \* delayedUntil of the rows, None if not isDelayed
    payable,   \* rows that were last approved for more than nothing
    call,      \* calls under way: the row, the step that comes next, and while
               \* that is "mark" or "pay", whether the row as read was payable
    ready,     \* rows the job's cycle has yet to process
    cycling,   \* isProcessing
    hashed,    \* rows with a sorobanTxHash
    paid,      \* refunds made by Stripe, by row
    decided,   \* (history) rows an admin has acted on
    cancelled, \* (history) rows whose requester was told of a cancellation
    waived,    \* (history) rows a call found nothing to refund by card for
    cut,       \* (history) rows that lost a call since they were last approved
    calls, failures   \* counted for MaxCalls and MaxFailures

bookingVars == <<onchain, bycard>>
jobVars == <<ready, cycling>>
refundRowVars == <<date, bookingVars, refund, until, payable, call, jobVars, hashed, paid,
                   decided, cancelled, waived, cut, calls, failures>>

Status == {"eligibility_check", "delayed_pending", "delayed_cancelled", "manual_review",
           "approved", "processing", "stripe_refunded", "onchain_pending",
           "onchain_submitted", "completed", "rejected", "failed"}
Steps == {"create", "judge", "override", "approve", "process", "mark", "pay", "finish",
          "notify", "cancel", "submit"}
Workers == RefundCallers \cup {Job}
Call == [row : Refunds \cup {None}, step : Steps, payable : BOOLEAN]

\* What the parameters must satisfy.
RefundsAssumption ==
    /\ Delay \in Nat /\ MaxDate \in Nat /\ MaxCalls \in Nat /\ MaxFailures \in Nat
    /\ Job \notin RefundCallers /\ None \notin Refunds \cup Status \cup Nat \cup Call

RefundsTypeOK ==
    /\ date \in Nat /\ onchain \in BOOLEAN /\ bycard \in BOOLEAN
    /\ refund \in [Refunds -> Status \cup {None}]
    /\ until \in [Refunds -> Nat \cup {None}]
    /\ call \in [Workers -> Call \cup {None}]
    /\ ready \subseteq Refunds /\ cycling \in BOOLEAN
    /\ paid \in [Refunds -> Nat]
    /\ payable \subseteq Refunds /\ hashed \subseteq Refunds
    /\ decided \subseteq Refunds /\ cancelled \subseteq Refunds
    /\ waived \subseteq Refunds /\ cut \subseteq Refunds
    /\ calls \in 0..MaxCalls /\ failures \in 0..MaxFailures

RefundsInit ==
    /\ date = 0 /\ onchain \in BOOLEAN /\ bycard \in BOOLEAN
    /\ refund = [r \in Refunds |-> None] /\ until = [r \in Refunds |-> None]
    /\ call = [w \in Workers |-> None]
    /\ ready = {} /\ cycling = FALSE
    /\ paid = [r \in Refunds |-> 0]
    /\ payable = {} /\ hashed = {} /\ decided = {} /\ cancelled = {} /\ waived = {} /\ cut = {}
    /\ calls = 0 /\ failures = 0

Go(w, r, step) == call' = [call EXCEPT ![w] = [row |-> r, step |-> step, payable |-> FALSE]]
Done(w) == call' = [call EXCEPT ![w] = None]
AtStep(w, step) == call[w] # None /\ call[w].step = step
SaveRow(r, status) == refund' = [refund EXCEPT ![r] = status]
Row(w) == call[w].row
Rows == {r \in Refunds : refund[r] # None}

\* An approval is saved, of an amount that may be nothing: the percentage may
\* be 0, and the fee as large as the amount.
SaveApproval(r) ==
    /\ SaveRow(r, "approved")
    /\ payable' \in {payable \cup {r}, payable \ {r}}
    /\ cut' = cut \ {r}

\* A call of a route begins.
Begin(w) == w # Job /\ call[w] = None /\ calls < MaxCalls /\ calls' = calls + 1

\* requestDelayedRefund: the booking must have no refund ...
RequestDelayedRefund(w) ==
    /\ Begin(w) /\ Rows = {}
    /\ Go(w, None, "create")
    /\ UNCHANGED <<date, bookingVars, refund, until, payable, jobVars, hashed, paid,
                   decided, cancelled, waived, cut, failures>>

\* ... a row is made, which waits when its amount is large ...
CreateRefund(w) ==
    /\ AtStep(w, "create")
    /\ \E r \in Refunds \ Rows :
        \/ /\ SaveRow(r, "delayed_pending") /\ until' = [until EXCEPT ![r] = date + Delay]
           /\ Done(w)
        \/ SaveRow(r, "eligibility_check") /\ UNCHANGED until /\ Go(w, r, "judge")
    /\ UNCHANGED <<date, bookingVars, payable, jobVars, hashed, paid,
                   decided, cancelled, waived, cut, calls, failures>>

\* ... and its eligibility, of any outcome, decides.
Judge(w) ==
    /\ AtStep(w, "judge")
    /\ \/ UNCHANGED refund /\ Go(w, Row(w), "approve")
       \/ SaveRow(Row(w), "manual_review") /\ Done(w)
       \/ SaveRow(Row(w), "rejected") /\ Done(w)
    /\ UNCHANGED <<date, bookingVars, until, payable, jobVars, hashed, paid,
                   decided, cancelled, waived, cut, calls, failures>>

\* approveRefund looks at no status.
ApproveRefund(w) ==
    /\ AtStep(w, "approve")
    /\ SaveApproval(Row(w)) /\ Go(w, Row(w), "process")
    /\ UNCHANGED <<date, bookingVars, until, jobVars, hashed, paid,
                   decided, cancelled, waived, calls, failures>>

\* processRefund reads the row ...
ProcessRefund(w) ==
    /\ AtStep(w, "process")
    /\ IF refund[Row(w)] = "approved"
       THEN call' = [call EXCEPT ![w] = [row |-> Row(w), step |-> "mark",
                                         payable |-> Row(w) \in payable]]
       ELSE Done(w)
    /\ UNCHANGED <<date, bookingVars, refund, until, payable, jobVars, hashed, paid,
                   decided, cancelled, waived, cut, calls, failures>>

\* ... marks it, whatever it has become ...
MarkProcessing(w) ==
    /\ AtStep(w, "mark")
    /\ SaveRow(Row(w), "processing") /\ call' = [call EXCEPT ![w].step = "pay"]
    /\ UNCHANGED <<date, bookingVars, until, payable, jobVars, hashed, paid,
                   decided, cancelled, waived, cut, calls, failures>>

ToPayByCard(w) == bycard /\ call[w].payable

\* Mutant: the refund goes on when Stripe's answer is an error.
PayRegardless(w) ==
    /\ AtStep(w, "pay") /\ ToPayByCard(w)
    /\ \/ paid' = [paid EXCEPT ![Row(w)] = @ + 1]
       \/ UNCHANGED paid
    /\ SaveRow(Row(w), "stripe_refunded") /\ Go(w, Row(w), "finish")
    /\ UNCHANGED <<date, bookingVars, until, payable, jobVars, hashed,
                   decided, cancelled, waived, cut, calls, failures>>

\* ... has Stripe pay it back, which may go unrecorded ...
RefundByStripe(w) ==
    /\ AtStep(w, "pay") /\ ToPayByCard(w)
    /\ \/ /\ paid' = [paid EXCEPT ![Row(w)] = @ + 1]
          /\ \/ SaveRow(Row(w), "stripe_refunded") /\ Go(w, Row(w), "finish")
             \/ SaveRow(Row(w), "failed") /\ Done(w)
       \/ SaveRow(Row(w), "failed") /\ Done(w) /\ UNCHANGED paid
    /\ UNCHANGED <<date, bookingVars, until, payable, jobVars, hashed,
                   decided, cancelled, waived, cut, calls, failures>>

\* ... unless no card was charged or nothing was approved ...
NothingByCard(w) ==
    /\ AtStep(w, "pay") /\ ~ToPayByCard(w)
    /\ waived' = waived \cup {Row(w)}
    /\ Go(w, Row(w), "finish")
    /\ UNCHANGED <<date, bookingVars, refund, until, payable, jobVars, hashed, paid,
                   decided, cancelled, cut, calls, failures>>

\* Mutant: a refund without a transaction on the chain is not completed.
FinishOnchainOnly(w) ==
    /\ AtStep(w, "finish")
    /\ IF onchain THEN SaveRow(Row(w), "onchain_pending") ELSE UNCHANGED refund
    /\ Go(w, Row(w), "notify")
    /\ UNCHANGED <<date, bookingVars, until, payable, jobVars, hashed, paid,
                   decided, cancelled, waived, cut, calls, failures>>

\* ... and completes it or leaves it to the chain, if the transaction is built ...
FinishRefund(w) ==
    /\ AtStep(w, "finish")
    /\ \/ /\ SaveRow(Row(w), IF onchain THEN "onchain_pending" ELSE "completed")
          /\ Go(w, Row(w), "notify")
       \/ SaveRow(Row(w), "failed") /\ Done(w)
    /\ UNCHANGED <<date, bookingVars, until, payable, jobVars, hashed, paid,
                   decided, cancelled, waived, cut, calls, failures>>

\* ... and tells the passenger; if that fails, so has the refund.
RefundAnnounced(w) ==
    /\ AtStep(w, "notify")
    /\ UNCHANGED refund \/ SaveRow(Row(w), "failed")
    /\ Done(w)
    /\ UNCHANGED <<date, bookingVars, until, payable, jobVars, hashed, paid,
                   decided, cancelled, waived, cut, calls, failures>>

SubmitOnchainRefund(w, r) ==
    /\ Begin(w) /\ refund[r] = "onchain_pending"
    /\ Go(w, r, "submit")
    /\ UNCHANGED <<date, bookingVars, refund, until, payable, jobVars, hashed, paid,
                   decided, cancelled, waived, cut, failures>>

\* The transaction's hash is saved with the row, unless the chain refused it.
SubmissionSaved(w) ==
    /\ AtStep(w, "submit")
    /\ \/ SaveRow(Row(w), "onchain_submitted") /\ hashed' = hashed \cup {Row(w)}
       \/ UNCHANGED <<refund, hashed>>
    /\ Done(w)
    /\ UNCHANGED <<date, bookingVars, until, payable, jobVars, paid,
                   decided, cancelled, waived, cut, calls, failures>>

\* The transaction is looked up whatever the row's status has become.
CheckOnchainStatus(r) ==
    /\ r \in hashed
    /\ SaveRow(r, "completed") \/ SaveRow(r, "failed")
    /\ UNCHANGED <<date, bookingVars, until, payable, call, jobVars, hashed, paid,
                   decided, cancelled, waived, cut, calls, failures>>

\* manualReview, of a refund of any status.
ManualReview(w, r) ==
    /\ Begin(w) /\ r \in Rows
    /\ decided' = decided \cup {r}
    /\ \/ Go(w, r, "approve") /\ UNCHANGED refund
       \/ SaveRow(r, "rejected") /\ UNCHANGED call
    /\ UNCHANGED <<date, bookingVars, until, payable, jobVars, hashed, paid,
                   cancelled, waived, cut, failures>>

\* handleDisputeResolution does the same: approved or partial, or rejected.
HandleDisputeResolution(w, r) == ManualReview(w, r)

\* processAutomatedRefund, one of an admin's batch: the booking's refund, if it
\* has one, is decided again.
ProcessAutomatedRefund(w) ==
    /\ Begin(w)
    /\ \E r \in Refunds :
        /\ r \in Rows \/ Rows = {}
        /\ decided' = decided \cup {r}
        /\ \/ SaveApproval(r) /\ Go(w, r, "process")
           \/ SaveRow(r, "rejected") /\ UNCHANGED <<call, payable, cut>>
    /\ UNCHANGED <<date, bookingVars, until, jobVars, hashed, paid,
                   cancelled, waived, failures>>

Waits(r) == refund[r] = "delayed_pending"
Expired(r) == until[r] # None /\ date >= until[r]

CancelDelayedRefund(w, r) ==
    /\ Begin(w) /\ Waits(r) /\ ~Expired(r)
    /\ Go(w, r, "cancel")
    /\ UNCHANGED <<date, bookingVars, refund, until, payable, jobVars, hashed, paid,
                   decided, cancelled, waived, cut, failures>>

\* The row is saved and the requester told.
CancellationSaved(w) ==
    /\ AtStep(w, "cancel")
    /\ SaveRow(Row(w), "delayed_cancelled") /\ Done(w)
    /\ cancelled' = cancelled \cup {Row(w)}
    /\ UNCHANGED <<date, bookingVars, until, payable, jobVars, hashed, paid,
                   decided, waived, cut, calls, failures>>

\* Mutant: the delay is not looked at.
ProcessDelayedEarly(w, r) ==
    /\ Begin(w) /\ Waits(r)
    /\ Go(w, r, "judge")
    /\ UNCHANGED <<date, bookingVars, refund, until, payable, jobVars, hashed, paid,
                   decided, cancelled, waived, cut, failures>>

\* processDelayedRefund, by its route.
ProcessDelayedRefund(w, r) ==
    /\ Begin(w) /\ Waits(r) /\ Expired(r)
    /\ Go(w, r, "judge")
    /\ UNCHANGED <<date, bookingVars, refund, until, payable, jobVars, hashed, paid,
                   decided, cancelled, waived, cut, failures>>

EmergencyOverrideDelayedRefund(w, r) ==
    /\ Begin(w) /\ Waits(r)
    /\ decided' = decided \cup {r}
    /\ Go(w, r, "override")
    /\ UNCHANGED <<date, bookingVars, refund, until, payable, jobVars, hashed, paid,
                   cancelled, waived, cut, failures>>

\* The override is saved with the status that was read, over a cancellation.
OverrideSaved(w) ==
    /\ AtStep(w, "override")
    /\ SaveRow(Row(w), "delayed_pending") /\ Go(w, Row(w), "judge")
    /\ UNCHANGED <<date, bookingVars, until, payable, jobVars, hashed, paid,
                   decided, cancelled, waived, cut, calls, failures>>

\* processExpiredDelayedRefunds, unless a cycle is under way.
CycleStarts ==
    /\ ~cycling /\ \E r \in Refunds : Waits(r) /\ Expired(r)
    /\ cycling' = TRUE
    /\ ready' = {r \in Refunds : Waits(r) /\ Expired(r)}
    /\ UNCHANGED <<date, bookingVars, refund, until, payable, call, hashed, paid,
                   decided, cancelled, waived, cut, calls, failures>>

\* processDelayedRefund, by the job, one row after the other.
CycleProcesses(r) ==
    /\ r \in ready /\ call[Job] = None
    /\ ready' = ready \ {r}
    /\ IF Waits(r) /\ Expired(r) THEN Go(Job, r, "judge") ELSE UNCHANGED call
    /\ UNCHANGED <<date, bookingVars, refund, until, payable, cycling, hashed, paid,
                   decided, cancelled, waived, cut, calls, failures>>

CycleEnds ==
    /\ cycling /\ ready = {} /\ call[Job] = None
    /\ cycling' = FALSE
    /\ UNCHANGED <<date, bookingVars, refund, until, payable, call, ready, hashed, paid,
                   decided, cancelled, waived, cut, calls, failures>>

\* Some calls end where they are; nothing takes up what they were doing.
Lose(lost_calls) ==
    /\ failures < MaxFailures /\ failures' = failures + 1
    /\ call' = [w \in Workers |-> IF w \in lost_calls THEN None ELSE call[w]]
    /\ cut' = cut \cup {r \in Refunds : \E w \in lost_calls : call[w] # None /\ Row(w) = r}
    /\ UNCHANGED <<date, bookingVars, refund, until, payable, hashed, paid,
                   decided, cancelled, waived, calls>>

\* A call fails at an await; the job goes on.
RefundCallFails(w) == call[w] # None /\ Lose({w}) /\ UNCHANGED jobVars

\* The server stops: all calls under way are lost, and isProcessing with them.
ServerRestarts == Lose(Workers) /\ ready' = {} /\ cycling' = FALSE

DatePasses ==
    /\ date < MaxDate /\ date' = date + 1
    /\ UNCHANGED <<bookingVars, refund, until, payable, call, jobVars, hashed, paid,
                   decided, cancelled, waived, cut, calls, failures>>

CallGoesOn(w) ==
    \/ CreateRefund(w) \/ Judge(w) \/ ApproveRefund(w) \/ ProcessRefund(w)
    \/ MarkProcessing(w) \/ RefundByStripe(w) \/ NothingByCard(w) \/ FinishRefund(w)
    \/ RefundAnnounced(w) \/ SubmissionSaved(w)
    \/ CancellationSaved(w) \/ OverrideSaved(w)

RefundsNext ==
    \/ \E w \in RefundCallers :
        \/ RequestDelayedRefund(w) \/ ProcessAutomatedRefund(w)
        \/ \E r \in Refunds :
            \/ ManualReview(w, r) \/ HandleDisputeResolution(w, r)
            \/ CancelDelayedRefund(w, r) \/ ProcessDelayedRefund(w, r)
            \/ EmergencyOverrideDelayedRefund(w, r) \/ SubmitOnchainRefund(w, r)
    \/ \E w \in Workers : CallGoesOn(w) \/ RefundCallFails(w)
    \/ \E r \in Refunds : CheckOnchainStatus(r) \/ CycleProcesses(r)
    \/ CycleStarts \/ CycleEnds
    \/ ServerRestarts \/ DatePasses

\* A call under way goes on when what it awaits is answered, unless it fails;
\* nothing is assumed of who calls, of the job, or of the clock.
CallsGoOn == \A w \in Workers : WF_refundRowVars(CallGoesOn(w))

RefundsSpec == RefundsInit /\ [][RefundsNext]_refundRowVars /\ CallsGoOn

\* A refund is completed only when Stripe has paid it, however its calls
\* overlap, fail and are repeated, or when one of them found nothing to pay by
\* card: no card was charged, or the amount approved was nothing.
CompletedMeansPaid ==
    \A r \in Refunds : refund[r] = "completed" => paid[r] > 0 \/ r \in waived

\* A large refund no admin has acted on is paid only after its delay.
LargeRefundsWait ==
    \A r \in Refunds : until[r] # None /\ r \notin decided /\ paid[r] > 0 => Expired(r)

\* What the requester was told of a cancelled refund: it is not paid, unless an
\* admin acts on it.  The code lets the job start on a refund between a
\* cancellation's look at the date and its save.
CancelledIsUnpaid == \A r \in cancelled : r \notin decided => paid[r] = 0

Halfway(r) == refund[r] \in {"approved", "processing", "stripe_refunded"} /\ r \notin cut

\* An approved refund does not stay halfway, where nothing looks at it again,
\* whichever calls work on it at once, find its status changed by another or
\* write over each other, unless a call on it was lost.
ApprovedGetsDone == \A r \in Refunds : Halfway(r) ~> ~Halfway(r)
=============================================================================
