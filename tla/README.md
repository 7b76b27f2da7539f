# Traqora: a verification project

TLA+ models of the parts of Traqora that decide about money and seats, the TLC
runs that check them on small instances, and TLAPS proofs of what holds for
every instance. Paths are relative to the repository's root.

## The system

Traqora books flights. A Node/TypeScript backend (`packages/backend`) keeps
flights, bookings and users in a SQL database and drives Soroban contracts
(`contracts/packages/*`, Rust) on the Stellar network, which hold the money. A
web client, a browser extension and a mobile app call the backend.

A contract call is a transaction: it commits whole or not at all, and calls are
serialised by the ledger. What is hard there is not interleaving inside a call but
the order of calls by parties who do not trust each other, several contracts
changed in one call, counters and flags that are never reset, and integer
arithmetic. The backend is the opposite: each `await` lets other requests, the
pollers and other processes in, the database is written from copies read earlier,
a call can fail after its effect was committed, and what runs in memory is lost in
a restart.

### Inventory

| Component | State | Operations | What makes it correct | Modules |
|---|---|---|---|---|
| Booking contract `booking/src/lib.rs` | bookings, next id, trusted oracle, receipt contract, (token balances) | create, pay, release, refund, settle_cancellation, batch_complete, two oracle entrypoints, two setters | solvent; each booking paid once and divided once; closed for good; a batch's report is true | BookingEscrow, EscrowPromise |
| Booking receipts `booking_receipt` | soulbound receipts | mint_receipt | a receipt proves a payment, one per booking | in BookingEscrow |
| Flight oracle `oracle` | providers and stakes, reports, counters, configuration | initialize, register, submit, two verify entrypoints, roles | counters are the reports; settled once and by consensus | FlightOracle |
| Access control crate `shared/access` | owner, role flags | init_owner, set_role, transfer_ownership | who may call what | AccessControl |
| Refund contract `refund` | requests, totals, idempotency keys, policies | request, process, approve, reject, partial, calculate | totals add up, nothing announced twice, decisions final, never above the price | Refund |
| Refund automation `refund_automation` | booking map, cancelled names, disputes | register, cancel, automate, batch, dispute, resolve | what it reports is what the escrow did; stored resolutions agree | RefundAutomation, RefundDisputes |
| Booking orchestration (backend) | flight rows, bookings, idempotency keys, pollers in memory | POST /bookings, poll, GET transaction-status, POST cancel | not oversold; status agrees with the chain; a retry finds its booking; a booking settles | BookingOrchestration |
| Idempotency store (backend) | idempotency_keys, in-flight map per process | executeOnce | one execution per key and payload; answers are results | Idempotency |
| Jury disputes `dispute` | disputes, stakes, evidence, jurors, commitments, reveals, tallies | file, answer, select, commit, reveal, finalize, appeal, execute, claim | no vote is chosen after another is seen; the tally is the reveals; a new jury after an appeal | JuryDispute |
| Arbiter disputes `dispute_resolution` | arbiters, deposits, disputes | set arbiter, deposit, open, counter-evidence, resolve | ruled on once, never by a party; the contract holds what is not ruled on | ArbiterDispute |
| Admin multisig `admin` | signers, threshold, proposals, stop flag | propose, approve, revoke, execute, cancel | signers who are each listed once can always reach the threshold; nothing changes without enough approvals | Multisig |
| Upgrade timelock `upgrade` | admins, timelock, scheduled upgrade | schedule, execute, cancel, set duration | what is executed was scheduled by an admin, and no earlier than announced | UpgradeTimelock |
| Upgrade proxy `proxy` | configuration, council, upgrades, migrations | propose, approve, upgrade, pause, migrate, exchange the council | what runs changes only by an upgrade, done once, that enough addresses approved while they were signers | Proxy |
| Governance `governance` | proposals, votes | propose, vote, finalize | the recorded outcome is that of the votes | Governance |
| Seat locks `seatAvailabilityService.ts` (backend) | locks and group holds in memory, with expiry | lock, select, hold, release, clean up | a seat is held for one group at a time | SeatLocks |
| Group bookings `groupBooking.ts` (backend) | group, members, seats, approval | create, invite, accept, pay, confirm, approve, cancel | who is booked has paid, in a confirmed group | GroupBooking |
| Off-chain refunds `refundService.ts` (backend) | refund rows, the delay job | request, review, approve, delay, cancel, override, dispute, batch | completed means paid, or nothing to pay by card; large refunds wait; an approved refund does not stay halfway | OffchainRefund |
| Loyalty queue `jobs/` (backend) | Redis lists of jobs and dead letters | enqueue, pop, run, retry, requeue | each job is waiting, running, done, dead, or lost with its server | LoyaltyQueue |
| Token, loyalty, airline and flight registry contracts | balances, points, records | | | not modelled |
| Contract monitor, authentication, synchronisation, other services (backend) | | | | not modelled |
| Clients, infrastructure, legacy sources | | | | not modelled |

How they interact: the backend submits `create_booking` and later reads the
transaction's outcome; passengers and airlines call the booking contract; the
oracle and the refund automation call it (`oracle_release_payment`,
`oracle_refund_airline_cancel`, `settle_cancellation`); the booking contract calls
the token and the receipts; the automation writes to the refund contract, whose
events tell the backend what to transfer.

`PROJECT.json` lists the components with their status, and under "hazards" the
places in the code where a test would hardly reach, with the properties that watch
them. A hazard without a property has a note that says why.

## Modules

Constants are parameters with named assumptions; each module has one action per
operation, named after it, and its mutants (definitions marked "Mutant:", used by no
specification: the form a bug in the definition that follows would give it).

| Module | What it is |
|---|---|
| Sums | SumTo(f, n), the sum of f[1..n], as a recursive function |
| BookingEscrow | the booking contract with the token it moves and the receipts it mints |
| EscrowPromise | what BookingEscrow implements: paid at most once, closed at most once, divided exactly |
| AccessControl | the access control crate, instantiated by FlightOracle |
| FlightOracle | EXTENDS BookingEscrow with the oracle in front of it |
| Refund | the refund contract |
| RefundAutomation | EXTENDS BookingEscrow and Refund: three contracts, one of which writes to the other two in its own transaction |
| RefundDisputes | the automation's disputes, which share no state with the rest |
| JuryDispute, ArbiterDispute | the two dispute contracts |
| Disputes | Refund, RefundDisputes, JuryDispute and ArbiterDispute side by side |
| NoValue, BookingParties, Parties, Clock | the value that stands for Option::None, the accounts of bookings, the addresses of role-checked contracts, and ledger time, declared once for the modules that share them |
| Multisig, UpgradeTimelock, Proxy, Governance | the contracts that decide about signers, upgrades and parameters; all but the first INSTANCE AccessControl |
| UpgradeControl | these four side by side |
| BookingOrchestration | POST /bookings, its poller and the two handlers that write a status later |
| Idempotency | IdempotencyStore.executeOnce |
| SeatLocks | the seat locks and group holds of one flight |
| GroupBooking | one group booking and the flight row it takes seats from |
| OffchainRefund | the refund rows of one booking, Stripe, and the delay job (which nothing starts) |
| LoyaltyQueue | the loyalty jobs in Redis and the servers that poll them |
| Server | Idempotency, SeatLocks, GroupBooking, OffchainRefund and LoyaltyQueue side by side |
| SumsProofs, BookingEscrowProofs, EscrowCallersProofs, RefundProofs, DisputesProofs, UpgradeControlProofs, BookingOrchestrationProofs, ServerProofs | the theorems |
| MC* | instances for TLC |

### How state and actions correspond to the code

*Contracts.* Each storage key is a variable, named like the Rust accessor. Each
entrypoint is one action; its asserts, expects and inner panics are conjuncts of the
guard, since a call that panics changes nothing. `require_auth` is not a
condition of the model: the action's parameter is the address that authorizes.
Several entrypoints that differ only in one more required signature are one action
(`complete_booking` and `release_payment_to_airline`). `batch_complete_bookings` is
split into the call, one step per element and the return, so that a property can
look at a batch in the middle; `Idle` keeps other calls out, as the ledger does.
`flow`, `settled`, `verdicts` and `rulings` record what events report: they have no storage but
are what outside parties see. Whole-number fields are Int or Nat; the places where
the code's unsigned subtraction panics are guards (`departure_time >= Window`).
Overflow of an i128 is out of reach with token amounts and is not modelled. The loop of
`process_batch_refunds` is one step, and a name that the loop passes over is left out of
the list it is given. The operator checks of `refund` and `refund_automation` are taken
as passed, and the dispute and multisig contracts as initialized; the jury contract has
one operator.
Stakes and deposits of one token are numbers the contract holds. Hashes of votes are
the votes they hide (`commit`); who can read them before the reveal is not modelled,
so `VotesSealed` is about what the stored values may still become. History variables
(`received`, `announced`, `claims`, `voted`) record payouts and events.

*Backend.* An action is the code from one `await` to the next. A request's place in
its handler is its state (`post`, `handler`, `at`), local variables that survive an
await are fields of it. `save()` on a loaded entity writes the status from that
copy, without a version. Database and chain calls fail in two ways, before
(`Fails`) and after (`Unanswered`) their effect, and `Crash` ends everything in
memory. In BookingOrchestration a booking is identified with the request that made
it. The chain (`Finalize`, `Observable`) is modelled from how `soroban.ts` uses it.
Left out: prices, payload contents, web-socket broadcasts, logging, delays between
attempts, the circuit breaker (whose refusals are among the answers that are not
final), and `processCancellation`'s fare rules, which only forbid.
In Idempotency an `execute` that throws before its first await is not told apart
from one that throws later, and keys of different payloads are compared as payloads,
their hash being injective for all purposes here.
SeatLocks keeps the callers that are between their look at a lock and their writing it
(`locking`), and in `lost` the seats of a group's hold that a call on a single seat took. One
step is the code from an answer of the database to the next question: after the last answer
inside the `await` of seatAvailabilityService.ts:133 only microtasks lead on to the hold,
and Postgres, whose answers come over a socket, lets no other request in between.
GroupBooking keeps the copy of the group a payment (`paying`), an invitation or an
acceptance (`saving`) or a confirmation (`confirming`) has read and will save; a
confirmation books its members one by one, in any order. Who was charged (`charged`) is
history. Saving a group saves the members it was read with, and fails where a member was
made since: TypeORM would take the group away from that row, whose `group_booking_id` may
not be null. One consequence is that an invitation of new members never completes its own
save (groupBooking.ts:351), so that no group it adds someone to becomes "inviting".
OffchainRefund gives each call a step it is at (`call`); `payable` are the rows approved
for more than nothing, and a call keeps what it read of that until it looks at the amount
(refundService.ts:369). History: `paid` counts Stripe's payments, `decided` are the rows an
administrator acted on, `cancelled` those whose requester was told so, `waived` those for
which a call found nothing to pay by card, `cut` those that lost a call since they were
approved. In LoyaltyQueue a server that stops loses the job it has popped, as does a
push that fails (`losses`); `dropped` are jobs without a handler and trimmed dead letters.

## Runs

| Run | Question | Bounds and why they are enough |
|---|---|---|
| booking_escrow | is the escrow solvent, conserved and closed for good, whoever calls what in which order; does it implement EscrowPromise | two bookings (one may be paid with the other's money), two accounts that are passenger and airline of both or each other's, batches of two ids (repeated, missing, foreign), prices -1, 0, 3 and shares 0, 5000, 20000 (rounding, refused), time before and after the refund window |
| flight_oracle | is a booking settled once and by consensus | one booking, two flight numbers, two providers, thresholds 0 (refused) and 2, two reports per key so that both outcomes can win |
| refund_automation | does the automation report what the escrow did | one booking, two names for it, parties calling the other contracts directly, all three tiers |
| refunded_twice | *violated*: are escrow payout and announced transfer together at most the price | the same, no requests but the automation's own |
| disputes | do totals, announcements and decisions stay right when requests and keyed refunds mix; do the two stored resolutions agree; is a jury's tally its reveals and sealed while votes are open; is a ruling impartial and paid once | refunds: two bookings, two keys, two requests, amounts -1 to 2, three announcements; refund disputes: two refunds, two passengers, two rulings; jury: four accounts, a jury of two (so that it can be split), one appeal, time enough for both rounds, parties that are different or the same; arbiters: three accounts of which two start as arbiters, two bookings, so that the assigned arbiter may be a party |
| upgrade_control | can signers who are each listed once always reach the threshold, and does nothing change without it; is an upgrade executed as scheduled; is the outcome the vote; does what the proxy runs change only by what enough signers approved | multisig: one or three signers, one of them listed twice (as `initialize` allows) in another instance, two proposals that add, remove and change the threshold, one expiry; timelock: two users, two hashes, two durations and the default; governance: two voters, one deadline; proxy: two implementations, councils of one and two |
| booking_orchestration | is the flight oversold, does a status disagree with the chain, does a retry book again; does a submitted booking leave that status | two requests of one key for the last seat, one client, two attempts, two faults: enough for a lost answer and a crash in one behaviour |
| refunded_once | *violated*: is a booking refunded once | the same without faults, two refunds allowed |
| server | is a key executed once at a time and an answer a result; are holds disjoint; is who is booked due; is a completed refund one that was paid or had nothing to pay, do large refunds wait, is an approved one carried through; is every loyalty job accounted for | idempotency: four callers in two processes, one with another payload, all outcomes; seats: two seats, two groups and a booking, locks that expire once; group: an organizer and two members for two seats, two requests; refund: one row, two callers and the job, three calls, one failure or restart; queue: three jobs of which one has no handler, two servers, one dead letter kept, one loss |
| executed_once | *violated*: "executed EXACTLY ONCE" | two callers in one process, nothing fails |
| appeal_new_jury | *violated*: "Resets dispute to evidence phase with new jury" | as in disputes |
| cancelled_refund | *violated*: can a cancelled refund be paid | as in server |

In `disputes`, `upgrade_control` and `server` the parts share no state and no part calls
another, so that a behaviour is one of one part, chosen in the initial state; an
interleaving of two of them would show nothing more.

All runs allow deadlock: the bounds (`MaxBookings`, `MaxTime`, `MaxSettled`,
`MaxFaults`...) and the end of the modelled requests are real stops. Symmetry is
used only where no property distinguishes the permuted values, and never in
a run with a liveness property.

### Fairness

`Settles`, in `booking_orchestration`, needs weak fairness of `PollerStep(r)`, for each booking.
A poller is a chain of promises in one event loop; each step is enabled by a call
that answers or fails, and nothing in the code lets the loop starve it. Clients, the
chain and the arrival of requests get no fairness: a booking must settle though
no one asks and the chain never decides. The property excuses a poller that died in
a crash or on a database error in its catch block, since nothing restarts it.

`ApprovedGetsDone`, in `server`, needs weak fairness of `CallGoesOn(w)`, for each call: what a
call awaits is answered or fails, and it goes on in the same event loop. Callers, the clock
and the delay job get no fairness. The property excuses a refund that lost a call since it
was approved (`cut`), since nothing takes up what a lost call or a stopped server leaves. That
a delay ends is not claimed: `startPeriodicProcessing` is called by neither `index.ts` nor
`app.ts`, so that it ends only when someone calls the route. The job's own cycle is modelled
as a thing that may run.

### What the violated runs show

1. `refunded_twice`: `automate_refund` pays out of the escrow and files a request
   for the same amount, whose approval tells the backend to transfer it again.
2. `refunded_once`: the chain's outcome is written over "refunded", after which the
   booking is refunded again.
3. `executed_once`: a caller that read the record before the first execution saved its
   resource, and looks at the in-flight map after it left, executes again.
4. `appeal_new_jury`: an appeal opens the evidence phase again but keeps the jurors,
   commitments and reveals of the first round.
5. `cancelled_refund`: a cancellation that looked at the row before the delay ended is
   saved over a refund that was taken up meanwhile, which Stripe then pays.

## Proofs

Assumptions: the named ASSUMEs of the modules (for instance: the contract's own
address is not an account's; prices are integers; shares are naturals) and the
standard library's facts on sequences and naturals. No bound on accounts, bookings,
prices, providers or flights is used beyond being a number.

* **SumsProofs**: `SumTo` is defined by a recursive function; that changing one
  summand changes the sum by the difference (`SumToUpdate`), extending it adds the
  new summand (`SumToExtend`), and the sum of naturals is at least any of them
  (`SumToAtLeast`). The recursive function is shown to exist on every initial
  segment by a least-counterexample argument (`LeastNatural`).
* **BookingEscrowProofs**: the inductive invariant is
  `IInv == TypeOK /\ Ledger /\ BatchReport /\ ReceiptsProvePayment`, with
  `Ledger == Conserved /\ Solvent`. Solvent alone is not inductive: that a payout
  takes from the contract exactly the summand it clears needs Conserved, and that the
  token never refuses a payout, and so balances stay natural, needs Solvent.
  BatchReport needs both and that ids are stored. `PayOutLedger` does the arithmetic
  once for every entrypoint that pays out; `ShareBound` is the integer division.
  From `IInv`: `TypeCorrect`, `SolventAlways`, `ConservedAlways`, `BatchReportAlways`,
  `ReceiptsAlways`; `StepKinds` sorts the steps into creations, payments, payouts and
  the rest, which gives `ClosedForGoodAlways` and the refinement `PromiseKept`.
* **RefundProofs**: `BooksInv == RefundTypeOK /\ TotalsAddUp /\ Books`. `Books` splits
  AnnouncedOnce by what marks a settlement (a request's status, a key) and adds
  `RequestsSettled`, without which a request made later could find itself settled.
  `SettleAdds` (with `SumToExtend`) and `SettleMarks` do the work once for approvals,
  automated approvals and keyed refunds. `DecisionsAreFinalAlways` needs that amounts
  are naturals, which `RefundTypeOK` keeps.
* **EscrowCallersProofs**: `OracleImplementsEscrow` and `AutomationImplementsEscrow` (a
  step of either composition is a step of the booking contract or leaves it alone; the
  automation asks for shares that callers may ask for), hence `OracleKeepsSolvent` and
  `AutomationKeepsSolvent`.
  - *Oracle.* `SettledOnceAlways` proves `SettledOnceByConsensus` with `ConsensusInv`: a
    settled booking is closed (so a second settlement is refused), ids not yet handed
    out have no settlement, and the configuration the threshold is read from is set once
    and before any settlement, while counters only grow. `OracleTypeCorrect` adds the
    types of the oracle's own state.
  - *Automation.* `CancelledMeansSettledAlways` adds `BeliefInv` to the booking
    contract's `IInv`: a closed booking never changes (`ClosedStays`) and the booking
    contract refuses to settle it again, so only the step that marks a name has to be
    looked at. `BooksStayRightAlways` carries RefundProofs' `BooksInv` over to the
    composition: what the automation passes on belongs to a real booking because of
    `BeliefInv` (`RealBooking`), and a batch appends several approved requests and their
    announcements at once, under numbers nothing names yet and with amounts that leave
    every total alone (`ApprovedBatchHolds`, with `SumToPad`). Both together give
    `AutomationTypeCorrect`.
* **DisputesProofs**: an invariant for each part and, as a behaviour of the composition
  is one of each (`EachPartHolds`), `TypesCorrect`.
  - *Refund disputes.* The types and LastRulingHolds are inductive together.
  - *Jury.* `JuryInv` is the types and four parts. `VotesHold`: only jurors commit, and
    only a commitment is revealed. `JuryHolds`: the jury is complete before it votes, and
    an appeal, which opens the evidence phase again, leaves it complete, so that no juror
    is added and the phases that allow commitments are not reached any more; this is
    also what makes `VotesSealedAlways` a fact of each step. `VerdictHolds`: where a case
    has a verdict. `TallyHolds`: the counters are the sizes of finite sets of voters, and
    the verdict is the majority.
  - *Arbiters.* `ArbiterInv` adds to the types that a booking is disputed once and
    released exactly when its dispute has a winner (`DisputesHold`), that only winners
    were paid and unreleased deposits are positive (`PaymentsHold`), and that the contract
    holds the sum of what is not ruled on (`Backed`).
* **UpgradeControlProofs**: an inductive invariant for each of the four contracts, and
  then that a behaviour of the four side by side is one of each (`EachContractHolds`),
  which gives `TypesCorrect`.
  - *Multisig.* The inductive part of ThresholdInReach is that the threshold is at least two
    and at most the length of the list, which is what the guards compare. The list may
    hold an address twice, and removal is by the code's loop (`Without`, a recursive
    function, shown to exist like the sums). Neither removal nor addition repeats an
    address in a list that repeats none (`UnfoldedType`, `AppendedOnce`), which is the
    property's second part (`NobodyTwice`), and such a list has as many signers as
    entries (`AsManyAsEntries`). `OnlyByAgreementAlways` follows from the actions and
    the shape of `proposals`.
  - *Timelock.* `AnnouncedInForce` (the duration announced with the upgrade is the one
    the code will read, unless the owner has set another) makes UpgradeAsScheduled a
    fact of each step.
  - *Governance.* What a motion counts is the number of voters on record for each side,
    each of whom is recorded once, and a motion that is not finalized has no outcome.
    `CastHolds` adds one element to one of these finite sets, `CountsStay` says that
    nothing else changes them.
  - *Proxy.* `ProxyInductive` has the types and the first part of RunsWhatWasAgreed, that
    versions are executed proposals: `UpgradeToHolds` adds one to a finite set and one to
    the version. The other two parts are about steps (`StepsAreAgreed`): an upgrade executes
    a proposal with enough approvals (`UpgradeIsAgreed`), an approval is of a signer
    (`ProposedBySigner`, `ApprovalBySigner`), and no other step touches what runs
    (`NothingAgreed`).
* **BookingOrchestrationProofs**: NeverOversold is not inductive. `SeatsAddUp` counts
  what the code conserves: seats on offer, requests that hold one and have no booking
  yet, and bookings whose seat was not given back (`Owed`) make at most the capacity,
  with one more for each database answer that was lost. That only the poller of a failed
  transaction gives a seat back, and only once, is `PollersHold`; that a status is
  written from an outcome that was seen, however old the copy, is `HandlersHold` and
  `OutcomeAgrees`; that a key leads to a booking made for it is `LinksHold`. An outcome
  on the chain is final (`OutcomesStay`) and a row is never deleted (`RowsStay`), so what
  a copy says stays true. `NoMore`, `OneMore` and `OneLess` do the counting.

* **ServerProofs**: an inductive invariant for each of the five parts, and that a
  behaviour of the server is one of each (`EachPartHolds`), which gives
  `ServerTypesCorrect` and the promises of the parts.
  - *Idempotency.* `IInv` says of each place where a record, a caller's copy or an
    answer is kept that its resource was made by an execution of the same key and
    payload that succeeded (`RecordsHold`, `CopiesHold`, `CallersHold`,
    `AnswersAreResults`), and of the in-flight map that it names executions under way
    (`LocksHold`). A record's payload never changes and success is final
    (`RecordOfStays`), so what an old copy says stays true whoever saves meanwhile.
  - *Seats.* HoldsAreDisjoint is not inductive; `HoldsLocked` is: each seat of a hold in
    force that nobody took from it is locked for its group, at least as long as the hold
    lasts. A seat has one lock, hence `HoldsApart`.
  - *Group.* `RowsAgree` says of the stored rows and of every copy a request will still
    save that a member marked as paid was charged, and that a pending approval is marked
    in the group. A charge is not undone and no approval becomes pending a second time
    (`Grows`), so old copies stay right (`AgreementStays`) and may be saved in any order.
    `ConfirmationAgrees` says the same of a confirmation under way, and that whom it has
    still to book is the organizer or was charged and no approval is open.
  - *Refunds.* `RefundsInv` follows a row along its calls: what only a payment leads to,
    or a call's finding nothing to pay (`AfterPayment` of `Settled` rows, which gives
    CompletedMeansPaid), and that a call which may pay was
    begun when the payment was due, by the date or by an administrator's decision,
    neither of which is taken back (`BeforePayment`, which gives LargeRefundsWait).
    `RowStepHolds` does the work once for all calls.
  - *Queue.* `InOnePlace`: a job is once in the queue, among the dead letters or with one
    server, and then it is not over. The lemmas before it say what append, tail, removal
    and trimming do to a list without repetitions. Only a failure adds to the jobs that
    are nowhere (`NoMoreMissing`, `JobLostHolds`), hence JobsAccounted.

The assumptions added by these: idempotency keys of the refund contract are not
request numbers; the value that stands for "none" is no caller, record, number, user,
request, status or job. Where a property is of one part of a composition, its theorem is
of that part's own specification, and the composition's `EachContractHolds` or
`EachPartHolds` carries it over.

Only model-checked: liveness (`Settles`, `ApprovedGetsDone`), since the provers at hand do
not reason about fairness or ENABLED. Every invariant and action property of the
passing runs is proved. What `SumTo` and `Without` compute is proved only so far as a
least-counterexample argument written out by hand reaches, since the library's
induction theorems take an operator as a parameter.

## Not modelled

* **Token, loyalty, airline, flight registry and flight booking contracts, storage
  versioning**: each entrypoint is a guard and an addition or a record under the
  caller's own key. No money or decision of another contract depends on them beyond
  the balances BookingEscrow keeps.
* **The rest of the booking routes**: submit-onchain, the Stripe webhook, passenger
  corrections, rescheduling and ancillary orders. The webhook writes "paid" over any
  status and no document says which orders of events it allows.
* **Flight synchronisation and the contract monitor**: what they read is counted
  outside the repository; no handler of the monitor is wired to a state another part
  reads.
* **Authentication**: cryptography, and one-time values whose look-up is not atomic
  with their deletion; no state shared with bookings.
* **Search, fares, prices, notifications, reports, documents; clients; deployment**:
  request handlers without a protocol of their own, user interfaces, dashboards.
* **`contracts/src`**: modules no package of the workspace builds.
* **Data**: prices and shares of group members, eligibility rules, cabins and
  preferences of seats, the text of evidence.

What the models contain but no property condemns, because nothing in the repository
says otherwise, is in `PROJECT.json` as a hazard with a note: for instance a
submission whose answer is lost gives the seat back though the chain may book it;
two members who pay at once can take a group's seats below zero; an administrator's
review pays a refund that was paid before.

## Plan

Modelled, checked and proved: the contracts that hold or divide money, those
that decide about signers, upgrades and parameters, and the backend's booking, seat,
group, refund and job queue paths. What is left, in this order:

1. BookingOrchestration, second part: submit-onchain and the payment webhook.
2. One-time values of authentication under concurrent requests.
3. The contract monitor's cursor, token and loyalty contracts.
