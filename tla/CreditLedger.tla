---------------------------- MODULE CreditLedger ----------------------------
(***************************************************************************)
(* One organization's credits under concurrent database sessions: charges  *)
(* of finished executions and voice calls, balance checks, the monthly     *)
(* grant any of them may have to issue, and the payment provider's         *)
(* notifications that add purchased credits or switch the plan.            *)
(*                                                                         *)
(* A session reads committed rows, writes under the row locks an UPDATE    *)
(* takes, and publishes at its commit (READ COMMITTED). `account` is the   *)
(* committed organization row with the sums of its credit_transactions;    *)
(* the holder of its lock works on `draft`. Months stand for dates.        *)
(***************************************************************************)
EXTENDS Naturals

CONSTANTS
    Sessions,     \* request handlers and workers with a database session each
    NoSession,
    Webhooks,     \* those that may carry a notification
    Payments, Packs, \* payments, and those of them that buy a credit pack
    NoPayment,
    Plans, FreePlan, PaidPlan,
    Allowance,    \* credits_per_month of each plan
    PackCredits,  \* what a credit pack adds
    Amounts,      \* what an execution or a call may cost
    Kinds,        \* the operations that occur, from KindsOfWork
    Statuses,     \* what the provider's events map to
    MaxMonth,     \* bound: months that pass
    MaxStarted    \* bound: operations started, notifications and retries included

KindsOfWork == {"check", "charge", "voice", "notification"}
PaymentStatus == {"init", "confirmed", "canceled", "rejected"}

ASSUME LedgerAssumption ==
    /\ NoSession \notin Sessions
    /\ Webhooks \subseteq Sessions
    /\ NoPayment \notin Payments
    /\ Packs \subseteq Payments
    /\ FreePlan \in Plans /\ PaidPlan \in Plans
    /\ Allowance \in [Plans -> Nat]
    /\ PackCredits \in Nat
    /\ Amounts \subseteq Nat
    /\ Kinds \subseteq KindsOfWork
    /\ Statuses \subseteq PaymentStatus
    /\ MaxMonth \in Nat /\ MaxStarted \in Nat

VARIABLES
    account,   \* committed: the organization row and its ledger
    status,    \* committed: each payment's status, "none" before its checkout
    month,     \* date.today()
    accountLock, paymentLock, \* who has an uncommitted UPDATE of the row
    draft,     \* the account as its lock's holder has changed it
    pc, work,  \* where each session stands, in which operation
    seen,      \* the plan and the payment status the session read
    started    \* operations started so far

committed == <<account, status, month>>
locks     == <<accountLock, paymentLock>>
vars == <<account, status, month, accountLock, paymentLock, draft, pc, work, seen, started>>

-----------------------------------------------------------------------------
(* The account. *)

Months == 0..MaxMonth

\* topups counts MANUAL_TOPUP rows by payment, grants the monthly PLAN_GRANT rows
\* by period. issued, bought and spent sum the PLAN_GRANT, the MANUAL_TOPUP, and
\* the REQUEST_FEE and usage rows; expired is what grants overwrote.
Account == [granted: Nat, purchased: Nat, plan: Plans, period: Months,
            topups: [Payments -> Nat], grants: [Months -> Nat],
            issued: Nat, bought: Nat, spent: Nat, expired: Nat]

Balance(a) == a.granted + a.purchased

Least(i, j) == IF i <= j THEN i ELSE j

\* Mutant: the purchased part first.
SpendPurchasedFirst(a, amount) ==
    LET fromPurchased == Least(a.purchased, amount)
    IN  [a EXCEPT !.purchased = @ - fromPurchased,
                  !.granted = @ - (amount - fromPurchased),
                  !.spent = @ + amount]

\* The UPDATE of deduct_credits and deduct_credits_up_to: granted part first.
Spend(a, amount) ==
    LET fromGranted == Least(a.granted, amount)
    IN  [a EXCEPT !.granted = @ - fromGranted,
                  !.purchased = @ - (amount - fromGranted),
                  !.spent = @ + amount]

\* _grant with reissue_granted_credits: overwrite the granted part.
Reissue(a, plan, period) ==
    [a EXCEPT !.granted = Allowance[plan], !.period = period,
              !.issued = @ + Allowance[plan], !.expired = @ + a.granted]

\* record_manual_topup.
TopUp(a, p) == [a EXCEPT !.purchased = @ + PackCredits, !.topups[p] = @ + 1,
                         !.bought = @ + PackCredits]

Opening == [granted |-> 0, purchased |-> 0, plan |-> FreePlan, period |-> 0,
            topups |-> [p \in Payments |-> 0], grants |-> [m \in Months |-> 0],
            issued |-> 0, bought |-> 0, spent |-> 0, expired |-> 0]

\* What the session sees of the account: its own changes or the committed row.
View(s) == IF accountLock = s THEN draft ELSE account

\* An UPDATE of the organization: waits for the row lock and keeps it.
UpdateAccount(s, new) ==
    /\ accountLock \in {NoSession, s}
    /\ accountLock' = s
    /\ draft' = new

Goto(s, where) == pc' = [pc EXCEPT ![s] = where]

-----------------------------------------------------------------------------
NoWork == [kind |-> "none", amount |-> 0, payment |-> NoPayment, status |-> "init"]
Unseen == [plan |-> FreePlan, status |-> "init"]

Init ==
    /\ account = Opening
    /\ status = [p \in Payments |-> "none"]
    /\ month = 0
    /\ accountLock = NoSession
    /\ paymentLock = [p \in Payments |-> NoSession]
    /\ draft = Opening
    /\ pc = [s \in Sessions |-> "idle"]
    /\ work = [s \in Sessions |-> NoWork]
    /\ seen = [s \in Sessions |-> Unseen]
    /\ started = 0

NextMonth ==
    /\ month < MaxMonth
    /\ month' = month + 1
    /\ UNCHANGED <<account, status, locks, draft, pc, work, seen, started>>

\* create_subscription_payment, create_credit_pack_payment: the row is committed
\* once the provider has the transaction; before that no notification finds it.
Checkout(p) ==
    /\ status[p] = "none"
    /\ status' = [status EXCEPT ![p] = "init"]
    /\ UNCHANGED <<account, month, locks, draft, pc, work, seen, started>>

\* The two endpoints that sell; a provider that declines rolls the row back.
Subscribe(p)  == p \notin Packs /\ Checkout(p)
BuyCredits(p) == p \in Packs /\ Checkout(p)

Start(s, todo, where) ==
    /\ pc[s] = "idle"
    /\ todo.kind \in Kinds
    /\ started < MaxStarted
    /\ started' = started + 1
    /\ work' = [work EXCEPT ![s] = todo]
    /\ Goto(s, where)
    /\ UNCHANGED <<committed, locks, draft, seen>>

\* check_balance and get_balance; deduct_for_execution; _charge of a voice call.
Check(s)    == Start(s, [NoWork EXCEPT !.kind = "check"], "period")
Charge(s)   == \E a \in Amounts :
                   Start(s, [NoWork EXCEPT !.kind = "charge", !.amount = a], "period")
Voice(s)    == \E a \in Amounts :
                   Start(s, [NoWork EXCEPT !.kind = "voice", !.amount = a], "drain")

\* process_notification, for an event that names a known payment.
Notify(s) ==
    \E p \in Payments, new \in Statuses :
        /\ s \in Webhooks
        /\ status[p] # "none"
        /\ Start(s, [NoWork EXCEPT !.kind = "notification", !.payment = p, !.status = new],
                 "read")

-----------------------------------------------------------------------------
(* ensure_current_period and the charges. *)

\* Reads the organization; the grant follows in later statements.
ReadPeriod(s) ==
    /\ pc[s] = "period"
    /\ seen' = [seen EXCEPT ![s].plan = View(s).plan]
    /\ Goto(s, IF View(s).period < month THEN "grant"
               ELSE IF work[s].kind = "charge" THEN "deduct" ELSE "commit")
    /\ UNCHANGED <<committed, locks, draft, work, started>>

\* The grant of the plan that was read, whatever the row says by now.
Grant(s) ==
    /\ pc[s] = "grant"
    /\ UpdateAccount(s, [Reissue(View(s), seen[s].plan, month) EXCEPT !.grants[month] = @ + 1])
    /\ Goto(s, IF work[s].kind = "charge" THEN "deduct" ELSE "commit")
    /\ UNCHANGED <<committed, paymentLock, work, seen, started>>

\* Mutants: the deduction writes back the balance as committed, without the grant
\* this session has just made; it is not conditional on the balance.
DeductFromCommitted(s) ==
    LET new == Spend(account, work[s].amount)
    IN  /\ pc[s] = "deduct"
        /\ Balance(account) >= work[s].amount
        /\ UpdateAccount(s, [View(s) EXCEPT !.granted = new.granted, !.spent = new.spent,
                                            !.purchased = new.purchased])
        /\ Goto(s, "commit")
        /\ UNCHANGED <<committed, paymentLock, work, seen, started>>

\* deduct_credits: the balance is tested by the UPDATE itself.
Deduct(s) ==
    /\ pc[s] = "deduct"
    /\ Balance(View(s)) >= work[s].amount
    /\ UpdateAccount(s, Spend(View(s), work[s].amount))
    /\ Goto(s, "commit")
    /\ UNCHANGED <<committed, paymentLock, work, seen, started>>

\* No row matches: InsufficientCreditsError. The executor settles the run as
\* FAILED in the same transaction, so a grant made on the way is kept.
DeductShort(s) ==
    /\ pc[s] = "deduct"
    /\ Balance(View(s)) < work[s].amount
    /\ Goto(s, "commit")
    /\ UNCHANGED <<committed, locks, draft, work, seen, started>>

\* deduct_credits_up_to: a call's minutes are spent, so drain what is there.
Drain(s) ==
    /\ pc[s] = "drain"
    /\ UpdateAccount(s, Spend(View(s), Least(Balance(View(s)), work[s].amount)))
    /\ Goto(s, "commit")
    /\ UNCHANGED <<committed, paymentLock, work, seen, started>>

-----------------------------------------------------------------------------
(* process_notification. *)

ReadPayment(s) ==
    /\ pc[s] = "read"
    /\ seen' = [seen EXCEPT ![s].status = status[work[s].payment]]
    /\ Goto(s, "status")
    /\ UNCHANGED <<committed, locks, draft, work, started>>

\* update_status: overwrites with no condition on the row; an UPDATE, and so a
\* lock, only if the value read is another one. was_confirmed is what was read.
UpdateStatus(s) ==
    LET p == work[s].payment
        new == work[s].status
        writes == seen[s].status # new
    IN  /\ pc[s] = "status"
        /\ writes => paymentLock[p] = NoSession
        /\ paymentLock' = IF writes THEN [paymentLock EXCEPT ![p] = s] ELSE paymentLock
        /\ Goto(s, IF new = "confirmed" /\ writes
                   THEN IF p \in Packs THEN "topup" ELSE "activate"
                   ELSE "commit")
        /\ UNCHANGED <<committed, accountLock, draft, work, seen, started>>

\* _credit_pack_purchased.
CreditPack(s) ==
    /\ pc[s] = "topup"
    /\ UpdateAccount(s, TopUp(View(s), work[s].payment))
    /\ Goto(s, "commit")
    /\ UNCHANGED <<committed, paymentLock, work, seen, started>>

\* _activate_subscription: switch the plan, then grant_plan_credits.
Activate(s) ==
    /\ pc[s] = "activate"
    /\ UpdateAccount(s, [Reissue(View(s), PaidPlan, month) EXCEPT !.plan = PaidPlan])
    /\ Goto(s, "commit")
    /\ UNCHANGED <<committed, paymentLock, work, seen, started>>

-----------------------------------------------------------------------------
(* The end of a session (get_async_session). *)

Locked(s) == {p \in Payments : paymentLock[p] = s}

\* Mutant: a finished session keeps its lock on the organization.
FinishLeakingLock(s) ==
    /\ UNCHANGED <<accountLock, month, started>>
    /\ paymentLock' = [p \in Payments |-> IF p \in Locked(s) THEN NoSession ELSE paymentLock[p]]
    /\ work' = [work EXCEPT ![s] = NoWork]
    /\ seen' = [seen EXCEPT ![s] = Unseen]
    /\ Goto(s, "idle")

Finish(s) ==
    /\ accountLock' = IF accountLock = s THEN NoSession ELSE accountLock
    /\ paymentLock' = [p \in Payments |-> IF p \in Locked(s) THEN NoSession ELSE paymentLock[p]]
    /\ work' = [work EXCEPT ![s] = NoWork]
    /\ seen' = [seen EXCEPT ![s] = Unseen]
    /\ Goto(s, "idle")
    /\ UNCHANGED <<month, started>>

Commit(s) ==
    /\ pc[s] = "commit"
    /\ account' = View(s)
    /\ draft' = IF accountLock = s THEN Opening ELSE draft
    /\ status' = [p \in Payments |-> IF p \in Locked(s) THEN work[s].status ELSE status[p]]
    /\ Finish(s)

\* Mutant: the status is committed before the credits are.
RollbackKeepingStatus(s) ==
    /\ pc[s] # "idle"
    /\ draft' = IF accountLock = s THEN Opening ELSE draft
    /\ status' = [p \in Payments |-> IF p \in Locked(s) THEN work[s].status ELSE status[p]]
    /\ Finish(s)
    /\ UNCHANGED account

\* An exception, a refused statement or the end of the process.
Rollback(s) ==
    /\ pc[s] # "idle"
    /\ draft' = IF accountLock = s THEN Opening ELSE draft
    /\ Finish(s)
    /\ UNCHANGED <<account, status>>

-----------------------------------------------------------------------------
Begin(s) == Check(s) \/ Charge(s) \/ Voice(s) \/ Notify(s)

Step(s) ==
    \/ ReadPeriod(s) \/ Grant(s) \/ Deduct(s) \/ DeductShort(s) \/ Drain(s)
    \/ ReadPayment(s) \/ UpdateStatus(s) \/ CreditPack(s) \/ Activate(s)
    \/ Commit(s)

Next ==
    \/ NextMonth
    \/ \E p \in Payments : Subscribe(p) \/ BuyCredits(p)
    \/ \E s \in Sessions : Begin(s) \/ Step(s) \/ Rollback(s)

Spec == Init /\ [][Next]_vars

\* A session keeps executing its statements.
FairSpec == Spec /\ \A s \in Sessions : WF_vars(Step(s))

-----------------------------------------------------------------------------
(* Properties. *)

Places == {"idle", "period", "grant", "deduct", "drain", "read", "status", "topup",
           "activate", "commit"}

\* Each variable has its type; no balance is negative.
TypeOK ==
    /\ account \in Account
    /\ status \in [Payments -> PaymentStatus \union {"none"}]
    /\ month \in Months
    /\ accountLock \in Sessions \union {NoSession}
    /\ paymentLock \in [Payments -> Sessions \union {NoSession}]
    /\ draft \in Account
    /\ pc \in [Sessions -> Places]
    /\ work \in [Sessions -> [kind: KindsOfWork \union {"none"}, amount: Nat,
                             payment: Payments \union {NoPayment}, status: PaymentStatus]]
    /\ seen \in [Sessions -> [plan: Plans, status: PaymentStatus \union {"none"}]]
    /\ started \in 0..MaxStarted

\* The ledger explains the balance: whatever sessions overlap, every credit that
\* was granted or bought is in the balance, was spent in a recorded charge, or was
\* overwritten by a later grant. No concurrent deduction or grant is lost.
CreditsConserved ==
    Balance(account) + account.spent + account.expired = account.issued + account.bought

\* Purchased credits are touched only when the granted ones are used up.
PurchasedSpentLast ==
    [][account'.purchased < account.purchased => account'.granted = 0]_vars

\* A payment committed as confirmed has had its effect: the pack was credited, or
\* the plan switched. A failure between the two steps leaves neither.
PaidIsDelivered ==
    \A p \in Payments :
        status[p] = "confirmed" =>
            IF p \in Packs THEN account.topups[p] > 0 ELSE account.plan = PaidPlan

\* Row locks are taken in one order, payment before organization: no session waits
\* for ever.
SessionsEnd == \A s \in Sessions : pc[s] # "idle" ~> pc[s] = "idle"

=============================================================================
