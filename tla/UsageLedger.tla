---------------------------- MODULE UsageLedger ----------------------------
(***************************************************************************)
(* What a user has, what is frozen of it, and the billing requests that    *)
(* have been applied.                                                      *)
(* Source: backend/internal/repository/usage_billing_repo.go and           *)
(* backend/internal/service/batch_image_billing_hold.go.                   *)
(*                                                                         *)
(* Every operation is one transaction: it claims its request ID in         *)
(* usage_billing_dedup and applies its effect, or neither.  An operation   *)
(* whose request ID is taken has no effect and succeeds.  The ledger is    *)
(* the one of a user with a batch image job: the job's hold, its capture   *)
(* and its release are the requests "hold", "capture" and "release".  The  *)
(* user's other jobs are seen only through the OtherHolds that they have   *)
(* frozen, and the gateway's requests, which draw on the balance alone,    *)
(* only through the choice of the balance at first.                        *)
(***************************************************************************)
EXTENDS Integers, FiniteSets

CONSTANTS
    Funds,       \* balances that the user may have at first; some are overdrawn
    OtherHolds,  \* what the user's other jobs have frozen
    Hold         \* hold_amount of the job

HoldRequests == {"hold", "capture", "release"}

ASSUME LedgerAssumption ==
    /\ Funds \subseteq Int
    /\ OtherHolds \in Nat
    /\ Hold \in Nat \ {0}

VARIABLES
    balance,  \* users.balance
    frozen,   \* users.frozen_balance
    claims,   \* request IDs in usage_billing_dedup or its archive
    funds     \* history: the balance at first

ledger == <<balance, frozen, claims, funds>>

LedgerTypeOK ==
    /\ balance \in Int /\ frozen \in Nat /\ funds \in Int
    /\ claims \subseteq HoldRequests

LedgerInit ==
    /\ funds \in Funds
    /\ balance = funds
    /\ frozen = OtherHolds
    /\ claims = {}

ReserveBatchImageBalance ==
    \/ "hold" \in claims /\ UNCHANGED ledger
    \/ /\ "hold" \notin claims
       /\ balance >= Hold
       /\ claims' = claims \cup {"hold"}
       /\ balance' = balance - Hold
       /\ frozen' = frozen + Hold
       /\ UNCHANGED funds

\* ErrBatchImageInsufficientBalance: the claim is rolled back.
ReserveRefused == "hold" \notin claims /\ balance < Hold

\* Mutation: the claim does not keep a capture from being applied again.
CaptureTwice(cost) ==
    /\ cost <= Hold /\ frozen >= Hold
    /\ claims' = claims \cup {"capture"}
    /\ balance' = balance + (Hold - cost)
    /\ frozen' = frozen - Hold
    /\ UNCHANGED funds

\* What the job costs is taken from its hold and the rest goes back.  Nothing
\* asks for the hold's own claim, or whether the hold has been released.
CaptureBatchImageBalance(cost) ==
    \/ "capture" \in claims /\ UNCHANGED ledger
    \/ /\ "capture" \notin claims
       /\ cost <= Hold
       /\ frozen >= Hold
       /\ claims' = claims \cup {"capture"}
       /\ balance' = balance + (Hold - cost)
       /\ frozen' = frozen - Hold
       /\ UNCHANGED funds

CaptureRefused(cost) == "capture" \notin claims /\ (cost > Hold \/ frozen < Hold)

\* Mutation: the hold's own claim is not asked for.
PhantomRelease ==
    \/ "release" \in claims /\ UNCHANGED ledger
    \/ /\ "release" \notin claims
       /\ frozen >= Hold
       /\ claims' = claims \cup {"release"}
       /\ balance' = balance + Hold
       /\ frozen' = frozen - Hold
       /\ UNCHANGED funds

\* A job that has no hold is released without effect, but the claim stays.
ReleaseBatchImageBalance ==
    \/ "release" \in claims /\ UNCHANGED ledger
    \/ /\ "release" \notin claims /\ "hold" \notin claims
       /\ claims' = claims \cup {"release"}
       /\ UNCHANGED <<balance, frozen, funds>>
    \/ /\ "release" \notin claims /\ "hold" \in claims
       /\ frozen >= Hold
       /\ claims' = claims \cup {"release"}
       /\ balance' = balance + Hold
       /\ frozen' = frozen - Hold
       /\ UNCHANGED funds

ReleaseRefused == "release" \notin claims /\ "hold" \in claims /\ frozen < Hold

=============================================================================
