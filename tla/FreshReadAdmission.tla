------------------------- MODULE FreshReadAdmission -------------------------
(***************************************************************************)
(* Admission of signed fresh reads at the edge                             *)
(* (src/cloudflare-fresh-read-admission.mjs).  The edge issues a receipt   *)
(* for a recovery challenge; the wallet signs it and sends it back once.   *)
(* A request is verified, awaits its cryptography, and is decided by one   *)
(* storage transaction, which verifies it again, refuses a used            *)
(* authorization, throttles without using it up, and otherwise records it. *)
(* Only a bounded list of unexpired authorizations is kept.                *)
(*                                                                         *)
(* The clock counts milliseconds in a coarser unit, Unit of which make a   *)
(* second.  It may be set to anything at any moment: Durable Objects move. *)
(* Receipts and signatures are valid exactly for what was issued.          *)
(***************************************************************************)
EXTENDS Integers, FiniteSets

CONSTANTS
    Authorizations,             \* challenge messages, by their digest
    Unit,                       \* clock units of one second
    Interval,                   \* minimumIntervalMs, whole seconds
    Lifetime, Skew,             \* challengeLifetimeSeconds, maximumClockSkewSeconds
    MaxTime                     \* bound of the exploration

ASSUME UnitAssumption == Unit \in Nat \ {0}
ASSUME IntervalAssumption == Interval \in Nat \ {0} /\ Interval % Unit = 0
ASSUME LifetimeAssumption == Lifetime \in Nat \ {0} /\ Skew \in Nat /\ MaxTime \in Nat

VARIABLES
    now,         \* Date.now()
    key,         \* the HMAC key is in storage
    expiresAt,   \* expiry of each issued challenge, in seconds
    verifying,   \* requests between their verification and their transaction
    notBefore,   \* fresh-read not-before
    used,        \* used authorizations
    admitted     \* how often each authorization was admitted

vars == <<now, key, expiresAt, verifying, notBefore, used, admitted>>

NotIssued == -1
Never == -1

TypeOK ==
    /\ now \in Nat
    /\ key \in BOOLEAN
    /\ expiresAt \in [Authorizations -> Nat \cup {NotIssued}]
    /\ verifying \subseteq Authorizations
    /\ notBefore \in Nat \cup {Never}
    /\ used \subseteq Authorizations
    /\ admitted \in [Authorizations -> Nat]

Init ==
    /\ now = 0
    /\ key = FALSE
    /\ expiresAt = [a \in Authorizations |-> NotIssued]
    /\ verifying = {}
    /\ notBefore = Never
    /\ used = {}
    /\ admitted = [a \in Authorizations |-> 0]

Seconds(time) == time \div Unit

\* Neither issued in the future nor expired.
Active(expiry) ==
    /\ expiry - Lifetime <= Seconds(now) + Skew
    /\ Seconds(now) <= expiry

-----------------------------------------------------------------------------
\* issueReceipt, which creates the key once.
IssueReceipt(a, expiry) ==
    /\ expiresAt[a] = NotIssued
    /\ expiry > Lifetime /\ Active(expiry)
    /\ expiresAt' = [expiresAt EXCEPT ![a] = expiry]
    /\ key' = TRUE
    /\ UNCHANGED <<now, verifying, notBefore, used, admitted>>

\* admit up to its transaction: challenge, receipt and signature are good.
Verify(a) ==
    /\ expiresAt[a] # NotIssued
    /\ Active(expiresAt[a])
    /\ key
    /\ verifying' = verifying \cup {a}
    /\ UNCHANGED <<now, key, expiresAt, notBefore, used, admitted>>

-----------------------------------------------------------------------------
(* commitAdmission *)

\* Bug: an entry is pruned in the second in which its challenge is still good.
UnexpiredStrictly == {a \in used : expiresAt[a] > Seconds(now)}

\* Bug: expired authorizations are kept, and their places are never free again.
NeverPruned == used

Unexpired == {a \in used : expiresAt[a] >= Seconds(now)}

\* The clock went back behind the last admission.
ClockBehind == notBefore # Never /\ notBefore > now + Interval

\* An entry that no clock behind it could have written.
EntriesPlausible == \A a \in used : expiresAt[a] <= Seconds(now) + Lifetime + Skew + 1

Throttled == notBefore # Never /\ now < notBefore

\* ceil((lifetime + skew + 1) * 1000 / interval) + 1
MaxUsed == (((Lifetime + Skew + 1) * Unit + Interval - 1) \div Interval) + 1
Full == Cardinality(Unexpired) >= MaxUsed

\* The request is verified again with the clock of the transaction.
Sound(a) == Active(expiresAt[a]) /\ ~ClockBehind /\ EntriesPlausible /\ Cardinality(used) <= MaxUsed

Replayed(a) == a \in Unexpired

Throttle(a) ==
    /\ Sound(a) /\ ~Replayed(a) /\ Throttled
    /\ used' = Unexpired
    /\ UNCHANGED <<notBefore, admitted>>

NotBefore == now + Interval

Admit(a) ==
    /\ Sound(a) /\ ~Replayed(a) /\ ~Throttled /\ ~Full
    /\ notBefore' = NotBefore
    /\ used' = Unexpired \cup {a}
    /\ admitted' = [admitted EXCEPT ![a] = @ + 1]

Refuse(a) ==
    /\ ~Sound(a) \/ Replayed(a) \/ (~Throttled /\ Full)
    /\ UNCHANGED <<notBefore, used, admitted>>

\* A copy of the same request may still be on its way.
Commit(a) ==
    /\ a \in verifying
    /\ Throttle(a) \/ Admit(a) \/ Refuse(a)
    /\ verifying' \in {verifying, verifying \ {a}}
    /\ UNCHANGED <<now, key, expiresAt>>

\* The requests under way are lost; the storage is kept.
Restart ==
    /\ verifying' = {}
    /\ UNCHANGED <<now, key, expiresAt, notBefore, used, admitted>>

SetClock(time) ==
    /\ now' = time
    /\ UNCHANGED <<key, expiresAt, verifying, notBefore, used, admitted>>

Next ==
    \/ \E a \in Authorizations, expiry \in 0..(MaxTime + Lifetime) : IssueReceipt(a, expiry)
    \/ \E a \in Authorizations : Verify(a) \/ Commit(a)
    \/ \E time \in 0..MaxTime : SetClock(time)
    \/ Restart

Spec == Init /\ [][Next]_vars

-----------------------------------------------------------------------------
(* Properties *)

\* An authorization is admitted once, for ever: copies, restarts, pruning, a
\* throttled attempt and a clock set back and forth do not bring it back.
AdmittedOnce == \A a \in Authorizations : admitted[a] <= 1

\* However the clock is set, n admissions move not-before by n intervals: the
\* edge never admits more fresh reads than its clock has room for.
Admitted == {a \in Authorizations : admitted[a] > 0}
Paced == notBefore # Never => Cardinality(Admitted) * Interval <= notBefore

\* The list never fills up and never looks corrupt at the moment an admission
\* is due: its computed size is enough for every schedule of admissions.
RoomEnough ==
    (notBefore # Never /\ now >= notBefore) =>
        /\ Cardinality(Unexpired) < MaxUsed
        /\ EntriesPlausible
        /\ Cardinality(used) <= MaxUsed
=============================================================================
