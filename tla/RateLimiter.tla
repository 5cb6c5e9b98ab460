----------------------------- MODULE RateLimiter -----------------------------
(***************************************************************************)
(* The process-local attempt limiter of core/rate_limit.py and the three   *)
(* ways the services call it.                                              *)
(*                                                                         *)
(*   - GuardedKeys: retry_after and hit run with no await between them     *)
(*     (forgot_password, init_upload, submit_inquiry, the OAuth start).    *)
(*   - AttemptKeys: register and login await the database between          *)
(*     retry_after and hit, so several requests can be let in on one       *)
(*     count; a successful login clears the bucket instead of hitting it.  *)
(*   - CooldownKeys: resend_verification checks and hits, change_email     *)
(*     hits without checking.                                              *)
(*                                                                         *)
(* Time is counted in ticks, Second of them to a second of the clock.      *)
(***************************************************************************)
EXTENDS Integers, FiniteSets

CONSTANTS
  GuardedKeys, AttemptKeys, CooldownKeys,
  Caller,      \* requests that can be between their check and their hit
  NoKey,        \* what letIn holds for a request that is not
  MaxAttempts,  \* the limit of each key
  Window,       \* the window of each key, in ticks
  Second,       \* ticks per second
  Horizon       \* bound: the last tick of a run

Key == GuardedKeys \cup AttemptKeys \cup CooldownKeys

ASSUME LimitsAssumption ==
  /\ MaxAttempts \in [Key -> Nat \ {0}]
  /\ Window \in [Key -> Nat \ {0}]
  /\ Second \in Nat \ {0}
  /\ Horizon \in Nat
  /\ IsFiniteSet(Caller)

ASSUME KeysAssumption ==
  /\ GuardedKeys \cap AttemptKeys = {}
  /\ GuardedKeys \cap CooldownKeys = {}
  /\ AttemptKeys \cap CooldownKeys = {}
  /\ NoKey \notin Key

VARIABLES
  now,      \* time.monotonic(), in ticks
  buckets,  \* key -> its _Bucket; a key without an entry has count 0
  letIn,    \* request -> the key whose check it has passed, awaiting the hit
  admitted, \* history: key -> the CheckAndHit let in, each when, in which window
            \* and the how manieth
  promised  \* history: key -> the tick a refusal told its caller to wait for

limiter == <<now, buckets, letIn, admitted, promised>>

NoPromise == -1
NoBucket == [count |-> 0, window_start |-> 0]

Expired(k) == now - buckets[k].window_start >= Window[k]

(* Mutant of Refused: one attempt too many.                                *)
RefusedPastLimit(k) ==
  /\ buckets[k].count > MaxAttempts[k]
  /\ ~Expired(k)

(* retry_after: a key is refused while its unexpired bucket is full.       *)
Refused(k) ==
  /\ buckets[k].count >= MaxAttempts[k]
  /\ ~Expired(k)

(* Mutant of RetryAfter: the part of the window that is over.              *)
RetryAfterElapsed(k) ==
  LET elapsed == (now - buckets[k].window_start) \div Second
  IN  IF elapsed > 1 THEN elapsed ELSE 1

(* The wait in whole seconds: the remainder truncated, at least one.       *)
RetryAfter(k) ==
  LET remaining == (Window[k] - (now - buckets[k].window_start)) \div Second
  IN  IF remaining > 1 THEN remaining ELSE 1

(* retry_after also drops a bucket whose window is over.                   *)
AfterCheck(k) == IF Expired(k) THEN NoBucket ELSE buckets[k]

(* hit: the first attempt after a window opens a new one.                  *)
AfterHit(k) ==
  IF buckets[k].count = 0 \/ Expired(k)
  THEN [count |-> 1, window_start |-> now]
  ELSE [buckets[k] EXCEPT !.count = @ + 1]

Admission(k) ==
  [at |-> now, window |-> AfterHit(k).window_start, nth |-> Cardinality(admitted[k]) + 1]

NoteAdmitted(k) ==
  /\ admitted' = [admitted EXCEPT ![k] = @ \cup {Admission(k)}]
  /\ promised' = [promised EXCEPT ![k] = NoPromise]

LimiterInit ==
  /\ now = 0
  /\ buckets = [k \in Key |-> NoBucket]
  /\ letIn = [r \in Caller |-> NoKey]
  /\ admitted = [k \in Key |-> {}]
  /\ promised = [k \in Key |-> NoPromise]

(* A caller that checks and hits in one uninterrupted run of the loop.     *)
CheckAndHit(k) ==
  /\ k \in GuardedKeys \cup CooldownKeys
  /\ ~Refused(k)
  /\ buckets' = [buckets EXCEPT ![k] = AfterHit(k)]
  /\ NoteAdmitted(k)
  /\ UNCHANGED <<now, letIn>>

(* The first half of register and login: the check, before the awaits.     *)
CheckAttempt(r, k) ==
  /\ k \in AttemptKeys
  /\ letIn[r] = NoKey
  /\ ~Refused(k)
  /\ buckets' = [buckets EXCEPT ![k] = AfterCheck(k)]
  /\ letIn' = [letIn EXCEPT ![r] = k]
  /\ UNCHANGED <<now, admitted, promised>>

(* A refused caller answers 429 with the wait and changes nothing; what a  *)
(* caller of a guarded key was told is kept beside the state.              *)
TellWait(k) ==
  /\ k \in GuardedKeys
  /\ Refused(k)
  /\ promised' = [promised EXCEPT ![k] = now + Second * RetryAfter(k)]
  /\ UNCHANGED <<now, buckets, letIn, admitted>>

(* register whatever its outcome, login with wrong credentials.            *)
HitAttempt(r) ==
  /\ letIn[r] # NoKey
  /\ buckets' = [buckets EXCEPT ![letIn[r]] = AfterHit(letIn[r])]
  /\ letIn' = [letIn EXCEPT ![r] = NoKey]
  /\ UNCHANGED <<now, admitted, promised>>

(* login with the right credentials.                                       *)
ClearAttempt(r) ==
  /\ letIn[r] # NoKey
  /\ buckets' = [buckets EXCEPT ![letIn[r]] = NoBucket]
  /\ letIn' = [letIn EXCEPT ![r] = NoKey]
  /\ UNCHANGED <<now, admitted, promised>>

(* A request ends between its check and its hit: its database call failed. *)
DropAttempt(r) ==
  /\ letIn[r] # NoKey
  /\ letIn' = [letIn EXCEPT ![r] = NoKey]
  /\ UNCHANGED <<now, buckets, admitted, promised>>

(* change_email counts against the resend cooldown and is not held by it.  *)
HitUnchecked(k) ==
  /\ k \in CooldownKeys
  /\ buckets[k].count <= MaxAttempts[k]  \* bound on the count
  /\ buckets' = [buckets EXCEPT ![k] = AfterHit(k)]
  /\ UNCHANGED <<now, letIn, admitted, promised>>

Tick ==
  /\ now < Horizon
  /\ now' = now + 1
  /\ UNCHANGED <<buckets, letIn, admitted, promised>>

(* The process restarts: buckets, requests and this process's history go.  *)
Restart ==
  /\ buckets' = [k \in Key |-> NoBucket]
  /\ letIn' = [r \in Caller |-> NoKey]
  /\ admitted' = [k \in Key |-> {}]
  /\ promised' = [k \in Key |-> NoPromise]
  /\ UNCHANGED now

LimiterNext ==
  \/ \E k \in Key : CheckAndHit(k) \/ TellWait(k) \/ HitUnchecked(k)
  \/ \E r \in Caller, k \in Key : CheckAttempt(r, k)
  \/ \E r \in Caller : HitAttempt(r) \/ ClearAttempt(r) \/ DropAttempt(r)
  \/ Tick
  \/ Restart

LimiterSpec == LimiterInit /\ [][LimiterNext]_limiter
-----------------------------------------------------------------------------
Bucket == [count : Nat, window_start : 0..Horizon]

(* Type invariant of the limiter's table and of the history beside it.     *)
LimiterTypeOK ==
  /\ now \in 0..Horizon
  /\ buckets \in [Key -> Bucket]
  /\ letIn \in [Caller -> AttemptKeys \cup {NoKey}]
  /\ admitted \in [Key -> SUBSET [at : 0..Horizon, window : 0..Horizon, nth : Nat]]
  /\ \A k \in Key : IsFiniteSet(admitted[k])
  /\ promised \in [Key -> Int]

InFlight(k) == {r \in Caller : letIn[r] = k}

(* register and login read the count before awaiting the database and add  *)
(* to it afterwards: the count passes the limit, but by no more than the   *)
(* requests that can be in that gap, the one that filled it excepted.      *)
AttemptOvershoot ==
  \A k \in AttemptKeys :
    buckets[k].count + Cardinality(InFlight(k))
      <= MaxAttempts[k] - 1 + Cardinality(Caller)

AdmittedIn(k, from, to) == {e \in admitted[k] : from <= e.at /\ e.at <= to}

(* The window is fixed, not sliding, so a stretch of Window ticks can meet *)
(* two of them: a key checked and hit in one go lets in at most twice its  *)
(* limit in any such stretch.  For a cooldown key this holds although      *)
(* change_email also adds to the count.                                    *)
TwoWindowsBound ==
  \A k \in GuardedKeys \cup CooldownKeys, t \in 0..now :
    Cardinality(AdmittedIn(k, t, t + Window[k] - 1)) <= 2 * MaxAttempts[k]

(* The Retry-After of a 429 is truncated to whole seconds: a caller of a   *)
(* guarded key that waits it out and one second more is let in, whatever   *)
(* happened to the key meanwhile, unless another caller took its turn.     *)
PromiseKept ==
  \A k \in GuardedKeys :
    promised[k] # NoPromise /\ now >= promised[k] + Second => ~Refused(k)
=============================================================================
