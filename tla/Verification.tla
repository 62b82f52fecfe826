---------------------------- MODULE Verification ----------------------------
(***************************************************************************)
(* The verification codes of one user for one address (e-mail or phone):   *)
(* requests that send a code and requests that verify one, each a series   *)
(* of statements of its own, interleaved with the others and with the      *)
(* clock.                                                                  *)
(*                                                                         *)
(* CreateCodeReplacingActive and VerifyCode are READ COMMITTED             *)
(* transactions.  Their first statement takes a snapshot and then waits    *)
(* for the rows other transactions have locked; a row that comes free is   *)
(* looked at again, a row that is new is not.  So each is two steps here:  *)
(* the snapshot (the "view"), and everything else at once.                 *)
(***************************************************************************)
EXTENDS Integers, Sequences, FiniteSets

CONSTANTS
  Senders,      \* requests that send, as many as run at the same time
  Verifiers,    \* requests that verify, likewise
  CodeTTL,      \* EmailCodeTTL (15 min), PhoneCodeTTL (5 min)
  Cooldown,     \* ResendCooldown (60 s)
  Hour,
  MaxSends,     \* MaxSendsPerHour (5)
  MaxTries,     \* MaxVerificationTries (5)
  MaxTime       \* bound: the clock stops here

ASSUME VerificationAssumption ==
  /\ IsFiniteSet(Senders)
  /\ {CodeTTL, Cooldown, Hour, MaxSends, MaxTries, MaxTime} \subseteq Nat \ {0}

VARIABLES
  now,        \* the clock of the service and of the database
  verified,   \* users.email_verified, users.phone_verified
  codes,      \* verification_codes, in the order of the commits
  send,       \* the sending requests
  verify      \* the verifying requests

(***************************************************************************)
(* History variable: who created a code, and how often it was compared     *)
(* with a wrong and with the right input.                                  *)
(***************************************************************************)
VARIABLE fate

vars == <<now, verified, codes, send, verify, fate>>

Ids == DOMAIN codes

\* The rows of a query WHERE used = FALSE AND expires_at > NOW().
Active == {i \in Ids : ~codes[i].used /\ codes[i].expires > now}

CreatedSince(t) == {i \in Ids : codes[i].created >= t}

SIdle == [pc |-> "idle", at |-> 0, began |-> 0, view |-> {}, row |-> 0]
VIdle == [pc |-> "idle", view |-> {}]

Init ==
  /\ now = 0
  /\ verified = FALSE
  /\ codes = <<>> /\ fate = <<>>
  /\ send = [s \in Senders |-> SIdle]
  /\ verify = [v \in Verifiers |-> VIdle]

Tick ==
  /\ now < MaxTime
  /\ now' = now + 1
  /\ UNCHANGED <<verified, codes, send, verify, fate>>

-----------------------------------------------------------------------------
(***************************************************************************)
(* sendCode                                                                *)
(***************************************************************************)

Goto(s, from, to) ==
  /\ send[s].pc = from
  /\ send' = [send EXCEPT ![s].pc = to]

\* GetVerificationTarget; an address is configured and valid.
ReadTarget(s) ==
  /\ ~verified
  /\ Goto(s, "idle", "target")
  /\ UNCHANGED <<now, verified, codes, verify, fate>>

ReadClock(s) ==
  /\ send[s].pc = "target"
  /\ send' = [send EXCEPT ![s].pc = "clock", ![s].at = now]
  /\ UNCHANGED <<now, verified, codes, verify, fate>>

\* Mutant of GetLastCodeCreatedAt: the cooldown is not enforced.
GetLastCodeCreatedAt_Any(s) ==
  /\ Goto(s, "clock", "cooled")
  /\ UNCHANGED <<now, verified, codes, verify, fate>>

\* No code is younger than the cooldown.
GetLastCodeCreatedAt(s) ==
  /\ \A i \in Ids : send[s].at - codes[i].created >= Cooldown
  /\ Goto(s, "clock", "cooled")
  /\ UNCHANGED <<now, verified, codes, verify, fate>>

\* Mutant of CountCodesCreatedSince: one code too many.
CountCodesCreatedSince_OneMore(s) ==
  /\ Cardinality(CreatedSince(send[s].at - Hour)) <= MaxSends
  /\ Goto(s, "cooled", "counted")
  /\ UNCHANGED <<now, verified, codes, verify, fate>>

\* Fewer codes than allowed were created in the last hour.
CountCodesCreatedSince(s) ==
  /\ Cardinality(CreatedSince(send[s].at - Hour)) < MaxSends
  /\ Goto(s, "cooled", "counted")
  /\ UNCHANGED <<now, verified, codes, verify, fate>>

\* CreateCodeReplacingActive begins, and its UPDATE takes its snapshot.
BeginCreate(s) ==
  /\ send[s].pc = "counted"
  /\ send' = [send EXCEPT ![s].pc = "creating", ![s].began = now, ![s].view = Active]
  /\ UNCHANGED <<now, verified, codes, verify, fate>>

\* Mutant of CommitCreate: the active codes are not replaced.
CommitCreate_Keeps(s) ==
  /\ send[s].pc = "creating"
  /\ codes' = Append(codes, [created |-> send[s].began, expires |-> send[s].at + CodeTTL,
                             attempts |-> 0, used |-> FALSE])
  /\ fate' = Append(fate, [by |-> s, wrong |-> 0, right |-> 0])
  /\ send' = [send EXCEPT ![s] = [SIdle EXCEPT !.pc = "sending", !.row = Len(codes) + 1]]
  /\ UNCHANGED <<now, verified, verify>>

\* It marks the rows it saw as used, inserts the new one and commits.
CommitCreate(s) ==
  /\ send[s].pc = "creating"
  /\ codes' = Append([i \in Ids |-> [codes[i] EXCEPT !.used = @ \/ i \in send[s].view]],
                     [created |-> send[s].began, expires |-> send[s].at + CodeTTL,
                      attempts |-> 0, used |-> FALSE])
  /\ fate' = Append(fate, [by |-> s, wrong |-> 0, right |-> 0])
  /\ send' = [send EXCEPT ![s] = [SIdle EXCEPT !.pc = "sending", !.row = Len(codes) + 1]]
  /\ UNCHANGED <<now, verified, verify>>

\* The code could not be delivered: MarkCodeUsed.
MarkCodeUsed(s) ==
  /\ send[s].pc = "sending"
  /\ codes' = [codes EXCEPT ![send[s].row].used = TRUE]
  /\ send' = [send EXCEPT ![s] = SIdle]
  /\ UNCHANGED <<now, verified, verify, fate>>

\* The request ends: the code was delivered, a check or a statement failed, or
\* the caller went away (then MarkCodeUsed fails, too, for it has his context).
SendEnds(s) ==
  /\ send[s].pc # "idle"
  /\ send' = [send EXCEPT ![s] = SIdle]
  /\ UNCHANGED <<now, verified, codes, verify, fate>>

-----------------------------------------------------------------------------
(***************************************************************************)
(* VerifyCode                                                              *)
(***************************************************************************)

\* SELECT ... FOR UPDATE takes its snapshot.
BeginVerify(v) ==
  /\ verify[v].pc = "idle"
  /\ Active # {}
  /\ verify' = [verify EXCEPT ![v] = [pc |-> "locking", view |-> Active]]
  /\ UNCHANGED <<now, verified, codes, send, fate>>

Newest(S) == {i \in S : \A j \in S : codes[j].created <= codes[i].created}

\* The rest of the transaction, once the newest row of view is locked.
Compare(i, right) ==
  LET attempts == codes[i].attempts + 1
  IN  IF right
      THEN /\ codes' = [codes EXCEPT ![i].used = TRUE, ![i].attempts = attempts]
           /\ fate' = [fate EXCEPT ![i].right = @ + 1]
           /\ verified' = TRUE
      ELSE /\ codes' = [codes EXCEPT ![i].used = @ \/ attempts >= MaxTries,
                                     ![i].attempts = attempts]
           /\ fate' = [fate EXCEPT ![i].wrong = @ + 1]
           /\ UNCHANGED verified

\* Mutant of Check: the row is not looked at again after the wait.
Check_Stale(v) ==
  /\ verify[v].pc = "locking"
  /\ \E i \in Newest(verify[v].view), right \in BOOLEAN : Compare(i, right)
  /\ verify' = [verify EXCEPT ![v] = VIdle]
  /\ UNCHANGED <<now, send>>

\* The input is compared with the newest row of the snapshot that is still
\* unused.
Check(v) ==
  /\ verify[v].pc = "locking"
  /\ \E i \in Newest({j \in verify[v].view : ~codes[j].used}), right \in BOOLEAN :
       Compare(i, right)
  /\ verify' = [verify EXCEPT ![v] = VIdle]
  /\ UNCHANGED <<now, send>>

\* No row is left, or the transaction fails.
VerifyEnds(v) ==
  /\ verify[v].pc = "locking"
  /\ verify' = [verify EXCEPT ![v] = VIdle]
  /\ UNCHANGED <<now, verified, codes, send, fate>>

-----------------------------------------------------------------------------
Next ==
  \/ Tick
  \/ \E s \in Senders :
       \/ ReadTarget(s) \/ ReadClock(s)
       \/ GetLastCodeCreatedAt(s) \/ CountCodesCreatedSince(s)
       \/ BeginCreate(s) \/ CommitCreate(s)
       \/ MarkCodeUsed(s) \/ SendEnds(s)
  \/ \E v \in Verifiers : BeginVerify(v) \/ Check(v) \/ VerifyEnds(v)

Spec == Init /\ [][Next]_vars

-----------------------------------------------------------------------------
(***************************************************************************)
(* Properties                                                              *)
(***************************************************************************)

Code == [created : Nat, expires : Nat, attempts : 0..MaxTries, used : BOOLEAN]
Fate == [by : Senders, wrong : Nat, right : Nat]

TypeOK ==
  /\ now \in 0..MaxTime
  /\ verified \in BOOLEAN
  /\ codes \in Seq(Code)
  /\ send \in [Senders ->
       [pc : {"idle", "target", "clock", "cooled", "counted", "creating", "sending"},
        at : 0..MaxTime, began : 0..MaxTime, view : SUBSET Ids, row : Nat]]
  /\ \A s \in Senders : send[s].pc = "sending" => send[s].row \in Ids
  /\ verify \in [Verifiers -> [pc : {"idle", "locking"}, view : SUBSET Ids]]
  /\ fate \in Seq(Fate) /\ Len(fate) = Len(codes)

\* However many inputs are compared at the same time, a code is compared at
\* most MaxTries times and accepted at most once.
CodeIsScarce ==
  \A i \in Ids : fate[i].wrong + fate[i].right <= MaxTries /\ fate[i].right <= 1

At(s, pcs) == send[s].pc \in pcs

\* The checks and the insertion are not one transaction, so requests running
\* at once can pass the hourly limit: by one less than there are of them.
SendsAreLimited ==
  Cardinality(CreatedSince(now - Hour)) <= MaxSends - 1 + Cardinality(Senders)

\* Likewise the cooldown lets at most as many codes through as requests run
\* at once.
BurstIsLimited ==
  Cardinality(CreatedSince(now - Cooldown + 1)) <= Cardinality(Senders)

\* Two requests that do not see each other's code both leave theirs active,
\* but of one caller's codes, sent one after the other, only the last is: so
\* there are never more live codes than requests that run at once.
SupersededIsDead ==
  \A i, j \in Ids : i < j /\ fate[i].by = fate[j].by => i \notin Active

=============================================================================
