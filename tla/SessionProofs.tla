-------------------------- MODULE SessionProofs --------------------------
(***************************************************************************)
(* What holds of the Twitch session for any number of accounts, logins,    *)
(* callers, proofs, logouts and crashes: no superseded operation installs  *)
(* its context, a request in flight carries the context in memory, and     *)
(* Session implements AbstractSession.                                     *)
(*                                                                         *)
(* The argument.  The controller's lock is held from the issuer's call to  *)
(* the end of an operation, so at most one operation has a context that is *)
(* not installed yet (Holding), and memory changes at the hand of the      *)
(* holder only: what a renewal read when it began is still true when it    *)
(* commits (Renewing).  A superseded operation noted an older epoch        *)
(* (Superseding).  The session's lock is held while a request is in flight *)
(* (Sending).                                                              *)
(***************************************************************************)
EXTENDS Session, TLAPS

Held == {"issue", "check", "twitch", "save", "cookies"}

Record == [ctx : Contexts \cup {None}, gen : Nat, out : BOOLEAN]

Operation == [pc : {"idle", "lock", "gather"} \cup Held, epoch : Nat,
              ctx : Contexts \cup {None}, acct : Accounts \cup {None}, gen : Nat,
              seen : Record, late : BOOLEAN,
              result : {"none", "ok", "error", "relogin", "cancelled"}]

Call == [pc : {"idle", "auth", "restore", "pend", "wait", "send", "request"},
         user : Accounts \cup {None}, pending : BOOLEAN, sent : Contexts \cup {None}]

\* What is in the file is what is in memory: nothing awaits between the two.
Types ==
    /\ disk = mem /\ mem \in Record
    /\ op \in [Ops -> Operation]
    /\ holder \in Ops \cup {None}
    /\ epoch \in Nat /\ stopping \in BOOLEAN
    /\ proofs \in Nat /\ expired \in Nat

Flags ==
    /\ {identity, restore, rejected, updated, wake, force} \subseteq BOOLEAN
    /\ worker \in {"idle", "sleep", "renewing", "relogin", "retry", "ended"}

\* Numbers: a session per proof at most, an epoch per logout and one for the stop.
Counting ==
    /\ mem.gen <= proofs /\ proofs <= MaxProofs
    /\ mem.ctx = None <=> mem.gen = 0
    /\ mem.out => mem.ctx = None
    /\ \A o \in Ops : op[o].ctx # None => mem.gen < proofs
    /\ epoch <= MaxLogouts + 1 /\ (~stopping => epoch <= MaxLogouts)

\* Who is past the lock holds it, and only that operation has a context to install.
Holding ==
    \A o \in Ops :
        /\ op[o].pc \in Held <=> holder = o
        /\ op[o].ctx # None <=> op[o].pc \in {"check", "twitch"}
        /\ op[o].pc \in {"gather", "save", "cookies"} => o = "logout"
        /\ o = "logout" => op[o].pc \in {"idle", "gather", "save", "cookies"}

\* What a logout or a stop superseded began in an older epoch.
Superseding ==
    \A o \in Ops : /\ op[o].epoch <= epoch
                   /\ op[o].late => op[o].epoch < epoch

\* A renewal is of the session in memory, and the worker waits for it.
Renewing ==
    /\ op["renew"].pc \in {"issue", "check", "twitch"} =>
          mem.ctx # None /\ mem.ctx.acct = op["renew"].acct
    /\ op["renew"].pc \in {"check", "twitch"} => op["renew"].ctx.acct = op["renew"].acct
    /\ worker \in {"idle", "sleep", "relogin", "retry"} => op["renew"].pc = "idle"

OpInv == Types /\ Counting /\ Holding /\ Superseding /\ Renewing

\* The session's lock is held while Twitch is asked, and memory stays as it was sent.
Sending ==
    /\ caller \in [Callers -> Call]
    /\ keeper \in Callers \cup {None}
    /\ \A c \in Callers :
          /\ caller[c].pc \in {"restore", "request"} => keeper = c
          /\ caller[c].pc = "request" => /\ caller[c].sent = mem.ctx /\ mem.ctx # None
                                         /\ caller[c].user = mem.ctx.acct

Inv == OpInv /\ Flags /\ Sending
----------------------------------------------------------------------------
(* The operations.                                                         *)

LEMMA NoOpIs ==
    /\ NoOp \in Operation
    /\ NoOp.pc = "idle" /\ NoOp.ctx = None /\ NoOp.epoch = 0 /\ NoOp.late = FALSE
BY DEF NoOp, NoSession, Operation, Record, Held

LEMMA BegunIs ==
    ASSUME epoch \in Nat
    PROVE  /\ Begun \in Operation
           /\ Begun.pc = "lock" /\ Begun.ctx = None /\ Begun.epoch = epoch
           /\ Begun.late = FALSE
BY DEF Begun, NoOp, NoSession, Operation, Record, Held

\* An operation that ends, however it does, leaves what it had not installed.
LEMMA FinishKeeps ==
    ASSUME OpInv, NEW o \in Ops,
           NEW r \in {"none", "ok", "error", "relogin", "cancelled"}, Finish(o, r),
           UNCHANGED <<mem, disk, control, worker, world>>
    PROVE  OpInv'
<1> USE DEF Finish, NoOp, NoSession, control, world
<1>1. Types'
  BY DEF OpInv, Types, Operation, Record, Ops
<1>2. Counting'
  BY DEF OpInv, Types, Counting, Ops, Operation
<1>3. Holding'
  BY SessionAssumption DEF OpInv, Types, Holding, Held, Ops, Operation
<1>4. Superseding'
  BY DEF OpInv, Types, Superseding, Ops, Operation
<1>5. Renewing'
  BY DEF OpInv, Types, Renewing, Ops, Operation
<1> QED BY <1>1, <1>2, <1>3, <1>4, <1>5 DEF OpInv

\* A login, and the worker's next renewal, begin without a context.
LEMMA StartLoginKeeps ==
    ASSUME OpInv, NEW o \in Logins, StartLogin(o)
    PROVE  OpInv'
<1>0. epoch \in Nat
  BY DEF OpInv, Types
<1> USE <1>0, BegunIs DEF StartLogin, file, work, control, world
<1>1. Types'
  BY DEF OpInv, Types, Ops
<1>2. Counting'
  BY DEF OpInv, Types, Counting, Ops, Operation
<1>3. Holding'
  BY SessionAssumption DEF OpInv, Types, Holding, Held, Ops, Operation
<1>4. Superseding'
  <2>1. \A p \in Ops : \/ op'[p] = op[p]
                       \/ op'[p].epoch \in {0, epoch} /\ ~op'[p].late
    BY DEF OpInv, Types, Ops
  <2> QED BY <2>1 DEF OpInv, Superseding
<1>5. Renewing'
  BY SessionAssumption DEF OpInv, Types, Renewing, Ops, Operation
<1> QED BY <1>1, <1>2, <1>3, <1>4, <1>5 DEF OpInv

LEMMA WorkerLooksKeeps ==
    ASSUME OpInv, op["renew"].pc = "idle", NEW forced \in BOOLEAN, WorkerLooks(forced),
           UNCHANGED <<mem, disk, holder, control, world>>
    PROVE  OpInv'
<1>0. epoch \in Nat
  BY DEF OpInv, Types
<1> USE <1>0, BegunIs, NoOpIs DEF WorkerLooks, control, world
<1>1. Types'
  BY DEF OpInv, Types, Ops
<1>2. Counting'
  BY DEF OpInv, Types, Counting, Ops, Operation
<1>3. Holding'
  BY SessionAssumption DEF OpInv, Types, Holding, Held, Ops, Operation
<1>4. Superseding'
  <2>1. \A p \in Ops : \/ op'[p] = op[p]
                       \/ op'[p].epoch \in {0, epoch} /\ ~op'[p].late
    BY DEF OpInv, Types, Ops
  <2> QED BY <2>1 DEF OpInv, Superseding
<1>5. Renewing'
  BY SessionAssumption DEF OpInv, Types, Renewing, Ops, Operation
<1> QED BY <1>1, <1>2, <1>3, <1>4, <1>5 DEF OpInv

LEMMA WorkerHearsKeeps ==
    ASSUME OpInv, Flags, WorkerHears
    PROVE  OpInv'
<1>1. CASE WorkerLooks(force)
  BY <1>1, WorkerLooksKeeps DEF WorkerHears, Flags, file
<1>2. CASE /\ worker' \in {"retry", "relogin"}
           /\ op' = [op EXCEPT !["renew"] = NoOp]
  <2> USE <1>2, NoOpIs DEF WorkerHears, control, world, file
  <2>1. Types'
    BY DEF OpInv, Types, Ops
  <2>2. Counting'
    BY DEF OpInv, Types, Counting, Ops, Operation
  <2>3. Holding'
    BY SessionAssumption DEF OpInv, Types, Holding, Held, Ops, Operation
  <2>4. Superseding'
    BY DEF OpInv, Types, Superseding, Ops, Operation
  <2>5. Renewing'
    BY SessionAssumption DEF OpInv, Types, Renewing, Ops, Operation
  <2> QED BY <2>1, <2>2, <2>3, <2>4, <2>5 DEF OpInv
<1> QED BY <1>1, <1>2 DEF WorkerHears

LEMMA AcquireKeeps ==
    ASSUME OpInv, NEW o \in Ops, Acquire(o)
    PROVE  OpInv'
<1>1. CASE ~Admitted(o)
  BY <1>1, FinishKeeps DEF Acquire, file, work
<1>2. CASE Admitted(o)
  <2> USE <1>2 DEF Acquire, Admitted, Current, Seed, control, world, file, work
  <2> DEFINE user == IF o = "renew" THEN mem.ctx.acct ELSE None
             begun == [op[o] EXCEPT !.pc = "issue", !.gen = mem.gen, !.acct = user]
  <2>0. o = "renew" => mem.ctx # None /\ mem.ctx.acct \in Accounts
    BY DEF OpInv, Types, Record, Contexts
  <2>a. op' = [op EXCEPT ![o] = begun]
    OBVIOUS
  <2>b. op[o] \in Operation /\ mem.gen \in Nat /\ user \in Accounts \cup {None}
    BY <2>0 DEF OpInv, Types, Record
  <2>c. /\ begun \in Operation /\ begun.pc = "issue" /\ begun.acct = user
        /\ begun.ctx = op[o].ctx /\ begun.epoch = op[o].epoch /\ begun.late = op[o].late
    BY <2>b DEF Operation, Held
  <2> HIDE DEF begun
  <2>1. Types'
    BY <2>a, <2>c DEF OpInv, Types, Ops
  <2>2. Counting'
    BY <2>a, <2>c DEF OpInv, Types, Counting, Ops
  <2>3. Holding'
    BY <2>a, <2>c, SessionAssumption DEF OpInv, Types, Holding, Held, Ops
  <2>4. Superseding'
    BY <2>a, <2>c DEF OpInv, Types, Superseding, Ops
  <2>5. Renewing'
    BY <2>0, <2>a, <2>c DEF OpInv, Types, Renewing, Ops
  <2> QED BY <2>1, <2>2, <2>3, <2>4, <2>5 DEF OpInv
<1> QED BY <1>1, <1>2

\* The issuer's answer is newer than everything; a renewal's is of the renewed account.
LEMMA IssueAnswers ==
    ASSUME OpInv, NEW o \in Ops, Issue(o)
    PROVE  \E a \in Accounts :
              /\ op' = [op EXCEPT ![o].ctx = [acct |-> a, n |-> proofs + 1], ![o].pc = "check"]
              /\ o = "renew" => a = op[o].acct
BY DEF Issue, OpInv, Types, Record, Contexts, Renewing

LEMMA IssueKeeps ==
    ASSUME OpInv, NEW o \in Ops, Issue(o)
    PROVE  OpInv'
<1> USE DEF Issue, control, file, work
<1>0. PICK a \in Accounts :
          /\ op' = [op EXCEPT ![o].ctx = [acct |-> a, n |-> proofs + 1], ![o].pc = "check"]
          /\ o = "renew" => a = op[o].acct
  BY IssueAnswers
<1>a. /\ [acct |-> a, n |-> proofs + 1] \in Contexts
      /\ [acct |-> a, n |-> proofs + 1] # None
  BY SessionAssumption DEF Contexts, OpInv, Types
<1>1. Types'
  BY <1>0, <1>a DEF OpInv, Types, Operation, Record, Ops, Held
<1>2. Counting'
  BY <1>0, <1>a, SessionAssumption DEF OpInv, Types, Counting, Ops, Operation, Record
<1>3. Holding'
  BY <1>0, <1>a, SessionAssumption DEF OpInv, Types, Holding, Held, Ops, Operation
<1>4. Superseding'
  BY <1>0 DEF OpInv, Types, Superseding, Ops, Operation
<1>5. Renewing'
  BY <1>0, <1>a DEF OpInv, Types, Renewing, Ops, Operation
<1> QED BY <1>1, <1>2, <1>3, <1>4, <1>5 DEF OpInv

LEMMA CheckKeeps ==
    ASSUME OpInv, NEW o \in Ops, Check(o)
    PROVE  OpInv'
<1>1. CASE ~(Authorized(o) /\ Candidate(o))
  BY <1>1, FinishKeeps DEF Check, file, work
<1>2. CASE Authorized(o) /\ Candidate(o)
  <2> USE <1>2 DEF Check, control, world, file, work
  <2>1. Types'
    BY DEF OpInv, Types, Operation, Record, Ops, Held
  <2>2. Counting'
    BY DEF OpInv, Types, Counting, Ops, Operation
  <2>3. Holding'
    BY SessionAssumption DEF OpInv, Types, Holding, Held, Ops, Operation
  <2>4. Superseding'
    BY DEF OpInv, Types, Superseding, Ops, Operation
  <2>5. Renewing'
    BY DEF OpInv, Types, Renewing, Ops, Operation
  <2> QED BY <2>1, <2>2, <2>3, <2>4, <2>5 DEF OpInv
<1> QED BY <1>1, <1>2

\* Only the holder has a context, so no other operation's count is disturbed.
LEMMA CommitKeeps ==
    ASSUME OpInv, NEW o \in Ops, Commit(o)
    PROVE  OpInv'
<1> USE DEF Commit, Save, Written, Installed, Finish, NoOp, NoSession, control, world
<1>0. op[o].ctx \in Contexts /\ op[o].ctx # None /\ holder = o
  BY DEF OpInv, Types, Operation, Ops, Commits, Candidate, Fresh, Holding, Held
<1>1. Types'
  <2>1. Installed(o) \in Record
    BY <1>0 DEF OpInv, Types, Record
  <2>2. op' \in [Ops -> Operation]
    BY DEF OpInv, Types, Operation, Record, Ops
  <2> QED BY <2>1, <2>2 DEF OpInv, Types
<1>2. Counting'
  BY <1>0, SessionAssumption DEF OpInv, Types, Counting, Ops, Operation, Record, Holding, Held
<1>3. Holding'
  BY <1>0, SessionAssumption DEF OpInv, Types, Holding, Held, Ops, Operation
<1>4. Superseding'
  BY DEF OpInv, Types, Superseding, Ops, Operation
<1>5. Renewing'
  BY <1>0 DEF OpInv, Types, Renewing, Ops, Operation, Holding, Held
<1> QED BY <1>1, <1>2, <1>3, <1>4, <1>5 DEF OpInv

----------------------------------------------------------------------------
(* Logout, stop and restart.                                               *)

\* What is superseded keeps everything but its good standing.
LEMMA SupersededKeeps ==
    ASSUME OpInv
    PROVE  /\ Superseded \in [Ops -> Operation]
           /\ \A o \in Ops :
                 /\ Superseded[o].pc = op[o].pc /\ Superseded[o].ctx = op[o].ctx
                 /\ Superseded[o].epoch = op[o].epoch /\ Superseded[o].acct = op[o].acct
<1>1. \A o \in Ops : op[o] \in Operation
  BY DEF OpInv, Types
<1>2. \A o \in Ops : [op[o] EXCEPT !.late = TRUE] \in Operation
  BY <1>1 DEF Operation
<1> QED BY <1>1, <1>2 DEF Superseded, Operation

LEMMA StartLogoutKeeps ==
    ASSUME OpInv, StartLogout
    PROVE  OpInv'
<1> DEFINE begun == [NoOp EXCEPT !.pc = "gather"]
<1>0. /\ op' = [Superseded EXCEPT !["logout"] = begun]
      /\ epoch' = epoch + 1 /\ epoch < MaxLogouts /\ ~stopping
      /\ op["logout"].pc = "idle"
      /\ UNCHANGED <<mem, disk, holder, stopping, worker, proofs, expired>>
  BY DEF StartLogout, file, work, world
<1>1. /\ begun \in Operation /\ begun.pc = "gather" /\ begun.ctx = None
      /\ begun.epoch = 0 /\ begun.late = FALSE
  BY DEF NoOp, NoSession, Operation, Record, Held
<1> HIDE DEF begun
<1>2. /\ op' \in [Ops -> Operation]
      /\ op'["logout"] = begun
      /\ \A o \in Ops \ {"logout"} :
            /\ op'[o].pc = op[o].pc /\ op'[o].ctx = op[o].ctx
            /\ op'[o].epoch = op[o].epoch /\ op'[o].acct = op[o].acct
  BY <1>0, <1>1, SupersededKeeps DEF Ops
<1>3. Types'
  BY <1>0, <1>2 DEF OpInv, Types
<1>4. Counting'
  BY <1>0, <1>1, <1>2, SessionAssumption DEF OpInv, Types, Counting
<1>5. Holding'
  BY <1>0, <1>1, <1>2, SessionAssumption DEF OpInv, Types, Holding, Held
<1>6. Superseding'
  BY <1>0, <1>1, <1>2 DEF OpInv, Types, Superseding, Operation
<1>7. Renewing'
  BY <1>0, <1>2 DEF OpInv, Types, Renewing, Ops
<1> QED BY <1>3, <1>4, <1>5, <1>6, <1>7 DEF OpInv

LEMMA StopKeeps ==
    ASSUME OpInv, Stop
    PROVE  OpInv'
<1>0. /\ op' = Superseded
      /\ epoch' = epoch + 1 /\ ~stopping /\ stopping' /\ stopping' \in BOOLEAN
      /\ worker' = "ended"
      /\ UNCHANGED <<mem, disk, holder, proofs, expired>>
  BY DEF Stop, file, world
<1>2. /\ op' \in [Ops -> Operation]
      /\ \A o \in Ops :
            /\ op'[o].pc = op[o].pc /\ op'[o].ctx = op[o].ctx
            /\ op'[o].epoch = op[o].epoch /\ op'[o].acct = op[o].acct
  BY <1>0, SupersededKeeps
<1>3. Types'
  BY <1>0, <1>2 DEF OpInv, Types
<1>4. Counting'
  BY <1>0, <1>2, SessionAssumption DEF OpInv, Types, Counting
<1>5. Holding'
  BY <1>0, <1>2 DEF OpInv, Holding
<1>6. Superseding'
  BY <1>0, <1>2 DEF OpInv, Types, Superseding, Operation
<1>7. Renewing'
  BY <1>0, <1>2 DEF OpInv, Renewing, Ops
<1> QED BY <1>3, <1>4, <1>5, <1>6, <1>7 DEF OpInv

LEMMA GatheredKeeps ==
    ASSUME OpInv, Gathered
    PROVE  OpInv'
<1> USE DEF Gathered, Goto, file, control, work, world
<1>1. Types'
  BY DEF OpInv, Types, Operation, Ops, Held
<1>2. Counting'
  BY DEF OpInv, Types, Counting, Ops, Operation
<1>3. Holding'
  BY SessionAssumption DEF OpInv, Types, Holding, Held, Ops, Operation
<1>4. Superseding'
  BY DEF OpInv, Types, Superseding, Ops, Operation
<1>5. Renewing'
  BY DEF OpInv, Types, Renewing, Ops, Operation
<1> QED BY <1>1, <1>2, <1>3, <1>4, <1>5 DEF OpInv

\* A logout has waited for every renewal.
LEMMA SaveLogoutKeeps ==
    ASSUME OpInv, SaveLogout
    PROVE  OpInv'
<1> USE DEF SaveLogout, Written, Forgotten, Goto, control, work, world
<1>0. holder = "logout" /\ op["renew"].pc \notin Held
  BY DEF OpInv, Holding, Held, Ops
<1>1. Types'
  <2>1. Forgotten \in Record
    BY DEF Record
  <2>2. op' \in [Ops -> Operation]
    BY DEF OpInv, Types, Operation, Ops, Held
  <2> QED BY <2>1, <2>2 DEF OpInv, Types
<1>2. Counting'
  BY <1>0, SessionAssumption DEF OpInv, Types, Counting, Ops, Operation, Holding, Held
<1>3. Holding'
  BY SessionAssumption DEF OpInv, Types, Holding, Held, Ops, Operation
<1>4. Superseding'
  BY DEF OpInv, Types, Superseding, Ops, Operation
<1>5. Renewing'
  BY <1>0 DEF OpInv, Types, Renewing, Ops, Operation, Held
<1> QED BY <1>1, <1>2, <1>3, <1>4, <1>5 DEF OpInv

LEMMA RestartKeeps ==
    ASSUME OpInv, Restart
    PROVE  OpInv'
<1> USE NoOpIs DEF Restart, Restored
<1>1. Types'
  BY DEF OpInv, Types
<1>2. Counting'
  BY SessionAssumption DEF OpInv, Types, Counting
<1>3. Holding'
  BY SessionAssumption DEF OpInv, Types, Holding, Held, Ops
<1>4. Superseding'
  BY DEF OpInv, Types, Superseding
<1>5. Renewing'
  BY DEF OpInv, Types, Renewing, Ops
<1> QED BY <1>1, <1>2, <1>3, <1>4, <1>5 DEF OpInv

----------------------------------------------------------------------------
(* The callers.                                                            *)

\* A caller touches neither the session nor an operation.
LEMMA CallKeepsOps ==
    ASSUME NEW c \in Callers, CallStep(c)
    PROVE  UNCHANGED <<disk, mem, holder, op, epoch, stopping, worker, proofs, expired>>
BY DEF CallStep, StartCall, CallerStops, AuthRestore, AuthRestored, AuthReady, AuthWaits,
       Pended, Send, Answered, Rejected, Transient, file, control, work, world

LEMMA NoCallIs == NoCall \in Call /\ NoCall.pc = "idle"
BY DEF NoCall, Call

LEMMA CallKeepsSending ==
    ASSUME OpInv, Sending, NEW c \in Callers, CallStep(c)
    PROVE  Sending'
<1> USE DEF OpInv, Types, Sending, Record
<1>0. caller[c] \in Call /\ mem' = mem /\ mem.ctx \in Contexts \cup {None}
  BY CallKeepsOps
<1>n. None \notin Callers
  BY SessionAssumption
<1>1. CASE StartCall(c)
  <2> DEFINE user == IF mem.ctx = None THEN None ELSE mem.ctx.acct
             begun == [NoCall EXCEPT !.pc = "auth", !.user = user]
  <2>1. user \in Accounts \cup {None}
    BY <1>0 DEF Contexts
  <2>2. begun \in Call /\ begun.pc = "auth"
    BY <2>1 DEF NoCall, Call
  <2>3. caller' = [caller EXCEPT ![c] = begun] /\ keeper' = keeper
    BY <1>1 DEF StartCall
  <2> HIDE DEF begun
  <2> QED BY <1>0, <2>2, <2>3
<1>2. CASE CallerStops(c)
  BY <1>2, <1>0, NoCallIs DEF CallerStops, Left
<1>3. CASE AuthRestore(c)
  BY <1>3, <1>0, <1>n DEF AuthRestore, Call
<1>4. CASE AuthRestored(c)
  BY <1>4, <1>0, <1>n DEF AuthRestored, Call
<1>5. CASE AuthReady(c)
  BY <1>5, <1>0, <1>n DEF AuthReady, Call
<1>6. CASE AuthWaits(c)
  BY <1>6, <1>0, <1>n DEF AuthWaits, Call
<1>7. CASE Pended(c)
  BY <1>7, <1>0, <1>n DEF Pended, Call
<1>8. CASE Send(c)
  <2>1. CASE Left(c) /\ UNCHANGED keeper
    BY <1>8, <2>1, <1>0, NoCallIs DEF Left
  <2>2. CASE caller' = [caller EXCEPT ![c].pc = "auth"] /\ UNCHANGED keeper
    BY <1>8, <2>2, <1>0, <1>n DEF Call
  <2>3. CASE /\ SameUser(c) /\ Fresh(mem.ctx)
             /\ caller' = [caller EXCEPT ![c].pc = "request", ![c].sent = mem.ctx]
             /\ keeper' = c
    BY <1>8, <2>3, <1>0, <1>n DEF Send, SameUser, Fresh, Call
  <2> QED BY <1>8, <2>1, <2>2, <2>3 DEF Send
<1>9. CASE Answered(c)
  BY <1>9, <1>0, <1>n, NoCallIs DEF Answered, Left
<1>10. CASE Rejected(c)
  BY <1>10, <1>0, <1>n DEF Rejected, Call
<1>11. CASE Transient(c)
  BY <1>11, <1>0, <1>n DEF Transient, Call
<1> QED BY <1>1, <1>2, <1>3, <1>4, <1>5, <1>6, <1>7, <1>8, <1>9, <1>10, <1>11 DEF CallStep

\* Whoever wakes the waiting callers, or cancels some, leaves the others' requests alone.
LEMMA NotifiedKeeps ==
    ASSUME NEW cs, cs \in [Callers -> Call]
    PROVE  /\ Notified(cs) \in [Callers -> Call]
           /\ \A c \in Callers :
                 /\ Notified(cs)[c].pc = "request" <=> cs[c].pc = "request"
                 /\ Notified(cs)[c].pc = "restore" <=> cs[c].pc = "restore"
                 /\ Notified(cs)[c].pc = "request" => Notified(cs)[c] = cs[c]
<1>1. \A c \in Callers : [cs[c] EXCEPT !.pc = "auth"] \in Call
  BY DEF Call
<1> QED BY <1>1 DEF Notified, Call

LEMMA WithoutKeeps ==
    ASSUME Sending, NEW cs \in SUBSET Callers
    PROVE  /\ Without(cs) \in [Callers -> Call]
           /\ \A c \in Callers :
                 Without(cs)[c].pc \in {"request", "restore"} =>
                    c \notin cs /\ Without(cs)[c] = caller[c]
BY NoCallIs DEF Sending, Without

LEMMA DrainedAre ==
    ASSUME NEW o
    PROVE  Drained(o) \subseteq SUBSET Callers
BY DEF Drained

LEMMA OthersKeepSending ==
    ASSUME OpInv, Sending, Next, \A c \in Callers : ~CallStep(c)
    PROVE  Sending'
<1>n. None \notin Callers
  BY SessionAssumption
<1>1. CASE UNCHANGED <<caller, keeper, mem>>
  BY <1>1 DEF Sending
<1>2. ASSUME NEW o \in Ops, Check(o)
      PROVE  Sending'
  <2>1. PICK cs \in Drained(o) : Unlocked(cs) /\ caller' = Without(cs)
    BY <1>2 DEF Check
  <2>2. cs \in SUBSET Callers
    BY DrainedAre
  <2>3. mem' = mem
    BY <1>2 DEF Check, file
  <2> QED BY <1>n, <2>1, <2>2, <2>3, WithoutKeeps DEF Sending, Unlocked
<1>3. ASSUME NEW o \in Ops, Commit(o)
      PROVE  Sending'
  BY <1>3, <1>n, NotifiedKeeps DEF Commit, Notify, Sending
<1>4. CASE SaveLogout
  <2>1. PICK cs \in Drained("logout") : Unlocked(cs) /\ caller' = Notified(Without(cs))
    BY <1>4 DEF SaveLogout
  <2>2. cs \in SUBSET Callers
    BY DrainedAre
  <2> QED BY <1>n, <2>1, <2>2, WithoutKeeps, NotifiedKeeps DEF Sending, Unlocked
<1>5. CASE Stop
  BY <1>5, NotifiedKeeps DEF Stop, Notify, Sending, file
<1>6. CASE Restart
  BY <1>6, <1>n, NoCallIs DEF Restart, Sending
<1> QED
  BY <1>1, <1>2, <1>3, <1>4, <1>5, <1>6
  DEF Next, OpStep, StartLogin, Acquire, Issue, OpFails, OpCancelled, StartLogout, Gathered,
      LogoutFails, CookiesCleared, WorkerWakes, WorkerTimeout, WorkerHears, Expire,
      file, control, work, world

----------------------------------------------------------------------------
(* The invariant.                                                          *)

LEMMA InitInv == Init => Inv
<1> SUFFICES ASSUME Init PROVE Inv
  OBVIOUS
<1> USE NoOpIs, NoCallIs, SessionAssumption DEF Init, NoSession
<1>1. Types
  BY DEF Types, Record, Ops
<1>4. Counting
  BY DEF Counting
<1>2. Holding /\ Superseding /\ Renewing
  BY DEF Holding, Superseding, Renewing, Held, Ops
<1>3. Flags /\ Sending
  BY DEF Flags, Sending
<1> QED BY <1>1, <1>2, <1>3, <1>4 DEF Inv, OpInv

LEMMA OpInvNext ==
    ASSUME Inv, Next
    PROVE  OpInv'
<1> USE DEF Inv
<1>1. CASE UNCHANGED <<disk, mem, op, holder, control, worker, world>>
  BY <1>1 DEF OpInv, Types, Counting, Holding, Superseding, Renewing, control, world
<1>2. ASSUME NEW o \in Logins, StartLogin(o)
      PROVE  OpInv'
  BY <1>2, StartLoginKeeps
<1>3. ASSUME NEW o \in Ops, OpStep(o)
      PROVE  OpInv'
  <2>1. CASE Acquire(o)
    BY <2>1, AcquireKeeps
  <2>2. CASE Issue(o)
    BY <2>2, IssueKeeps
  <2>3. CASE OpFails(o) \/ OpCancelled(o)
    BY <2>3, FinishKeeps DEF OpFails, OpCancelled, file, work
  <2>4. CASE Check(o)
    BY <2>4, CheckKeeps
  <2>5. CASE Commit(o)
    BY <2>5, CommitKeeps
  <2> QED BY <1>3, <2>1, <2>2, <2>3, <2>4, <2>5 DEF OpStep
<1>4. ASSUME NEW c \in Callers, CallStep(c)
      PROVE  OpInv'
  BY <1>4, CallKeepsOps DEF OpInv, Types, Counting, Holding, Superseding, Renewing
<1>5. CASE StartLogout
  BY <1>5, StartLogoutKeeps
<1>6. CASE Gathered
  BY <1>6, GatheredKeeps
<1>7. CASE SaveLogout
  BY <1>7, SaveLogoutKeeps
<1>8. CASE LogoutFails
  BY <1>8, FinishKeeps DEF LogoutFails, file, work, Ops
<1>9. CASE CookiesCleared
  BY <1>9, FinishKeeps DEF CookiesCleared, file, Ops
<1>10. CASE Stop
  BY <1>10, StopKeeps
<1>11. CASE WorkerWakes
  <2>1. op["renew"].pc = "idle" /\ (force \/ worker = "retry") \in BOOLEAN
    BY <1>11 DEF WorkerWakes, OpInv, Renewing, Flags
  <2> QED BY <1>11, <2>1, WorkerLooksKeeps DEF WorkerWakes, file
<1>12. CASE WorkerTimeout
  <2>1. op["renew"].pc = "idle"
    BY <1>12 DEF WorkerTimeout, OpInv, Renewing
  <2> QED BY <1>12, <2>1, WorkerLooksKeeps DEF WorkerTimeout, file
<1>13. CASE WorkerHears
  BY <1>13, WorkerHearsKeeps
<1>14. CASE Restart
  BY <1>14, RestartKeeps
<1>15. CASE Expire
  BY <1>15 DEF Expire, OpInv, Types, Counting, Holding, Superseding, Renewing, file, control, work
<1> QED BY <1>2, <1>3, <1>4, <1>5, <1>6, <1>7, <1>8, <1>9, <1>10, <1>11, <1>12, <1>13,
           <1>14, <1>15 DEF Next

LEMMA FlagsNext ==
    ASSUME Inv, Next
    PROVE  Flags'
<1> USE DEF Inv, Flags, file, work, control, world
<1>1. CASE UNCHANGED <<file, updated, work>>
  BY <1>1
<1>2. ASSUME NEW c \in Callers, CallStep(c)
      PROVE  Flags'
  BY <1>2 DEF CallStep, StartCall, CallerStops, AuthRestore, AuthRestored, AuthReady,
              AuthWaits, Pended, Send, Answered, Rejected, Transient, RequestRenewal
<1>3. ASSUME NEW o \in Ops, OpStep(o)
      PROVE  Flags'
  BY <1>3 DEF OpStep, Acquire, Issue, OpFails, OpCancelled, Check, Commit, Notify
<1>4. CASE SaveLogout \/ CookiesCleared \/ Stop
  BY <1>4 DEF SaveLogout, CookiesCleared, Stop, Notify
<1>5. CASE WorkerWakes \/ WorkerTimeout \/ WorkerHears
  BY <1>5 DEF WorkerWakes, WorkerTimeout, WorkerHears, WorkerLooks
<1>6. CASE Restart
  BY <1>6 DEF Restart, Restored
<1> QED BY <1>1, <1>2, <1>3, <1>4, <1>5, <1>6
        DEF Next, StartLogin, StartLogout, Gathered, LogoutFails, Expire

\* The invariant is inductive: what the controller's lock, the session's lock and the
\* epoch keep true together at every await of the code.
THEOREM InductiveInv == Spec => []Inv
<1>1. Inv /\ [Next]_vars => Inv'
  <2> SUFFICES ASSUME Inv, [Next]_vars PROVE Inv'
    OBVIOUS
  <2>1. CASE Next
    <3>1. CASE \E c \in Callers : CallStep(c)
      BY <2>1, <3>1, CallKeepsSending, OpInvNext, FlagsNext DEF Inv
    <3>2. CASE \A c \in Callers : ~CallStep(c)
      BY <2>1, <3>2, OthersKeepSending, OpInvNext, FlagsNext DEF Inv
    <3> QED BY <3>1, <3>2
  <2>2. CASE UNCHANGED vars
    <3> USE <2>2 DEF vars, file, work, control, world
    <3>1. OpInv'
      BY DEF Inv, OpInv, Types, Counting, Holding, Superseding, Renewing
    <3>2. Flags' /\ Sending'
      BY DEF Inv, Flags, Sending
    <3> QED BY <3>1, <3>2 DEF Inv
  <2> QED BY <2>1, <2>2
<1> QED BY <1>1, InitInv, PTL DEF Spec

\* Every variable stays within its range; the numbers within the bounds of the model.
THEOREM TypeCorrect == Spec => []TypeOK
<1>1. Inv => TypeOK
  <2> SUFFICES ASSUME Inv PROVE TypeOK
    OBVIOUS
  <2> USE DEF Inv
  <2>1. mem.gen \in 0..MaxProofs
    BY SessionAssumption DEF OpInv, Types, Counting, Record
  <2>2. epoch \in 0..(MaxLogouts + 1)
    BY SessionAssumption DEF OpInv, Types, Counting
  <2>3. /\ \A o \in Ops : op[o].pc \in {"idle", "lock", "issue", "check", "twitch",
                                        "gather", "save", "cookies"}
        /\ \A c \in Callers : caller[c].pc \in {"idle", "auth", "restore", "pend", "wait",
                                                "send", "request"}
    BY DEF OpInv, Types, Operation, Held, Sending, Call
  <2> QED BY <2>1, <2>2, <2>3 DEF TypeOK, OpInv, Types, Counting, Flags, Sending, Record
<1> QED BY <1>1, InductiveInv, PTL

----------------------------------------------------------------------------
(* What matters of it.                                                     *)

\* The request a caller has with Twitch carries the context in memory, of the account
\* the caller began with (gql sends it under the session's lock).
THEOREM RequestsAreCurrent == Spec => []InFlightIsCurrent
<1>1. Inv => InFlightIsCurrent
  BY DEF Inv, Sending, InFlightIsCurrent
<1> QED BY <1>1, InductiveInv, PTL

\* What installs a context is the operation the context was issued to, and no logout or
\* stop has superseded that (the epoch is looked at under the lock, after the last await).
THEOREM LateOperationsInstallNothing == Spec => LateNeverInstalls
<1>1. ASSUME Inv, Next, mem'.ctx \notin {mem.ctx, None}
      PROVE  \E o \in Ops : op[o].ctx = mem'.ctx /\ ~op[o].late
  <2>1. CASE \E o \in Ops : Commit(o)
    <3>1. PICK o \in Ops : Commit(o)
      BY <2>1
    <3>2. mem'.ctx = op[o].ctx
      BY <3>1 DEF Commit, Save, Installed
    <3>3. op[o].epoch = epoch
      BY <3>1 DEF Commit, Commits, Authorized, Current
    <3>4. ~op[o].late
      BY <3>3, <1>1 DEF Inv, OpInv, Types, Superseding
    <3> QED BY <3>2, <3>4
  <2>2. mem' = mem \/ mem' = Forgotten \/ \E o \in Ops : Commit(o)
    BY <1>1, CallKeepsOps
    DEF Next, OpStep, StartLogin, Acquire, Issue, OpFails, OpCancelled, Check, StartLogout,
        Gathered, SaveLogout, LogoutFails, CookiesCleared, Stop, WorkerWakes, WorkerTimeout,
        WorkerHears, Restart, Restored, Expire, file, Inv, OpInv, Types
  <2> QED BY <1>1, <2>1, <2>2 DEF Forgotten
<1>2. Inv /\ [Next]_vars => [mem'.ctx \notin {mem.ctx, None}
                             => \E o \in Ops : op[o].ctx = mem'.ctx /\ ~op[o].late]_vars
  BY <1>1
<1> QED BY <1>2, InductiveInv, PTL DEF Spec, LateNeverInstalls

----------------------------------------------------------------------------
(* Session implements AbstractSession.  The offer is the context of the one *)
(* operation that has a context which is not installed.                     *)

TheOffer(ops) ==
    LET having == {o \in Ops : ops[o].ctx # None}
    IN IF having = {} THEN [ctx |-> None, renews |-> FALSE]
       ELSE LET o == CHOOSE o \in having : TRUE
            IN [ctx |-> ops[o].ctx, renews |-> o = "renew"]

LEMMA NoOffer ==
    ASSUME NEW ops, \A o \in Ops : ops[o].ctx = None
    PROVE  TheOffer(ops) = Abstract!Nothing
<1>1. {o \in Ops : ops[o].ctx # None} = {}
  OBVIOUS
<1> QED BY <1>1 DEF TheOffer, Abstract!Nothing

LEMMA OneOffer ==
    ASSUME NEW ops, NEW o \in Ops, ops[o].ctx # None,
           \A p \in Ops : ops[p].ctx # None => p = o
    PROVE  TheOffer(ops) = [ctx |-> ops[o].ctx, renews |-> o = "renew"]
<1>1. {p \in Ops : ops[p].ctx # None} = {o}
  OBVIOUS
<1>2. (CHOOSE p \in {o} : TRUE) = o
  OBVIOUS
<1> QED BY <1>1, <1>2 DEF TheOffer

\* Only the holder has a context.
LEMMA OneHolder ==
    ASSUME Holding, NEW o \in Ops, op[o].ctx # None
    PROVE  \A p \in Ops : op[p].ctx # None => p = o
BY DEF Holding, Held

\* A step that installs nothing, and issues nothing, at most withdraws the offer.
LEMMA WithdrawsOrStutters ==
    ASSUME Holding, UNCHANGED <<mem, proofs>>,
           \A o \in Ops : op'[o].ctx \in {op[o].ctx, None}
    PROVE  Abstract!Withdraw \/ UNCHANGED <<TheOffer(op), mem, proofs>>
<1>1. CASE \A o \in Ops : op'[o].ctx = None
  BY <1>1, NoOffer DEF Abstract!Withdraw, TheOffer, Offered
<1>2. ASSUME NEW o \in Ops, op'[o].ctx # None
      PROVE  UNCHANGED <<TheOffer(op), mem, proofs>>
  <2>1. op[o].ctx # None /\ op'[o].ctx = op[o].ctx
    BY <1>2
  <2>2. TheOffer(op) = [ctx |-> op[o].ctx, renews |-> o = "renew"]
    BY <2>1, OneHolder, OneOffer
  <2>3. TheOffer(op') = [ctx |-> op'[o].ctx, renews |-> o = "renew"]
    BY <1>2, <2>1, OneHolder, OneOffer
  <2> QED BY <2>1, <2>2, <2>3
<1> QED BY <1>1, <1>2

LEMMA IssueOffers ==
    ASSUME Inv, Inv', NEW o \in Ops, Issue(o)
    PROVE  Abstract!Offer
<1> USE DEF Inv, OpInv, Types
<1>1. PICK a \in Accounts :
         op' = [op EXCEPT ![o].ctx = [acct |-> a, n |-> proofs + 1], ![o].pc = "check"]
  BY IssueAnswers
<1>2. /\ op'[o].ctx = [acct |-> a, n |-> proofs + 1] /\ op'[o].ctx # None
      /\ \A p \in Ops \ {o} : op'[p] = op[p]
  BY <1>1, SessionAssumption DEF Operation
<1>3. \A p \in Ops : op[p].ctx = None
  BY DEF Issue, Holding, Held
<1>4. TheOffer(op) = Abstract!Nothing
  BY <1>3, NoOffer
<1>5. TheOffer(op') = [ctx |-> [acct |-> a, n |-> proofs + 1], renews |-> o = "renew"]
  BY <1>2, <1>3, OneOffer
<1>6. proofs' = proofs + 1 /\ mem' = mem
  BY DEF Issue, file
<1>7. (o = "renew") \in BOOLEAN
  OBVIOUS
<1> QED BY <1>4, <1>5, <1>6, <1>7 DEF Abstract!Offer, Abstract!Nothing, TheOffer, Offered

LEMMA CommitUses ==
    ASSUME Inv, NEW o \in Ops, Commit(o)
    PROVE  Abstract!Use
<1> USE DEF Inv, OpInv, Types
<1>1. /\ op[o].ctx # None /\ op[o].pc = "twitch" /\ op[o].ctx \in Contexts
      /\ o = "renew" /\ mem.ctx # None => op[o].ctx.n > mem.ctx.n
  BY DEF Commit, Commits, Candidate, Fresh, Operation
<1>2. TheOffer(op) = [ctx |-> op[o].ctx, renews |-> o = "renew"]
  BY <1>1, OneHolder, OneOffer
<1>3. op' = [op EXCEPT ![o] = [NoOp EXCEPT !.result = IF o = "renew" THEN "ok" ELSE "none"]]
  BY DEF Commit, Finish
<1>4. \A p \in Ops : op'[p].ctx = None
  BY <1>1, <1>3, OneHolder DEF NoOp
<1>5. TheOffer(op') = Abstract!Nothing
  BY <1>4, NoOffer
<1>6. o = "renew" => mem.ctx # None /\ mem.ctx.acct = op[o].ctx.acct /\ mem.ctx \in Contexts
  BY <1>1 DEF Renewing, Record
<1>7. o = "renew" => mem.ctx.n < op[o].ctx.n
  BY <1>1, <1>6 DEF Contexts
<1>8. /\ mem'.ctx = op[o].ctx /\ mem'.out = FALSE /\ proofs' = proofs
  BY DEF Commit, Save, Installed, world
<1>9. TheOffer(op) # Abstract!Nothing
  BY <1>1, <1>2 DEF Abstract!Nothing
<1> QED BY <1>2, <1>5, <1>6, <1>7, <1>8, <1>9 DEF Abstract!Use, TheOffer, Offered

LEMMA SaveLogoutLogsOut ==
    ASSUME Inv, SaveLogout
    PROVE  Abstract!Logout
<1> USE DEF Inv, OpInv, Types
<1>1. /\ \A o \in Ops : op'[o].ctx = op[o].ctx
      /\ mem' = Forgotten /\ proofs' = proofs
  BY DEF SaveLogout, Goto, world
<1>2. holder = "logout" /\ \A o \in Ops : op[o].ctx = None
  BY DEF SaveLogout, Holding, Held, Ops
<1>3. TheOffer(op) = Abstract!Nothing /\ TheOffer(op') = Abstract!Nothing
  BY <1>1, <1>2, NoOffer
<1> QED BY <1>1, <1>3 DEF Abstract!Logout, Forgotten, TheOffer, Offered

LEMMA FinishDrops ==
    ASSUME op \in [Ops -> Operation], NEW o \in Ops, NEW r, Finish(o, r)
    PROVE  \A p \in Ops : op'[p].ctx \in {op[p].ctx, None}
BY DEF Finish, NoOp

\* Every other action leaves the session alone, and at most ends an operation.
LEMMA OthersInstallNothing ==
    ASSUME Inv, Next, \A o \in Ops : ~Issue(o) /\ ~Commit(o), ~SaveLogout
    PROVE  /\ UNCHANGED <<mem, proofs>>
           /\ \A o \in Ops : op'[o].ctx \in {op[o].ctx, None}
<1> USE DEF Inv, OpInv, Types
<1>1. CASE UNCHANGED <<op, file, proofs>>
  BY <1>1 DEF file
<1>2. ASSUME NEW c \in Callers, CallStep(c)
      PROVE  UNCHANGED <<op, mem, proofs>>
  BY <1>2, CallKeepsOps
<1>3. ASSUME NEW o \in Ops, OpStep(o)
      PROVE  /\ UNCHANGED <<mem, proofs>>
             /\ \A p \in Ops : op'[p].ctx \in {op[p].ctx, None}
  <2>1. CASE Acquire(o)
    <3>1. CASE Finish(o, "error")
      BY <2>1, <3>1, FinishDrops DEF Acquire, file, world
    <3>2. CASE Admitted(o)
      <4> DEFINE begun == [op[o] EXCEPT !.pc = "issue", !.gen = mem.gen,
                               !.acct = IF o = "renew" THEN mem.ctx.acct ELSE None]
      <4>1. op' = [op EXCEPT ![o] = begun] /\ UNCHANGED <<mem, proofs>>
        BY <2>1, <3>2 DEF Acquire, file, world
      <4>2. begun.ctx = op[o].ctx
        BY DEF Operation
      <4> HIDE DEF begun
      <4> QED BY <4>1, <4>2
    <3> QED BY <2>1, <3>1, <3>2 DEF Acquire
  <2>2. CASE OpFails(o) \/ OpCancelled(o)
    BY <2>2, FinishDrops DEF OpFails, OpCancelled, file, world
  <2>3. CASE Check(o)
    <3>1. CASE Finish(o, "error")
      BY <2>3, <3>1, FinishDrops DEF Check, file, world
    <3>2. CASE Authorized(o) /\ Candidate(o)
      BY <2>3, <3>2 DEF Check, Operation, file, world
    <3> QED BY <2>3, <3>1, <3>2 DEF Check
  <2> QED BY <1>3, <2>1, <2>2, <2>3 DEF OpStep
<1>4. CASE StartLogout \/ Stop
  <2>1. \A o \in Ops : Superseded[o].ctx = op[o].ctx
    BY SupersededKeeps
  <2> QED BY <1>4, <2>1 DEF StartLogout, Stop, Superseded, NoOp, file, world
<1>5. CASE LogoutFails \/ CookiesCleared \/ Gathered
  <2>1. "logout" \in Ops
    BY DEF Ops
  <2>2. CASE LogoutFails \/ CookiesCleared
    BY <2>1, <2>2, FinishDrops DEF LogoutFails, CookiesCleared, file, world
  <2>3. CASE Gathered
    BY <2>1, <2>3 DEF Gathered, Goto, file, world
  <2> QED BY <1>5, <2>2, <2>3
<1>6. CASE WorkerWakes \/ WorkerTimeout \/ WorkerHears
  BY <1>6, BegunIs, NoOpIs
  DEF WorkerWakes, WorkerTimeout, WorkerHears, WorkerLooks, file, world
<1>7. ASSUME NEW o \in Logins, StartLogin(o)
      PROVE  /\ UNCHANGED <<mem, proofs>>
             /\ \A p \in Ops : op'[p].ctx \in {op[p].ctx, None}
  BY <1>7, BegunIs DEF StartLogin, file, world
<1>8. CASE Restart
  BY <1>8, NoOpIs DEF Restart, Restored
<1>9. CASE Expire
  BY <1>9 DEF Expire, file
<1> QED BY <1>2, <1>3, <1>4, <1>5, <1>6, <1>7, <1>8, <1>9 DEF Next

\* Every step of the session, with all that happens to it, is one of the abstract
\* session or leaves that as it is: ImportedSession and SessionController keep its promise.
THEOREM SessionImplementsAbstract == Spec => ImplementsAbstract
<1>1. Init => Abstract!Init
  <2>1. Init => TheOffer(op) = Abstract!Nothing
    BY NoOffer, NoOpIs DEF Init
  <2> QED BY <2>1 DEF Init, NoSession, Abstract!Init, TheOffer, Offered
<1>2. Inv /\ Inv' /\ [Next]_vars => [Abstract!Next]_(Abstract!vars)
  <2> SUFFICES ASSUME Inv, Inv', [Next]_vars PROVE [Abstract!Next]_(Abstract!vars)
    OBVIOUS
  <2>1. CASE \E o \in Ops : Issue(o)
    BY <2>1, IssueOffers DEF Abstract!Next
  <2>2. CASE \E o \in Ops : Commit(o)
    BY <2>2, CommitUses DEF Abstract!Next
  <2>3. CASE SaveLogout
    BY <2>3, SaveLogoutLogsOut DEF Abstract!Next
  <2>4. CASE Next /\ (\A o \in Ops : ~Issue(o) /\ ~Commit(o)) /\ ~SaveLogout
    <3>1. Abstract!Withdraw \/ UNCHANGED <<TheOffer(op), mem, proofs>>
      BY <2>4, OthersInstallNothing, WithdrawsOrStutters DEF Inv, OpInv
    <3> QED BY <3>1 DEF Abstract!Next, Abstract!vars, TheOffer, Offered
  <2>5. CASE UNCHANGED vars
    BY <2>5 DEF vars, file, world, Abstract!vars, Offered
  <2> QED BY <2>1, <2>2, <2>3, <2>4, <2>5
<1> QED BY <1>1, <1>2, InductiveInv, PTL DEF Spec, ImplementsAbstract
==========================================================================
