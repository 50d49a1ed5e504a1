--------------------------- MODULE PowerShellBridge ----------------------------
(***************************************************************************)
(* PowerShellBridge of powershell-bridge.ts in the desktop application:    *)
(* concurrent callers share one queue of commands, one command is written  *)
(* to PowerShell at a time, and its reply is found by a marker.            *)
(*                                                                         *)
(* A step is one task of Node's event loop, with the microtasks it leaves  *)
(* behind: continuations of await run after the handler that resolves them *)
(* has started the next command.                                           *)
(***************************************************************************)
EXTENDS Integers, Sequences, FiniteSets

CONSTANTS
  Req,          \* calls of invokeStructured
  MaxQueue,     \* MAX_QUEUE_SIZE
  MaxRetries,   \* maxRetries of invokeWithRetry
  MaxProcs,     \* bound: processes spawned
  MaxFaults     \* bound: crashes, hangs and runaway outputs

ASSUME BridgeAssumption ==
  /\ MaxQueue \in Nat \ {0}
  /\ MaxRetries \in Nat
  /\ MaxProcs \in Nat \ {0}
  /\ MaxFaults \in Nat

Proc == 1 .. MaxProcs
NoProc == 0

\* The two commands of ensureInitialized, and the caller's own.
Stages == { "flush", "import", "cmd" }
Entry == [req : Req, stage : Stages]
NoEntry == [req |-> "none", stage |-> "none"]

\* What comes over stdout: the object of a command, if it prints one, and then
\* its marker, which a second statement prints; from is the process (history).
Item == [entry : Entry, kind : {"object", "marker"}, from : Proc]

\* Outcome of a command in PowerShell: an object on stdout, or nothing there
\* and an error on stderr, perhaps one that says that calls are throttled.
Outcomes == { "ok", "error", "throttled" }

VARIABLES
  br,      \* the fields of the bridge
  call,    \* the calls
  ps,      \* the processes
  ran,     \* how often the command of a call has taken effect
  faults

vars == <<br, call, ps, ran, faults>>

\* cur is what the current marker, resolve and reject belong to; out is what
\* has come over stdout since it was written, from whichever process, err over
\* stderr.
Bridge ==
  [proc : Proc \cup {NoProc}, init : BOOLEAN, queue : Seq(Entry),
   cur : Entry \cup {NoEntry}, out : Seq(Item),
   err : SUBSET {"error", "throttled"}]

\* What a call is told: an object that its own process has printed, one that
\* another process has, something that is no object, nothing but success, the
\* text on stderr, or that it was rejected.
Results ==
  { "none", "data", "alien", "text", "null", "error", "throttled", "rejected" }

Call ==
  [pc : {"idle", "sent", "backoff", "done"}, attempt : 0 .. MaxRetries,
   outcome : Outcomes \cup {"none"}, result : Results]

\* todo is what was written to stdin, due the command whose marker is printed
\* next, out and err what is in the two pipes.
Process ==
  [state : {"none", "live", "hung", "dead", "closed"}, doomed : BOOLEAN,
   todo : Seq(Entry), due : Entry \cup {NoEntry}, out : Seq(Item),
   err : Seq({"error", "throttled"})]

TypeOK ==
  /\ br \in Bridge /\ Len(br.queue) <= MaxQueue
  /\ call \in [Req -> Call]
  /\ ps \in [Proc -> Process]
  /\ ran \in [Req -> Nat]
  /\ faults \in 0 .. MaxFaults

Init ==
  /\ br = [proc |-> NoProc, init |-> FALSE, queue |-> <<>>, cur |-> NoEntry,
           out |-> <<>>, err |-> {}]
  /\ call = [r \in Req |->
       [pc |-> "idle", attempt |-> 0, outcome |-> "none", result |-> "none"]]
  /\ ps = [p \in Proc |-> [state |-> "none", doomed |-> FALSE, todo |-> <<>>,
                           due |-> NoEntry, out |-> <<>>, err |-> <<>>]]
  /\ ran = [r \in Req |-> 0]
  /\ faults = 0

Fault == faults < MaxFaults /\ faults' = faults + 1

-----------------------------------------------------------------------------
(* The bridge, its calls and its processes as one value, for the functions *)
(* that run one after the other in a task.                                 *)

Now == [br |-> br, call |-> call, ps |-> ps]
Become(s) == br' = s.br /\ call' = s.call /\ ps' = s.ps

Settle(s, r, result) ==
  [s EXCEPT !.call[r].pc = "done", !.call[r].result = result]

\* A throttled command is not settled: its caller will send it again.
BackOff(s, r) == [s EXCEPT !.call[r].pc = "backoff"]

\* The next command is written to the process, and what was heard is dropped.
ProcessQueue(s) ==
  IF s.br.cur # NoEntry \/ s.br.queue = <<>> THEN s
  ELSE [s EXCEPT
          !.br.queue = Tail(@), !.br.cur = Head(s.br.queue),
          !.br.out = <<>>, !.br.err = {},
          !.ps[s.br.proc].todo = Append(@, Head(s.br.queue))]

SendRaw(s, r, stage) ==
  IF s.br.proc = NoProc \/ Len(s.br.queue) >= MaxQueue
    THEN Settle(s, r, "rejected")
    ELSE ProcessQueue([s EXCEPT
           !.br.queue = Append(@, [req |-> r, stage |-> stage])])

Unused == { p \in Proc : ps[p].state = "none" }

\* The bound on processes.
MaySpawn == (br.init /\ br.proc # NoProc) \/ Unused # {}

\* Nobody waits for an initialisation under way: another process is spawned.
EnsureInitialized(s, r) ==
  IF s.br.init /\ s.br.proc # NoProc
    THEN SendRaw(s, r, "cmd")
    ELSE LET p == CHOOSE q \in Unused : TRUE
         IN  SendRaw([s EXCEPT !.br.proc = p, !.ps[p].state = "live"],
                     r, "flush")

\* What invokeRaw makes of stdout, up to the marker that p has printed, and of
\* stderr.  An object is recognised where it is the last thing there, with
\* markers of other commands before it at most.
Object(item) == item.kind = "object"
WithObject(heard, p) == IF heard[Len(heard)].from = p THEN "data" ELSE "alien"
WithNothing(err) ==
  IF "throttled" \in err THEN "throttled" ELSE IF err # {} THEN "error" ELSE "null"

InterpretAnyObject(heard, err, p) ==
  IF heard = <<>> THEN WithNothing(err)
  ELSE IF \E i \in DOMAIN heard : Object(heard[i]) THEN WithObject(heard, p)
  ELSE "text"
Interpret(heard, err, p) ==
  IF heard = <<>> THEN WithNothing(err)
  ELSE IF \A i \in DOMAIN heard : Object(heard[i]) <=> i = Len(heard)
         THEN WithObject(heard, p)
  ELSE "text"

\* invokeRaw and invokeWithRetry go on, once p has printed the marker of e.
Continue(s, e, p) ==
  CASE e.stage = "flush" -> SendRaw(s, e.req, "import")
    [] e.stage = "import" -> SendRaw([s EXCEPT !.br.init = TRUE], e.req, "cmd")
    [] OTHER ->
         LET result == Interpret(br.out, s.br.err, p)
         IN  IF result = "throttled" /\ s.call[e.req].attempt < MaxRetries
               THEN BackOff(s, e.req)
               ELSE Settle(s, e.req, result)

Idle(s) == [s EXCEPT !.br.cur = NoEntry]

\* The current command and all that wait are rejected, and none is current.
Waiting == { br.queue[i].req : i \in DOMAIN br.queue }
InFlight == IF br.cur = NoEntry THEN {} ELSE {br.cur.req}

RejectAll(s, rejected) ==
  [s EXCEPT
     !.br.cur = NoEntry, !.br.queue = <<>>,
     !.call = [r \in Req |-> IF r \in rejected
                 THEN [s.call[r] EXCEPT !.pc = "done", !.result = "rejected"]
                 ELSE s.call[r]]]

-----------------------------------------------------------------------------
(* The callers.                                                            *)

\* A cmdlet or a parameter that the registry does not permit.
Refuse(r) ==
  /\ call[r].pc = "idle"
  /\ call' = Settle(Now, r, "rejected").call
  /\ UNCHANGED <<br, ps, ran, faults>>

Invoke(r) ==
  /\ call[r].pc = "idle"
  /\ MaySpawn
  /\ Become(EnsureInitialized([Now EXCEPT !.call[r].pc = "sent"], r))
  /\ UNCHANGED <<ran, faults>>

\* The delay after a throttled reply is over.
Retry(r) ==
  /\ call[r].pc = "backoff"
  /\ MaySpawn
  /\ Become(EnsureInitialized(
       [Now EXCEPT !.call[r].pc = "sent", !.call[r].attempt = @ + 1], r))
  /\ UNCHANGED <<ran, faults>>

\* The last window is closed.  PowerShell is told to exit, and killed later.
Dispose ==
  /\ br.proc # NoProc
  /\ ~ps[br.proc].doomed
  /\ LET s == RejectAll(Now, Waiting \cup InFlight)
     IN  Become([s EXCEPT !.br.proc = NoProc, !.br.init = FALSE,
                          !.ps[br.proc].doomed = TRUE])
  /\ UNCHANGED <<ran, faults>>

-----------------------------------------------------------------------------
(* The timers and the handlers of a process.                               *)

\* The command goes on in PowerShell; only its caller has given up.
TimeOut ==
  /\ br.cur # NoEntry
  /\ Become(ProcessQueue(Idle(Settle(Now, br.cur.req, "rejected"))))
  /\ UNCHANGED <<ran, faults>>

\* More than MAX_BUFFER_BYTES of output.
Overflow ==
  /\ br.cur # NoEntry
  /\ ps[br.proc].state = "live" /\ ps[br.proc].todo # <<>>
  /\ Fault
  /\ LET s == Idle(Settle(Now, br.cur.req, "rejected"))
     IN  Become(ProcessQueue([s EXCEPT !.br.out = <<>>]))
  /\ UNCHANGED ran

\* A chunk on stdout, of whatever process: the current marker, or something that
\* joins what has been heard.
OnStdout(p) ==
  /\ ps[p].out # <<>>
  /\ LET item == Head(ps[p].out)
         read == [Now EXCEPT !.ps[p].out = Tail(@)]
     IN  IF br.cur # NoEntry /\ item.entry = br.cur /\ ~Object(item)
           THEN Become(Continue(ProcessQueue(Idle([read EXCEPT !.br.out = <<>>])),
                                br.cur, p))
           ELSE Become([read EXCEPT !.br.out = Append(@, item)])
  /\ UNCHANGED <<ran, faults>>

\* A chunk on stderr, of whatever command.
OnStderr(p) ==
  /\ ps[p].err # <<>>
  /\ Become([Now EXCEPT !.ps[p].err = Tail(@),
                        !.br.err = @ \cup {Head(ps[p].err)}])
  /\ UNCHANGED <<ran, faults>>

\* Mutant: the queue is not drained when the process is gone.
OnCloseKeepsQueue(p) ==
  /\ ps[p].state = "dead"
  /\ ps[p].out = <<>> /\ ps[p].err = <<>>
  /\ LET s == RejectAll(Now, InFlight)
     IN  Become([s EXCEPT !.br.proc = NoProc, !.br.init = FALSE,
                          !.br.queue = br.queue, !.ps[p].state = "closed"])
  /\ UNCHANGED <<ran, faults>>

\* 'close', or 'error' of a process that could not be started; it need not be
\* the one in use.
OnClose(p) ==
  /\ ps[p].state = "dead"
  /\ ps[p].out = <<>> /\ ps[p].err = <<>>
  /\ LET s == RejectAll(Now, Waiting \cup InFlight)
     IN  Become([s EXCEPT !.br.proc = NoProc, !.br.init = FALSE,
                          !.ps[p].state = "closed"])
  /\ UNCHANGED <<ran, faults>>

-----------------------------------------------------------------------------
(* PowerShell.                                                             *)

\* The next command is executed.  Initialisation prints nothing.
Printed(p, e, kind) == [entry |-> e, kind |-> kind, from |-> p]
Execute(p) ==
  /\ ps[p].state = "live"
  /\ ps[p].todo # <<>> /\ ps[p].due = NoEntry
  /\ LET e == Head(ps[p].todo) IN
     \E o \in IF e.stage = "cmd" THEN Outcomes ELSE {"ok"} :
       /\ ps' = [ps EXCEPT
            ![p].todo = Tail(@), ![p].due = e,
            ![p].out = IF e.stage = "cmd" /\ o = "ok"
                         THEN Append(@, Printed(p, e, "object")) ELSE @,
            ![p].err = IF o = "ok" THEN @ ELSE Append(@, o)]
       /\ IF e.stage = "cmd"
            THEN /\ call' = [call EXCEPT ![e.req].outcome = o]
                 /\ ran' = [ran EXCEPT ![e.req] = @ + (IF o = "ok" THEN 1 ELSE 0)]
            ELSE UNCHANGED <<call, ran>>
  /\ UNCHANGED <<br, faults>>

\* The statement after the command.
PrintMarker(p) ==
  /\ ps[p].state = "live" /\ ps[p].due # NoEntry
  /\ ps' = [ps EXCEPT ![p].due = NoEntry,
                       ![p].out = Append(@, Printed(p, ps[p].due, "marker"))]
  /\ UNCHANGED <<br, call, ran, faults>>

\* A command that never ends.
Hang(p) ==
  /\ ps[p].state = "live" /\ ps[p].todo # <<>> /\ ps[p].due = NoEntry
  /\ Fault
  /\ ps' = [ps EXCEPT ![p].state = "hung"]
  /\ UNCHANGED <<br, call, ran>>

Dying(p) ==
  ps' = [ps EXCEPT ![p].state = "dead", ![p].todo = <<>>, ![p].due = NoEntry]

Crash(p) ==
  /\ ps[p].state = "live"
  /\ Fault
  /\ Dying(p)
  /\ UNCHANGED <<br, call, ran>>

\* The timers of dispose: SIGTERM, then SIGKILL.
Kill(p) ==
  /\ ps[p].doomed /\ ps[p].state \in {"live", "hung"}
  /\ Dying(p)
  /\ UNCHANGED <<br, call, ran, faults>>

-----------------------------------------------------------------------------

Handlers(p) == OnStdout(p) \/ OnStderr(p) \/ OnClose(p)

Next ==
  \/ \E r \in Req : Refuse(r) \/ Invoke(r) \/ Retry(r)
  \/ Dispose \/ TimeOut \/ Overflow
  \/ \E p \in Proc : \/ Handlers(p) \/ Execute(p) \/ PrintMarker(p)
                     \/ Hang(p) \/ Crash(p) \/ Kill(p)

Spec == Init /\ [][Next]_vars

\* Timers fire and the event loop goes on; nothing is assumed of PowerShell.
FairSpec ==
  /\ Spec
  /\ WF_vars(TimeOut)
  /\ \A r \in Req : WF_vars(Retry(r))
  /\ \A p \in Proc : WF_vars(Handlers(p)) /\ WF_vars(Kill(p))

-----------------------------------------------------------------------------
(* Properties.                                                             *)

\* What a caller is told is true of its own command: an object that the process
\* of the command has printed means that it took effect, once for all its
\* retries, and the text of an error that it did not, whatever other commands,
\* timed-out ones included, have printed in between.  Of an object that another
\* process has printed nothing is said: that process writes to the same buffer.
AnswersAreTrue ==
  \A r \in Req :
    /\ ran[r] <= 1
    /\ call[r].result = "data" => ran[r] = 1
    /\ call[r].result \in {"error", "throttled"} => ran[r] = 0

\* Not true of the code: the object that a process prints after dispose, or after
\* it was replaced, is taken for the answer of a command that has failed in the
\* process after it.
ObjectsAreOnesOwn ==
  \A r \in Req : call[r].result \in {"data", "alien"} => ran[r] = 1

\* Every command that is sent is answered or rejected at last, whatever becomes
\* of the process it was written to and of the commands before it.
CommandsSettle ==
  \A r \in Req : call[r].pc = "sent" ~> call[r].pc # "sent"

\* invokeRaw "captures stderrBuffer before the next command can overwrite it":
\* a command is reported as a success without data only when nothing had come
\* over stderr by the time its marker was read.
StderrIsCaptured ==
  [][\A r \in Req :
       call'[r].result = "null" /\ call[r].result # "null" => br.err = {}]_vars

=============================================================================
