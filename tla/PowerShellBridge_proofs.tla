------------------------ MODULE PowerShellBridge_proofs ------------------------
(***************************************************************************)
(* Proofs about PowerShellBridge, for any calls, lengths of the queue,     *)
(* retries, processes and faults: types, and that answers are true.        *)
(*                                                                         *)
(* The functions of the bridge take its state as a value; so do the        *)
(* invariants, and a lemma says of each function what it preserves.        *)
(***************************************************************************)
EXTENDS PowerShellBridge, TLAPS

State == [br : Bridge, call : [Req -> Call], ps : [Proc -> Process]]

\* The command of a caller, as it is written to a process.
Cmd(r) == [req |-> r, stage |-> "cmd"]

\* The command of r waits in no process, its marker is not due, and nothing of
\* it is in a pipe.
Unwritten(s, r) ==
  \A p \in Proc :
    /\ \A i \in DOMAIN s.ps[p].todo : s.ps[p].todo[i] # Cmd(r)
    /\ s.ps[p].due # Cmd(r)
    /\ \A i \in DOMAIN s.ps[p].out : s.ps[p].out[i].entry # Cmd(r)

Fresh(s, n, r) == Unwritten(s, r) /\ n[r] = 0

\* It waits in one place at most, and only if it has had no effect yet.
WaitsOnce(s, n, r) ==
  \A p, q \in Proc : \A i \in DOMAIN s.ps[p].todo :
    s.ps[p].todo[i] = Cmd(r) =>
      /\ n[r] = 0
      /\ \A j \in DOMAIN s.ps[q].todo : s.ps[q].todo[j] = Cmd(r) => p = q /\ i = j
      /\ s.ps[q].due # Cmd(r)
      /\ \A j \in DOMAIN s.ps[q].out : s.ps[q].out[j].entry # Cmd(r)

\* Until its marker is printed, at most its object is in a pipe, as the last.
DueOnce(s, r) ==
  \A p, q \in Proc :
    s.ps[p].due = Cmd(r) =>
      /\ s.ps[q].due = Cmd(r) => p = q
      /\ \A j \in DOMAIN s.ps[q].out :
           s.ps[q].out[j].entry = Cmd(r) =>
             /\ p = q /\ Object(s.ps[q].out[j])
             /\ j + 1 \notin DOMAIN s.ps[q].out

\* It leaves one object at most, if it took effect, and one marker behind it.
PrintedOnce(s, n, r) ==
  \A p, q \in Proc : \A i \in DOMAIN s.ps[p].out :
    s.ps[p].out[i].entry = Cmd(r) =>
      /\ Object(s.ps[p].out[i]) => n[r] = 1
      /\ \A j \in DOMAIN s.ps[q].out :
           s.ps[q].out[j].entry = Cmd(r) =>
             /\ p = q
             /\ (Object(s.ps[p].out[i]) <=> Object(s.ps[q].out[j])) => i = j
             /\ Object(s.ps[p].out[i]) /\ ~Object(s.ps[q].out[j]) => j = i + 1

WrittenOnce(s, n, r) == WaitsOnce(s, n, r) /\ DueOnce(s, r) /\ PrintedOnce(s, n, r)

\* The next thing that a process prints after an object is the marker of the
\* same command, unless it dies before.
Gone(w) == w.state \in {"dead", "closed"}
Ends(w, e) == w.due = e \/ Gone(w)

Follows(w, i) ==
  /\ i + 1 \in DOMAIN w.out => w.out[i + 1].entry = w.out[i].entry
  /\ i + 1 \notin DOMAIN w.out => Ends(w, w.out[i].entry)

Paired(w, p) ==
  \A i \in DOMAIN w.out :
    /\ w.out[i].from = p
    /\ Object(w.out[i]) => w.out[i].entry.stage = "cmd" /\ Follows(w, i)

\* So it is with the object heard last, whose command has taken effect.
Closes(w, e) ==
  /\ w.out # <<>> => w.out[1].entry = e
  /\ w.out = <<>> => Ends(w, e)

LastHeard(s, n) ==
  s.br.out # <<>> =>
    LET k == s.br.out[Len(s.br.out)]
    IN  Object(k) => n[k.entry.req] # 0 /\ Closes(s.ps[k.from], k.entry)

\* When the current command has taken effect something has been heard since it
\* was written, or its object is still in a pipe.
Kept(s, n) ==
  \A r \in Req :
    s.br.cur = Cmd(r) /\ n[r] # 0 =>
      \/ s.br.out # <<>>
      \/ \E p \in Proc : \E i \in DOMAIN s.ps[p].out :
           s.ps[p].out[i].entry = Cmd(r) /\ Object(s.ps[p].out[i])

Orderly(s, n) == (\A p \in Proc : Paired(s.ps[p], p)) /\ LastHeard(s, n) /\ Kept(s, n)

\* A call has one command in the queue or current, and only while it is sent.
OneEach(s) ==
  /\ \A i, j \in DOMAIN s.br.queue : s.br.queue[i].req = s.br.queue[j].req => i = j
  /\ s.br.cur # NoEntry =>
       \A i \in DOMAIN s.br.queue : s.br.queue[i].req # s.br.cur.req

Awaited(s) ==
  /\ \A i \in DOMAIN s.br.queue : s.call[s.br.queue[i].req].pc = "sent"
  /\ s.br.cur # NoEntry => s.call[s.br.cur.req].pc = "sent"

\* Nothing has come of a command before it is written.
Unsent(s, n) ==
  /\ \A r \in Req : s.call[r].pc \in {"idle", "backoff"} => Fresh(s, n, r)
  /\ \A i \in DOMAIN s.br.queue : Fresh(s, n, s.br.queue[i].req)
  /\ s.br.cur # NoEntry /\ s.br.cur.stage # "cmd" => Fresh(s, n, s.br.cur.req)

Truthful(s, n, r) ==
  /\ n[r] <= 1
  /\ s.call[r].result = "data" => n[r] = 1
  /\ s.call[r].result \in {"error", "throttled"} => Fresh(s, n, r)
  /\ s.call[r].pc # "done" => s.call[r].result = "none"
  /\ s.call[r].pc = "backoff" => s.call[r].attempt < MaxRetries

Inactive(s, r) ==
  /\ \A i \in DOMAIN s.br.queue : s.br.queue[i].req # r
  /\ s.br.cur # NoEntry => s.br.cur.req # r

Sound(s, n) ==
  /\ s \in State /\ Len(s.br.queue) <= MaxQueue /\ n \in [Req -> Nat]
  /\ OneEach(s) /\ Awaited(s) /\ Unsent(s, n)
  /\ \A r \in Req : WrittenOnce(s, n, r) /\ Truthful(s, n, r)
  /\ Orderly(s, n)

BridgeInv == Sound(Now, ran) /\ faults \in 0 .. MaxFaults

-----------------------------------------------------------------------------
(* What the functions of the bridge preserve.                              *)

LEMMA EntryFacts ==
  /\ NoEntry \notin Entry
  /\ \A e \in Entry : e.req \in Req /\ e.stage \in Stages
  /\ \A e \in Entry : e.stage = "cmd" => e = Cmd(e.req)
  /\ \A r \in Req : Cmd(r) \in Entry /\ Cmd(r).req = r /\ Cmd(r).stage = "cmd"
BY DEF NoEntry, Entry, Stages, Cmd

LEMMA AppendFacts ==
  ASSUME NEW S, NEW q \in Seq(S), NEW e \in S, NEW i \in DOMAIN Append(q, e)
  PROVE  \/ i \in DOMAIN q /\ Append(q, e)[i] = q[i]
         \/ i = Len(q) + 1 /\ Append(q, e)[i] = e
OBVIOUS

LEMMA TailFacts ==
  ASSUME NEW S, NEW q \in Seq(S), q # <<>>, NEW i \in DOMAIN Tail(q)
  PROVE  i \in Nat /\ i + 1 # 1 /\ i + 1 \in DOMAIN q /\ Tail(q)[i] = q[i + 1]
OBVIOUS

LEMMA HeadFacts ==
  ASSUME NEW S, NEW q \in Seq(S), q # <<>>
  PROVE  /\ Head(q) = q[1] /\ 1 \in DOMAIN q /\ Head(q) \in S
         /\ Tail(q) \in Seq(S)
         /\ Tail(q) = <<>> => 1 + 1 \notin DOMAIN q
<1>1. Head(q) = q[1] /\ 1 \in DOMAIN q /\ Head(q) \in S /\ Tail(q) \in Seq(S)
  OBVIOUS
<1>2. ASSUME 1 + 1 \in DOMAIN q PROVE Tail(q) # <<>>
  <2>1. 1 \in DOMAIN Tail(q)
    BY <1>2
  <2>2. DOMAIN <<>> = {}
    OBVIOUS
  <2> QED BY <2>1, <2>2
<1> QED BY <1>1, <1>2

\* A process that has the same in its pipe, and the same marker due, or is gone.
Keeps(v, w) ==
  v.out = w.out /\ (Gone(v) \/ (v.due = w.due /\ (Gone(w) => Gone(v))))

LEMMA KeepsFacts ==
  ASSUME NEW v, NEW w, Keeps(v, w)
  PROVE  /\ \A e : Closes(w, e) => Closes(v, e)
         /\ \A p : Paired(w, p) => Paired(v, p)
<1>1. v.out = w.out /\ \A e : Ends(w, e) => Ends(v, e)
  BY DEF Keeps, Ends
<1>2. \A i : Follows(w, i) => Follows(v, i)
  BY <1>1 DEF Follows
<1>3. \A e : Closes(w, e) => Closes(v, e)
  BY <1>1 DEF Closes
<1>4. \A p : Paired(w, p) => Paired(v, p)
  BY <1>1, <1>2 DEF Paired
<1> QED BY <1>3, <1>4

\* What has been heard last is of a process, and of a call.
LEMMA LastFacts ==
  ASSUME NEW out \in Seq(Item), out # <<>>
  PROVE  /\ out[Len(out)] \in Item /\ out[Len(out)].from \in Proc
         /\ out[Len(out)].entry \in Entry /\ out[Len(out)].entry.req \in Req
<1>1. Len(out) \in DOMAIN out
  OBVIOUS
<1>2. out[Len(out)] \in Item
  BY <1>1
<1> QED BY <1>2, EntryFacts DEF Item

LEMMA OrderlyAlike ==
  ASSUME NEW s \in State, NEW n, NEW u \in State, Orderly(s, n),
         \A p \in Proc : Keeps(u.ps[p], s.ps[p]),
         u.br.out \in {s.br.out, <<>>}, Kept(u, n)
  PROVE  Orderly(u, n)
<1>1. \A p \in Proc : Paired(u.ps[p], p)
  BY KeepsFacts DEF Orderly
<1>2. LastHeard(u, n)
  <2> SUFFICES ASSUME u.br.out # <<>> PROVE LastHeard(u, n)
    BY DEF LastHeard
  <2>1. u.br.out = s.br.out /\ s.br.out \in Seq(Item)
    BY DEF State, Bridge
  <2> DEFINE k == s.br.out[Len(s.br.out)]
  <2>2. k.from \in Proc
    BY <2>1, LastFacts
  <2>3. Object(k) => n[k.entry.req] # 0 /\ Closes(s.ps[k.from], k.entry)
    BY <2>1 DEF Orderly, LastHeard
  <2>4. Keeps(u.ps[k.from], s.ps[k.from])
    BY <2>2
  <2>5. Object(k) => Closes(u.ps[k.from], k.entry)
    <3>1. \A e : Closes(s.ps[k.from], e) => Closes(u.ps[k.from], e)
      <4> HIDE DEF k
      <4> QED BY ONLY <2>4, KeepsFacts
    <3> QED BY <2>3, <3>1
  <2> QED BY <2>1, <2>3, <2>5 DEF LastHeard
<1> QED BY <1>1, <1>2 DEF Orderly

\* The next command is written; nothing else of the calls changes.
LEMMA ProcessQueueSound ==
  ASSUME NEW s, NEW n, Sound(s, n)
  PROVE  /\ Sound(ProcessQueue(s), n)
         /\ ProcessQueue(s).call = s.call
         /\ \A r \in Req : Inactive(s, r) =>
              /\ Inactive(ProcessQueue(s), r)
              /\ Fresh(s, n, r) => Fresh(ProcessQueue(s), n, r)
<1>1. CASE s.br.cur # NoEntry \/ s.br.queue = <<>>
  BY <1>1 DEF ProcessQueue
<1>2. CASE s.br.cur = NoEntry /\ s.br.queue # <<>>
  <2> DEFINE t == ProcessQueue(s)
             e == Head(s.br.queue)
             x == s.br.proc
  <2>1. /\ s \in State /\ s.br \in Bridge /\ s.br.queue \in Seq(Entry)
        /\ s.ps \in [Proc -> Process] /\ s.call \in [Req -> Call]
        /\ e \in Entry /\ e = s.br.queue[1] /\ e.req \in Req /\ Len(s.br.queue) > 0
    BY <1>2, EntryFacts DEF Sound, State, Bridge
  <2>2. t = [s EXCEPT !.br.queue = Tail(@), !.br.cur = e, !.br.out = <<>>,
                      !.br.err = {}, !.ps[x].todo = Append(@, e)]
    BY <1>2 DEF ProcessQueue
  <2>3. /\ t.br = [s.br EXCEPT !.queue = Tail(@), !.cur = e, !.out = <<>>, !.err = {}]
        /\ t.call = s.call
        /\ t.ps = [s.ps EXCEPT ![x].todo = Append(@, e)]
    BY <2>1, <2>2, SMTT(30) DEF State
  <2>4. /\ t.br.queue = Tail(s.br.queue) /\ t.br.cur = e /\ t.br \in Bridge
        /\ t.br.out = <<>>
    <3>1. Tail(s.br.queue) \in Seq(Entry)
      BY <2>1
    <3>2. <<>> \in Seq(Item)
      OBVIOUS
    <3> QED BY <2>1, <2>3, <3>1, <3>2 DEF Bridge
  <2>5. \A p \in Proc :
          /\ t.ps[p].out = s.ps[p].out /\ t.ps[p].due = s.ps[p].due
          /\ t.ps[p].state = s.ps[p].state
          /\ t.ps[p].todo = IF p = x THEN Append(s.ps[p].todo, e) ELSE s.ps[p].todo
          /\ t.ps[p] \in Process
    <3> TAKE p \in Proc
    <3>1. s.ps[p] \in Process /\ s.ps[p].todo \in Seq(Entry)
      BY <2>1 DEF Process
    <3>2. t.ps[p] = IF p = x THEN [s.ps[p] EXCEPT !.todo = Append(@, e)] ELSE s.ps[p]
      BY <2>1, <2>3
    <3>3. Append(s.ps[p].todo, e) \in Seq(Entry)
      BY <3>1, <2>1
    <3> QED BY <3>1, <3>2, <3>3 DEF Process
  <2>51. \A p \in Proc : \A i \in DOMAIN t.ps[p].todo :
           \/ i \in DOMAIN s.ps[p].todo /\ t.ps[p].todo[i] = s.ps[p].todo[i]
           \/ p = x /\ i = Len(s.ps[p].todo) + 1 /\ t.ps[p].todo[i] = e
    <3> TAKE p \in Proc
    <3>1. s.ps[p].todo \in Seq(Entry)
      BY <2>1 DEF Process
    <3>2. CASE p = x
      <4>1. t.ps[p].todo = Append(s.ps[p].todo, e)
        BY <3>2, <2>5
      <4> HIDE DEF t, e, x
      <4>2. ASSUME NEW i \in DOMAIN Append(s.ps[p].todo, e)
            PROVE  \/ i \in DOMAIN s.ps[p].todo
                       /\ Append(s.ps[p].todo, e)[i] = s.ps[p].todo[i]
                   \/ i = Len(s.ps[p].todo) + 1 /\ Append(s.ps[p].todo, e)[i] = e
        BY <3>1, <2>1, AppendFacts
      <4> QED BY <3>2, <4>1, <4>2
    <3>3. CASE p # x
      BY <3>3, <2>5
    <3> QED BY <3>2, <3>3
  <2>6. t \in State
    <3>1. t.ps \in [Proc -> Process]
      BY <2>1, <2>3, <2>5
    <3> QED BY <2>1, <2>2, <2>3, <2>4, <3>1 DEF State
  <2>7. \A i \in DOMAIN t.br.queue :
          i + 1 \in DOMAIN s.br.queue /\ t.br.queue[i] = s.br.queue[i + 1]
    BY <2>1, <2>4
  <2>8. Len(t.br.queue) <= MaxQueue
    BY <2>1, <2>4, BridgeAssumption DEF Sound
  <2>9. 1 \in DOMAIN s.br.queue /\ Fresh(s, n, e.req)
    BY <2>1 DEF Sound, Unsent
  <2>10. OneEach(t)
    <3>1. ASSUME NEW i \in DOMAIN t.br.queue PROVE t.br.queue[i].req # e.req
      <4>1. i + 1 # 1
        BY <2>4, <2>1
      <4> QED BY <2>1, <2>7, <2>9, <4>1 DEF Sound, OneEach
    <3>2. ASSUME NEW i \in DOMAIN t.br.queue, NEW j \in DOMAIN t.br.queue,
                 t.br.queue[i].req = t.br.queue[j].req
          PROVE  i = j
      <4>1. i + 1 = j + 1
        BY <2>7, <3>2 DEF Sound, OneEach
      <4> QED BY <4>1, <2>4, <2>1
    <3> QED BY <3>1, <3>2, <2>4 DEF OneEach
  <2>11. Awaited(t)
    <3>1. Awaited(s)
      BY DEF Sound
    <3>2. \A i \in DOMAIN t.br.queue : t.call[t.br.queue[i].req].pc = "sent"
      BY ONLY <2>3, <2>7, <3>1 DEF Awaited
    <3>3. t.call[e.req].pc = "sent"
      BY <2>1, <2>3, <2>9, <3>1 DEF Awaited
    <3> QED BY <2>4, <3>2, <3>3 DEF Awaited
  <2>12. \A r \in Req : r # e.req /\ Unwritten(s, r) => Unwritten(t, r)
    <3> SUFFICES ASSUME NEW r \in Req, r # e.req, Unwritten(s, r), NEW p \in Proc
                 PROVE  /\ \A i \in DOMAIN t.ps[p].todo : t.ps[p].todo[i] # Cmd(r)
                        /\ t.ps[p].due # Cmd(r)
                        /\ \A i \in DOMAIN t.ps[p].out : t.ps[p].out[i].entry # Cmd(r)
      BY DEF Unwritten
    <3>1. e # Cmd(r)
      BY EntryFacts
    <3> QED BY <2>5, <2>51, <3>1 DEF Unwritten
  <2>13. \A r \in Req : r # e.req /\ Fresh(s, n, r) => Fresh(t, n, r)
    BY <2>12 DEF Fresh
  <2>14. Unsent(t, n)
    <3>1. \A r \in Req : s.call[r].pc \in {"idle", "backoff"} => r # e.req
      BY <2>1, <2>9 DEF Sound, Awaited
    <3>2. \A r \in Req : t.call[r].pc \in {"idle", "backoff"} => Fresh(t, n, r)
      BY <2>3, <2>13, <3>1 DEF Sound, Unsent
    <3>3. ASSUME NEW i \in DOMAIN t.br.queue PROVE Fresh(t, n, t.br.queue[i].req)
      <4>1. t.br.queue[i].req # e.req /\ t.br.queue[i].req \in Req
        BY <2>1, <2>4, <2>7, <2>10, EntryFacts DEF OneEach
      <4> QED BY <2>7, <2>13, <4>1 DEF Sound, Unsent
    <3>4. ASSUME e.stage # "cmd" PROVE Fresh(t, n, e.req)
      <4>1. e # Cmd(e.req)
        BY <3>4 DEF Cmd
      <4>2. ASSUME NEW p \in Proc
            PROVE  /\ \A i \in DOMAIN t.ps[p].todo : t.ps[p].todo[i] # Cmd(e.req)
                   /\ t.ps[p].due # Cmd(e.req)
                   /\ \A i \in DOMAIN t.ps[p].out : t.ps[p].out[i].entry # Cmd(e.req)
        <5> QED BY <2>5, <2>51, <2>9, <4>1 DEF Fresh, Unwritten
      <4> QED BY <2>9, <4>2 DEF Fresh, Unwritten
    <3> QED BY <2>4, <3>2, <3>3, <3>4 DEF Unsent
  <2>15. ASSUME NEW r \in Req PROVE WrittenOnce(t, n, r)
    <3>1. WrittenOnce(s, n, r)
      BY DEF Sound
    <3>2. DueOnce(t, r) /\ PrintedOnce(t, n, r)
      BY <2>5, <3>1 DEF WrittenOnce, DueOnce, PrintedOnce
    <3>3. CASE e # Cmd(r)
      <4>1. \A p \in Proc : \A i \in DOMAIN t.ps[p].todo :
              t.ps[p].todo[i] = Cmd(r) =>
                i \in DOMAIN s.ps[p].todo /\ s.ps[p].todo[i] = Cmd(r)
        BY <2>51, <3>3
      <4>2. WaitsOnce(t, n, r)
        BY <2>5, <3>1, <4>1 DEF WrittenOnce, WaitsOnce
      <4> QED BY <3>2, <4>2 DEF WrittenOnce
    <3>4. CASE e = Cmd(r)
      <4>1. Fresh(s, n, r)
        BY <2>9, <3>4 DEF Cmd
      <4>2. \A p \in Proc : \A i \in DOMAIN t.ps[p].todo :
              t.ps[p].todo[i] = Cmd(r) => p = x /\ i = Len(s.ps[x].todo) + 1
        BY <2>51, <4>1 DEF Fresh, Unwritten
      <4>3. WaitsOnce(t, n, r)
        BY <2>5, <4>1, <4>2 DEF WaitsOnce, Fresh, Unwritten
      <4> QED BY <3>2, <4>3 DEF WrittenOnce
    <3> QED BY <3>3, <3>4
  <2>16. ASSUME NEW r \in Req PROVE Truthful(t, n, r)
    <3>1. Truthful(s, n, r)
      BY DEF Sound
    <3>2. s.call[r].result \in {"error", "throttled"} => r # e.req
      BY <2>1, <2>9, <3>1 DEF Sound, Awaited, Truthful
    <3> QED BY <2>3, <2>13, <3>1, <3>2 DEF Truthful
  <2>17. ASSUME NEW r \in Req, Inactive(s, r)
         PROVE  Inactive(t, r) /\ (Fresh(s, n, r) => Fresh(t, n, r))
    <3>1. r # e.req
      BY <2>1, <2>9, <2>17 DEF Inactive
    <3> QED BY <2>4, <2>7, <2>13, <2>17, <3>1 DEF Inactive
  <2>18. Orderly(t, n)
    <3>1. \A p \in Proc : Keeps(t.ps[p], s.ps[p])
      BY <2>5 DEF Keeps, Gone
    <3>2. Kept(t, n)
      BY <2>4, <2>9 DEF Kept, Fresh, Cmd
    <3>3. PICK u : u = t
      OBVIOUS
    <3>4. /\ u \in State /\ Kept(u, n) /\ \A p \in Proc : Keeps(u.ps[p], s.ps[p])
          /\ u.br.out \in {s.br.out, <<>>}
      BY <2>4, <2>6, <3>1, <3>2, <3>3
    <3>5. Orderly(s, n)
      BY DEF Sound
    <3>6. Orderly(u, n)
      BY ONLY <2>1, <3>4, <3>5, OrderlyAlike
    <3> QED BY <3>3, <3>6
  <2>19. Sound(t, n)
    BY <2>6, <2>8, <2>10, <2>11, <2>14, <2>15, <2>16, <2>18 DEF Sound
  <2> QED BY <2>3, <2>17, <2>19
<1> QED BY <1>1, <1>2

\* The invariant does not look at the process in use, stderr, or the states of
\* processes that are alive; what was to be run may be lost when its process
\* dies, and the current command forgotten, with what was heard.
Alike(u, s) ==
  /\ u.call = s.call /\ u.br.queue = s.br.queue
  /\ \/ u.br.cur = s.br.cur /\ u.br.out = s.br.out
     \/ u.br.cur = NoEntry /\ u.br.out \in {s.br.out, <<>>}
  /\ \A p \in Proc : /\ u.ps[p].todo \in {s.ps[p].todo, <<>>}
                     /\ u.ps[p].due \in {s.ps[p].due, NoEntry}
                     /\ Keeps(u.ps[p], s.ps[p])

LEMMA AlikeSound ==
  ASSUME NEW s, NEW n, Sound(s, n), NEW u \in State, Alike(u, s)
  PROVE  Sound(u, n) /\ \A r \in Req : Fresh(s, n, r) => Fresh(u, n, r)
<1>1. /\ u.call = s.call /\ u.br.queue = s.br.queue
      /\ u.br.cur \in {s.br.cur, NoEntry}
      /\ \A p \in Proc : u.ps[p].out = s.ps[p].out
  BY DEF Alike, Keeps
<1>2. \A r \in Req : \A p \in Proc : u.ps[p].due = Cmd(r) => s.ps[p].due = Cmd(r)
  <2>1. \A r \in Req : NoEntry # Cmd(r)
    BY EntryFacts
  <2> QED BY <2>1 DEF Alike
<1>3. \A p \in Proc : \A i \in DOMAIN u.ps[p].todo :
        i \in DOMAIN s.ps[p].todo /\ u.ps[p].todo[i] = s.ps[p].todo[i]
  BY DEF Alike
<1>4. \A r \in Req : Fresh(s, n, r) => Fresh(u, n, r)
  BY <1>1, <1>2, <1>3 DEF Fresh, Unwritten
<1>5. Len(u.br.queue) <= MaxQueue /\ OneEach(u) /\ Awaited(u)
  BY <1>1 DEF Sound, OneEach, Awaited
<1>6. Unsent(u, n)
  <2>1. s.br \in Bridge
    BY DEF Sound, State
  <2>2. \A i \in DOMAIN s.br.queue : s.br.queue[i].req \in Req
    BY <2>1, EntryFacts DEF Bridge
  <2>3. s.br.cur # NoEntry => s.br.cur.req \in Req
    BY <2>1, EntryFacts DEF Bridge
  <2> QED BY <1>1, <1>4, <2>2, <2>3 DEF Sound, Unsent
<1>7. ASSUME NEW r \in Req PROVE WrittenOnce(u, n, r)
  <2>1. WrittenOnce(s, n, r)
    BY DEF Sound
  <2>2. WaitsOnce(u, n, r)
    BY <1>1, <1>2, <1>3, <2>1 DEF WrittenOnce, WaitsOnce
  <2>3. DueOnce(u, r)
    BY <1>1, <1>2, <2>1 DEF WrittenOnce, DueOnce
  <2>4. PrintedOnce(u, n, r)
    BY <1>1, <2>1 DEF WrittenOnce, PrintedOnce
  <2> QED BY <2>2, <2>3, <2>4 DEF WrittenOnce
<1>8. ASSUME NEW r \in Req PROVE Truthful(u, n, r)
  BY <1>1, <1>4 DEF Sound, Truthful
<1>9. Orderly(u, n)
  <2>1. s \in State /\ Orderly(s, n)
    BY DEF Sound
  <2>2. Kept(u, n)
    <3>1. CASE u.br.cur = NoEntry
      BY <3>1, EntryFacts DEF Kept
    <3>2. CASE u.br.cur = s.br.cur /\ u.br.out = s.br.out
      BY <1>1, <2>1, <3>2 DEF Orderly, Kept
    <3> QED BY <3>1, <3>2 DEF Alike
  <2>3. u.br.out \in {s.br.out, <<>>} /\ \A p \in Proc : Keeps(u.ps[p], s.ps[p])
    BY DEF Alike
  <2> QED BY <2>1, <2>2, <2>3, OrderlyAlike
<1> QED BY <1>4, <1>5, <1>6, <1>7, <1>8, <1>9 DEF Sound

\* A call that has nothing in the queue may change, if what it is told is true.
LEMMA CallSound ==
  ASSUME NEW s, NEW n, Sound(s, n), NEW r \in Req, Inactive(s, r),
         NEW c \in Call,
         c.pc \in {"idle", "backoff"} \/ c.result \in {"error", "throttled"} => Fresh(s, n, r),
         c.result = "data" => n[r] = 1,
         c.pc # "done" => c.result = "none",
         c.pc = "backoff" => c.attempt < MaxRetries,
         NEW t, t = [s EXCEPT !.call[r] = c]
  PROVE  /\ Sound(t, n) /\ t.br = s.br /\ t.ps = s.ps /\ t.call[r] = c
         /\ \A q \in Req : Fresh(s, n, q) <=> Fresh(t, n, q)
<1>1. s \in State /\ s.call \in [Req -> Call]
  BY DEF Sound, State
<1>2. t.br = s.br /\ t.ps = s.ps /\ t.call = [s.call EXCEPT ![r] = c]
  BY <1>1 DEF State
<1>3. t.call[r] = c /\ \A q \in Req \ {r} : t.call[q] = s.call[q]
  BY <1>1, <1>2
<1>4. t \in State
  BY <1>1, <1>2 DEF State
<1>5. \A q \in Req : Fresh(s, n, q) <=> Fresh(t, n, q)
  BY <1>2 DEF Fresh, Unwritten
<1>6. s.br.queue \in Seq(Entry) /\ s.br.cur \in Entry \cup {NoEntry}
  BY <1>1 DEF State, Bridge
<1>7. /\ \A i \in DOMAIN s.br.queue : s.br.queue[i].req \in Req \ {r}
      /\ s.br.cur # NoEntry => s.br.cur.req \in Req \ {r}
  BY <1>6, EntryFacts DEF Inactive
<1>8. Len(t.br.queue) <= MaxQueue /\ OneEach(t) /\ Awaited(t)
  BY <1>2, <1>3, <1>7 DEF Sound, OneEach, Awaited
<1>9. Unsent(t, n)
  BY <1>2, <1>3, <1>5, <1>7 DEF Sound, Unsent
<1>10. \A q \in Req : WrittenOnce(t, n, q)
  BY <1>2 DEF Sound, WrittenOnce, WaitsOnce, DueOnce, PrintedOnce
<1>11. \A q \in Req : Truthful(t, n, q)
  <2>1. Truthful(t, n, r)
    BY <1>3, <1>5 DEF Sound, Truthful
  <2>2. \A q \in Req \ {r} : Truthful(t, n, q)
    BY <1>3, <1>5 DEF Sound, Truthful
  <2> QED BY <2>1, <2>2
<1>12. Orderly(t, n)
  BY <1>2 DEF Sound, Orderly, LastHeard, Kept
<1> QED BY <1>2, <1>3, <1>4, <1>5, <1>8, <1>9, <1>10, <1>11, <1>12 DEF Sound

\* It is settled with something true.
LEMMA SettleSound ==
  ASSUME NEW s, NEW n, Sound(s, n), NEW r \in Req, Inactive(s, r),
         NEW result \in Results,
         result = "data" => n[r] = 1,
         result \in {"error", "throttled"} => Fresh(s, n, r)
  PROVE  Sound(Settle(s, r, result), n)
<1> DEFINE c == [s.call[r] EXCEPT !.pc = "done", !.result = result]
<1>1. s \in State /\ s.call \in [Req -> Call] /\ s.call[r] \in Call
  BY DEF Sound, State
<1>2. c \in Call /\ c.pc = "done" /\ c.result = result
  BY <1>1 DEF Call
<1>3. Settle(s, r, result) = [s EXCEPT !.call[r] = c]
  BY <1>1 DEF Settle, State
<1> HIDE DEF c
<1> QED BY <1>2, <1>3, CallSound

\* A call that has nothing in the queue and has had no effect joins the queue,
\* or is rejected.
LEMMA SendRawSound ==
  ASSUME NEW s, NEW n, Sound(s, n), NEW r \in Req, NEW stage \in Stages,
         Inactive(s, r), Fresh(s, n, r), s.call[r].pc = "sent"
  PROVE  Sound(SendRaw(s, r, stage), n)
<1>1. CASE s.br.proc = NoProc \/ Len(s.br.queue) >= MaxQueue
  BY <1>1, SettleSound DEF SendRaw, Results
<1>2. CASE ~(s.br.proc = NoProc \/ Len(s.br.queue) >= MaxQueue)
  <2> DEFINE e == [req |-> r, stage |-> stage]
             t == [s EXCEPT !.br.queue = Append(@, e)]
  <2>1. /\ s \in State /\ s.br \in Bridge /\ s.br.queue \in Seq(Entry)
        /\ e \in Entry /\ e.req = r
    BY DEF Sound, State, Bridge, Entry
  <2>2. t.br = [s.br EXCEPT !.queue = Append(@, e)] /\ t.call = s.call /\ t.ps = s.ps
    BY <2>1 DEF State
  <2>3. Append(s.br.queue, e) \in Seq(Entry)
    BY <2>1
  <2>4. /\ t.br.queue = Append(s.br.queue, e) /\ t.br.cur = s.br.cur
        /\ t.br.out = s.br.out
        /\ t.br \in Bridge /\ t \in State
    BY <2>1, <2>2, <2>3 DEF Bridge, State
  <2>5. Len(t.br.queue) <= MaxQueue
    BY <1>2, <2>1, <2>4, BridgeAssumption
  <2>6. ASSUME NEW i \in DOMAIN t.br.queue
        PROVE  \/ i \in DOMAIN s.br.queue /\ t.br.queue[i] = s.br.queue[i]
               \/ i = Len(s.br.queue) + 1 /\ t.br.queue[i] = e
    <3> HIDE DEF e, t
    <3> QED BY <2>1, <2>4, AppendFacts
  <2> HIDE DEF e, t
  <2>7. \A q \in Req : Fresh(s, n, q) <=> Fresh(t, n, q)
    BY <2>2 DEF Fresh, Unwritten
  <2>8. OneEach(t) /\ Awaited(t)
    BY <2>1, <2>2, <2>4, <2>6 DEF Sound, OneEach, Awaited, Inactive
  <2>9. Unsent(t, n)
    <3>1. \A i \in DOMAIN s.br.queue : s.br.queue[i].req \in Req
      BY <2>1, EntryFacts
    <3>2. s.br.cur # NoEntry => s.br.cur.req \in Req
      BY <2>1, EntryFacts DEF Bridge
    <3> QED BY <2>1, <2>2, <2>4, <2>6, <2>7, <3>1, <3>2 DEF Sound, Unsent
  <2>10. \A q \in Req : WrittenOnce(t, n, q) /\ Truthful(t, n, q)
    <3>1. \A q \in Req : WrittenOnce(t, n, q)
      BY <2>2 DEF Sound, WrittenOnce, WaitsOnce, DueOnce, PrintedOnce
    <3>2. \A q \in Req : Truthful(t, n, q)
      BY <2>2, <2>7 DEF Sound, Truthful
    <3> QED BY <3>1, <3>2
  <2>11. Orderly(t, n)
    BY <2>2, <2>4 DEF Sound, Orderly, LastHeard, Kept
  <2>12. Sound(t, n)
    BY <2>4, <2>5, <2>8, <2>9, <2>10, <2>11 DEF Sound
  <2> QED BY <1>2, <2>12, ProcessQueueSound DEF SendRaw, t, e
<1> QED BY <1>1, <1>2

\* Another process may be started for it.
LEMMA EnsureInitializedSound ==
  ASSUME NEW s, NEW n, Sound(s, n), NEW r \in Req,
         Unused # {} \/ (s.br.init /\ s.br.proc # NoProc), s.ps = ps,
         Inactive(s, r), Fresh(s, n, r), s.call[r].pc = "sent"
  PROVE  Sound(EnsureInitialized(s, r), n)
<1>1. CASE s.br.init /\ s.br.proc # NoProc
  BY <1>1, SendRawSound DEF EnsureInitialized, Stages
<1>2. CASE ~(s.br.init /\ s.br.proc # NoProc)
  <2> DEFINE p == CHOOSE q \in Unused : TRUE
             t == [s EXCEPT !.br.proc = p, !.ps[p].state = "live"]
  <2>1. p \in Proc /\ s.ps[p].state = "none"
    BY <1>2 DEF Unused
  <2> HIDE DEF p
  <2>2. /\ s \in State /\ s.br \in Bridge /\ s.ps \in [Proc -> Process]
    BY DEF Sound, State
  <2>3. /\ t.br = [s.br EXCEPT !.proc = p] /\ t.call = s.call
        /\ t.ps = [s.ps EXCEPT ![p] = [@ EXCEPT !.state = "live"]]
    BY <2>1, <2>2 DEF State
  <2>4. /\ t.br \in Bridge /\ t.br.queue = s.br.queue /\ t.br.cur = s.br.cur
        /\ t.br.out = s.br.out
    BY <2>1, <2>2, <2>3 DEF Bridge
  <2>5. \A q \in Proc :
          /\ t.ps[q] \in Process
          /\ t.ps[q].todo = s.ps[q].todo /\ t.ps[q].due = s.ps[q].due
          /\ Keeps(t.ps[q], s.ps[q])
    <3> TAKE q \in Proc
    <3>1. s.ps[q] \in Process /\ (q = p => s.ps[q].state = "none")
      BY <2>1, <2>2
    <3>2. t.ps[q] = IF q = p THEN [s.ps[q] EXCEPT !.state = "live"] ELSE s.ps[q]
      BY <2>2, <2>3
    <3> QED BY <3>1, <3>2 DEF Process, Keeps, Gone
  <2>6. t \in State
    <3>1. t.ps \in [Proc -> Process]
      BY <2>2, <2>3, <2>5
    <3> QED BY <2>2, <2>3, <2>4, <3>1 DEF State
  <2> HIDE DEF t
  <2>7. Sound(t, n) /\ Fresh(t, n, r)
    <3>1. Alike(t, s)
      BY <2>3, <2>4, <2>5 DEF Alike
    <3> QED BY <2>6, <3>1, AlikeSound
  <2>8. Inactive(t, r) /\ t.call[r].pc = "sent"
    BY <2>3, <2>4 DEF Inactive
  <2>9. Sound(SendRaw(t, r, "flush"), n)
    BY <2>7, <2>8, SendRawSound DEF Stages
  <2> QED BY <1>2, <2>9 DEF EnsureInitialized, t, p
<1> QED BY <1>1, <1>2

\* An object is what has been heard last, and an error is reported only when
\* nothing has been heard.
LEMMA InterpretFacts ==
  ASSUME NEW heard \in Seq(Item), NEW err, NEW p
  PROVE  /\ Interpret(heard, err, p) \in Results
         /\ Interpret(heard, err, p) = "data" =>
              /\ heard # <<>> /\ Object(heard[Len(heard)])
              /\ heard[Len(heard)].from = p
         /\ Interpret(heard, err, p) \in {"error", "throttled"} => heard = <<>>
<1>1. CASE heard = <<>>
  BY <1>1 DEF Interpret, WithNothing, Results
<1>2. CASE heard # <<>>
  <2>1. Len(heard) \in DOMAIN heard
    BY <1>2
  <2>2. WithObject(heard, p) \in {"data", "alien"}
    BY DEF WithObject
  <2>3. WithObject(heard, p) = "data" => heard[Len(heard)].from = p
    BY DEF WithObject
  <2>4. Interpret(heard, err, p) \in {WithObject(heard, p), "text"}
    BY <1>2 DEF Interpret
  <2>5. Interpret(heard, err, p) # "text" => Object(heard[Len(heard)])
    BY <1>2, <2>1 DEF Interpret
  <2>6. Interpret(heard, err, p) \in {"data", "alien", "text"}
    BY <2>2, <2>4
  <2>7. Interpret(heard, err, p) = "data" => WithObject(heard, p) = "data"
    BY <2>4
  <2> QED BY <1>2, <2>3, <2>5, <2>6, <2>7 DEF Results
<1> QED BY <1>1, <1>2

\* What a caller goes on with keeps the invariant if the output was its own.
LEMMA ContinueSound ==
  ASSUME NEW s, NEW n, Sound(s, n), NEW e \in Entry, NEW p \in Proc,
         Inactive(s, e.req), s.call[e.req].pc = "sent", br.out \in Seq(Item),
         e.stage # "cmd" \/ br.out = <<>> => Fresh(s, n, e.req),
         Interpret(br.out, s.br.err, p) = "data" /\ e.stage = "cmd" => n[e.req] = 1
  PROVE  Sound(Continue(s, e, p), n)
<1>1. e.req \in Req /\ e.stage \in Stages
  BY EntryFacts
<1>2. s \in State /\ s.call \in [Req -> Call] /\ s.call[e.req] \in Call
  BY <1>1 DEF Sound, State
<1>3. CASE e.stage = "flush"
  BY <1>1, <1>3, SendRawSound DEF Continue, Stages
<1>4. CASE e.stage = "import"
  <2> DEFINE t == [s EXCEPT !.br.init = TRUE]
  <2>1. t.br = [s.br EXCEPT !.init = TRUE] /\ t.call = s.call /\ t.ps = s.ps
    BY <1>2 DEF State
  <2>2. /\ t \in State /\ t.br.queue = s.br.queue /\ t.br.cur = s.br.cur
        /\ t.br.out = s.br.out
    BY <1>2, <2>1 DEF State, Bridge
  <2> HIDE DEF t
  <2>3. Sound(t, n) /\ Fresh(t, n, e.req)
    <3>1. Alike(t, s)
      BY <2>1, <2>2 DEF Alike, Keeps
    <3>2. e.stage # "cmd"
      BY <1>4
    <3> QED BY <1>1, <2>2, <3>1, <3>2, AlikeSound
  <2>4. Inactive(t, e.req) /\ t.call[e.req].pc = "sent"
    BY <2>1, <2>2 DEF Inactive
  <2>5. Sound(SendRaw(t, e.req, "cmd"), n)
    BY <1>1, <2>3, <2>4, SendRawSound DEF Stages
  <2> QED BY <1>4, <2>5 DEF Continue, t
<1>5. CASE e.stage = "cmd"
  <2> DEFINE result == Interpret(br.out, s.br.err, p)
  <2>1. /\ result \in Results
        /\ result \in {"error", "throttled"} => br.out = <<>>
    BY InterpretFacts
  <2> HIDE DEF result
  <2>2. CASE result = "throttled" /\ s.call[e.req].attempt < MaxRetries
    <3> DEFINE c == [s.call[e.req] EXCEPT !.pc = "backoff"]
    <3>1. /\ c \in Call /\ c.pc = "backoff" /\ c.result = s.call[e.req].result
          /\ c.attempt = s.call[e.req].attempt
      BY <1>2 DEF Call
    <3>2. c.result = "none"
      BY <1>1, <3>1 DEF Sound, Truthful
    <3>3. Continue(s, e, p) = BackOff(s, e.req)
      BY <1>5, <2>2 DEF Continue, result
    <3>4. BackOff(s, e.req) = [s EXCEPT !.call[e.req] = c]
      BY <1>1, <1>2 DEF BackOff, State
    <3> HIDE DEF c
    <3> QED BY <1>1, <2>1, <2>2, <3>1, <3>2, <3>3, <3>4, CallSound
  <2>3. CASE ~(result = "throttled" /\ s.call[e.req].attempt < MaxRetries)
    <3>1. Continue(s, e, p) = Settle(s, e.req, result)
      BY <1>5, <2>3 DEF Continue, result
    <3>2. /\ result = "data" => n[e.req] = 1
          /\ result \in {"error", "throttled"} => Fresh(s, n, e.req)
      BY <1>5, <2>1 DEF result
    <3>3. Sound(Settle(s, e.req, result), n)
      BY <1>1, <2>1, <3>2, SettleSound
    <3> QED BY <3>1, <3>3
  <2> QED BY <2>2, <2>3
<1> QED BY <1>1, <1>3, <1>4, <1>5 DEF Stages

-----------------------------------------------------------------------------
(* What a process does to them.                                            *)

\* An item is taken from a pipe and joins what has been heard, or is the current
\* marker, when what was heard is dropped.
Take(s, p, out) == [s EXCEPT !.br.out = out, !.ps[p].out = Tail(@)]

\* After the marker of a command no more of it is to come.
LEMMA TakeSound ==
  ASSUME NEW s, NEW n, Sound(s, n), NEW p \in Proc, s.ps[p].out # <<>>,
         NEW k, k = Head(s.ps[p].out), NEW out,
         \/ out = <<>> /\ s.br.cur = NoEntry
         \/ out = Append(s.br.out, k)
  PROVE  /\ Sound(Take(s, p, out), n) /\ Take(s, p, out).call = s.call
         /\ Take(s, p, out).br = [s.br EXCEPT !.out = out]
         /\ \A r \in Req : Fresh(s, n, r) => Fresh(Take(s, p, out), n, r)
         /\ \A r \in Req : k.entry = Cmd(r) /\ ~Object(k) => Unwritten(Take(s, p, out), r)
<1> DEFINE u == Take(s, p, out)
           o == [s.ps[p] EXCEPT !.out = Tail(@)]
<1>1. /\ s \in State /\ s.ps \in [Proc -> Process] /\ s.ps[p] \in Process
      /\ s.br \in Bridge /\ s.br.out \in Seq(Item)
  BY DEF Sound, State, Bridge
<1>2. /\ s.ps[p].out \in Seq(Item)
      /\ k = s.ps[p].out[1] /\ 1 \in DOMAIN s.ps[p].out
      /\ k \in Item /\ k.entry \in Entry
      /\ Tail(s.ps[p].out) \in Seq(Item)
  <2>1. s.ps[p].out \in Seq(Item)
    BY <1>1 DEF Process
  <2>2. \A item \in Item : item.entry \in Entry
    BY DEF Item
  <2> QED BY <2>1, <2>2, HeadFacts
<1>21. out \in Seq(Item)
  <2>1. <<>> \in Seq(Item) /\ Append(s.br.out, k) \in Seq(Item)
    BY <1>1, <1>2
  <2> QED BY <2>1
<1>3. /\ u.br = [s.br EXCEPT !.out = out] /\ u.call = s.call
      /\ u.ps = [s.ps EXCEPT ![p] = o]
      /\ o \in Process /\ o.todo = s.ps[p].todo /\ o.out = Tail(s.ps[p].out)
      /\ o.due = s.ps[p].due /\ o.state = s.ps[p].state
      /\ u = [br |-> u.br, call |-> s.call, ps |-> u.ps]
  <2>1. /\ o \in Process /\ o.todo = s.ps[p].todo /\ o.out = Tail(s.ps[p].out)
        /\ o.due = s.ps[p].due /\ o.state = s.ps[p].state
    BY <1>1, <1>2 DEF Process
  <2>2. u = [s EXCEPT !.br.out = out, !.ps[p] = o]
    BY <1>1 DEF Take, State
  <2> HIDE DEF o, u
  <2>3. u.br = [s.br EXCEPT !.out = out] /\ u.call = s.call /\ u.ps = [s.ps EXCEPT ![p] = o]
    BY <1>1, <2>2 DEF State
  <2>4. u = [br |-> u.br, call |-> s.call, ps |-> u.ps]
    BY <1>1, <2>2 DEF State
  <2> QED BY <2>1, <2>3, <2>4
<1> HIDE DEF u, o
<1>4. /\ u.br \in Bridge /\ u.br.queue = s.br.queue /\ u.br.cur = s.br.cur
      /\ u.br.out = out
  BY <1>1, <1>21, <1>3 DEF Bridge
<1>5. \A q \in Proc :
        /\ u.ps[q] \in Process /\ u.ps[q].todo = s.ps[q].todo
        /\ u.ps[q].due = s.ps[q].due /\ u.ps[q].state = s.ps[q].state
        /\ q # p => u.ps[q] = s.ps[q]
  BY <1>1, <1>3
<1>51. u.ps[p].out = Tail(s.ps[p].out)
  BY <1>1, <1>3
<1>6. \A i \in DOMAIN u.ps[p].out :
        /\ i \in Nat /\ i + 1 # 1
        /\ i + 1 \in DOMAIN s.ps[p].out /\ u.ps[p].out[i] = s.ps[p].out[i + 1]
  BY <1>2, <1>51, TailFacts
<1>7. \A i \in DOMAIN u.ps[p].out :
        (i + 1) + 1 \in DOMAIN s.ps[p].out => i + 1 \in DOMAIN u.ps[p].out
  BY <1>2, <1>51
<1>8. u \in State
  <2>1. u.ps \in [Proc -> Process]
    BY <1>1, <1>3, <1>5
  <2> QED BY <1>1, <1>3, <1>4, <2>1 DEF State
<1>9. \A r \in Req : Fresh(s, n, r) => Fresh(u, n, r)
  <2> SUFFICES ASSUME NEW r \in Req, Fresh(s, n, r), NEW q \in Proc
               PROVE  /\ \A i \in DOMAIN u.ps[q].todo : u.ps[q].todo[i] # Cmd(r)
                      /\ u.ps[q].due # Cmd(r)
                      /\ \A i \in DOMAIN u.ps[q].out : u.ps[q].out[i].entry # Cmd(r)
    BY DEF Fresh, Unwritten
  <2> QED BY <1>5, <1>6 DEF Fresh, Unwritten
<1>10. Len(u.br.queue) <= MaxQueue /\ OneEach(u) /\ Awaited(u)
  BY <1>3, <1>4 DEF Sound, OneEach, Awaited
<1>11. Unsent(u, n)
  <2>1. \A i \in DOMAIN s.br.queue : s.br.queue[i].req \in Req
    BY <1>1, EntryFacts DEF Bridge
  <2>2. s.br.cur # NoEntry => s.br.cur.req \in Req
    BY <1>1, EntryFacts DEF Bridge
  <2> QED BY <1>3, <1>4, <1>9, <2>1, <2>2 DEF Sound, Unsent
<1>12. ASSUME NEW q \in Proc, NEW i \in DOMAIN u.ps[q].out
       PROVE  \E j \in DOMAIN s.ps[q].out :
                /\ u.ps[q].out[i] = s.ps[q].out[j]
                /\ IF q = p THEN i \in Nat /\ j = i + 1 ELSE j = i
  BY <1>5, <1>6
<1>13. ASSUME NEW r \in Req PROVE WrittenOnce(u, n, r)
  <2>1. WaitsOnce(s, n, r) /\ DueOnce(s, r) /\ PrintedOnce(s, n, r)
    BY DEF Sound, WrittenOnce
  <2>2. WaitsOnce(u, n, r)
    <3> SUFFICES ASSUME NEW x \in Proc, NEW y \in Proc,
                        NEW i \in DOMAIN u.ps[x].todo, u.ps[x].todo[i] = Cmd(r)
                 PROVE  /\ n[r] = 0
                        /\ \A j \in DOMAIN u.ps[y].todo :
                             u.ps[y].todo[j] = Cmd(r) => x = y /\ i = j
                        /\ u.ps[y].due # Cmd(r)
                        /\ \A j \in DOMAIN u.ps[y].out : u.ps[y].out[j].entry # Cmd(r)
      BY DEF WaitsOnce
    <3>1. i \in DOMAIN s.ps[x].todo /\ s.ps[x].todo[i] = Cmd(r)
      BY <1>5
    <3>2. \A j \in DOMAIN s.ps[y].out : s.ps[y].out[j].entry # Cmd(r)
      BY <2>1, <3>1 DEF WaitsOnce
    <3>3. \A j \in DOMAIN u.ps[y].out : u.ps[y].out[j].entry # Cmd(r)
      BY <1>12, <3>2
    <3> QED BY <1>5, <2>1, <3>1, <3>3 DEF WaitsOnce
  <2>3. DueOnce(u, r)
    <3> SUFFICES ASSUME NEW x \in Proc, NEW y \in Proc, u.ps[x].due = Cmd(r)
                 PROVE  /\ u.ps[y].due = Cmd(r) => x = y
                        /\ \A j \in DOMAIN u.ps[y].out :
                             u.ps[y].out[j].entry = Cmd(r) =>
                               /\ x = y /\ Object(u.ps[y].out[j])
                               /\ j + 1 \notin DOMAIN u.ps[y].out
      BY DEF DueOnce
    <3>1. s.ps[x].due = Cmd(r) /\ (u.ps[y].due = Cmd(r) => x = y)
      BY <1>5, <2>1 DEF DueOnce
    <3>2. ASSUME NEW j \in DOMAIN u.ps[y].out, u.ps[y].out[j].entry = Cmd(r)
          PROVE  /\ x = y /\ Object(u.ps[y].out[j])
                 /\ j + 1 \notin DOMAIN u.ps[y].out
      <4>1. PICK a \in DOMAIN s.ps[y].out :
              /\ u.ps[y].out[j] = s.ps[y].out[a]
              /\ IF y = p THEN j \in Nat /\ a = j + 1 ELSE a = j
        BY <1>12
      <4>2. x = y /\ Object(s.ps[y].out[a]) /\ a + 1 \notin DOMAIN s.ps[y].out
        BY <2>1, <3>1, <3>2, <4>1 DEF DueOnce
      <4>3. j + 1 \notin DOMAIN u.ps[y].out
        <5>1. CASE y = p
          BY <1>6, <4>1, <4>2, <5>1
        <5>2. CASE y # p
          BY <1>5, <4>1, <4>2, <5>2
        <5> QED BY <5>1, <5>2
      <4> QED BY <4>1, <4>2, <4>3
    <3> QED BY <3>1, <3>2
  <2>4. PrintedOnce(u, n, r)
    <3> SUFFICES ASSUME NEW x \in Proc, NEW y \in Proc,
                        NEW i \in DOMAIN u.ps[x].out, u.ps[x].out[i].entry = Cmd(r)
        PROVE  /\ Object(u.ps[x].out[i]) => n[r] = 1
               /\ \A j \in DOMAIN u.ps[y].out :
                    u.ps[y].out[j].entry = Cmd(r) =>
                      /\ x = y
                      /\ (Object(u.ps[x].out[i]) <=> Object(u.ps[y].out[j])) => i = j
                      /\ Object(u.ps[x].out[i]) /\ ~Object(u.ps[y].out[j]) => j = i + 1
      BY DEF PrintedOnce
    <3>1. PICK a \in DOMAIN s.ps[x].out :
            /\ u.ps[x].out[i] = s.ps[x].out[a]
            /\ IF x = p THEN i \in Nat /\ a = i + 1 ELSE a = i
      BY <1>12
    <3>2. Object(u.ps[x].out[i]) => n[r] = 1
      BY <2>1, <3>1 DEF PrintedOnce
    <3>3. ASSUME NEW j \in DOMAIN u.ps[y].out, u.ps[y].out[j].entry = Cmd(r)
          PROVE  /\ x = y
                 /\ (Object(u.ps[x].out[i]) <=> Object(u.ps[y].out[j])) => i = j
                 /\ Object(u.ps[x].out[i]) /\ ~Object(u.ps[y].out[j]) => j = i + 1
      <4>1. PICK b \in DOMAIN s.ps[y].out :
              /\ u.ps[y].out[j] = s.ps[y].out[b]
              /\ IF y = p THEN j \in Nat /\ b = j + 1 ELSE b = j
        BY <1>12
      <4>2. /\ x = y
            /\ (Object(u.ps[x].out[i]) <=> Object(u.ps[y].out[j])) => a = b
            /\ Object(u.ps[x].out[i]) /\ ~Object(u.ps[y].out[j]) => b = a + 1
        BY <2>1, <3>1, <3>3, <4>1 DEF PrintedOnce
      <4> HIDE DEF Take
      <4>3. CASE x = p
        <5>1. i \in Nat /\ j \in Nat /\ a = i + 1 /\ b = j + 1
          BY <3>1, <4>1, <4>2, <4>3
        <5> QED BY <4>2, <5>1
      <4>4. CASE x # p
        BY <3>1, <4>1, <4>2, <4>4
      <4> QED BY <4>3, <4>4
    <3> QED BY <3>2, <3>3
  <2> QED BY <2>2, <2>3, <2>4 DEF WrittenOnce
<1>14. ASSUME NEW r \in Req PROVE Truthful(u, n, r)
  BY <1>3, <1>9 DEF Sound, Truthful
<1>15. Orderly(u, n)
  <2>1. \A q \in Proc : Paired(s.ps[q], q)
    BY DEF Sound, Orderly
  <2>2. Paired(u.ps[p], p)
    <3> SUFFICES ASSUME NEW i \in DOMAIN u.ps[p].out
                 PROVE  /\ u.ps[p].out[i].from = p
                        /\ Object(u.ps[p].out[i]) =>
                             u.ps[p].out[i].entry.stage = "cmd" /\ Follows(u.ps[p], i)
      BY DEF Paired
    <3>1. /\ u.ps[p].out[i].from = p
          /\ Object(u.ps[p].out[i]) =>
               u.ps[p].out[i].entry.stage = "cmd" /\ Follows(s.ps[p], i + 1)
      BY <1>6, <2>1 DEF Paired
    <3>2. Follows(s.ps[p], i + 1) => Follows(u.ps[p], i)
      BY <1>5, <1>6, <1>7 DEF Follows, Ends, Gone
    <3> QED BY <3>1, <3>2
  <2>3. \A q \in Proc : Paired(u.ps[q], q)
    BY <1>5, <2>1, <2>2
  <2>4. CASE out = <<>> /\ s.br.cur = NoEntry
    <3>1. LastHeard(u, n) /\ Kept(u, n)
      BY <1>4, <2>4, EntryFacts DEF LastHeard, Kept
    <3> QED BY <2>3, <3>1 DEF Orderly
  <2>5. CASE out = Append(s.br.out, k)
    <3>1. out # <<>> /\ out[Len(out)] = k
      BY <1>1, <1>2, <2>5
    <3>2. /\ k.from = p
          /\ Object(k) => k.entry.stage = "cmd" /\ Follows(s.ps[p], 1)
      BY <1>2, <2>1 DEF Paired
    <3>3. ASSUME Object(k) PROVE n[k.entry.req] # 0 /\ Closes(u.ps[p], k.entry)
      <4>1. k.entry = Cmd(k.entry.req) /\ k.entry.req \in Req
        BY <1>2, <3>2, <3>3, EntryFacts
      <4>2. n[k.entry.req] = 1
        BY <1>2, <3>3, <4>1 DEF Sound, WrittenOnce, PrintedOnce
      <4>3. Closes(u.ps[p], k.entry)
        <5>1. ASSUME u.ps[p].out # <<>> PROVE u.ps[p].out[1].entry = k.entry
          <6>1. 1 \in DOMAIN u.ps[p].out
            BY <1>2, <1>51, <5>1
          <6> QED BY <1>2, <1>6, <3>2, <3>3, <6>1 DEF Follows
        <5>2. ASSUME u.ps[p].out = <<>> PROVE Ends(u.ps[p], k.entry)
          <6>1. 1 + 1 \notin DOMAIN s.ps[p].out
            BY <1>2, <1>51, <5>2, HeadFacts
          <6> QED BY <1>2, <1>5, <3>2, <3>3, <6>1 DEF Follows, Ends, Gone
        <5> QED BY <5>1, <5>2 DEF Closes
      <4> QED BY <4>2, <4>3
    <3>4. LastHeard(u, n) /\ Kept(u, n)
      BY <1>4, <3>1, <3>2, <3>3 DEF LastHeard, Kept
    <3> QED BY <2>3, <3>4 DEF Orderly
  <2> QED BY <2>4, <2>5
<1>16. ASSUME NEW r \in Req, k.entry = Cmd(r), ~Object(k) PROVE Unwritten(u, r)
  <2>1. WaitsOnce(s, n, r) /\ DueOnce(s, r) /\ PrintedOnce(s, n, r)
    BY DEF Sound, WrittenOnce
  <2>2. ASSUME NEW q \in Proc
        PROVE  /\ \A i \in DOMAIN u.ps[q].todo : u.ps[q].todo[i] # Cmd(r)
               /\ u.ps[q].due # Cmd(r)
               /\ \A i \in DOMAIN u.ps[q].out : u.ps[q].out[i].entry # Cmd(r)
    <3>1. \A i \in DOMAIN u.ps[q].todo : u.ps[q].todo[i] # Cmd(r)
      BY <1>2, <1>5, <1>16, <2>1 DEF WaitsOnce
    <3>2. u.ps[q].due # Cmd(r)
      BY <1>2, <1>5, <1>16, <2>1 DEF DueOnce
    <3>3. ASSUME NEW i \in DOMAIN u.ps[q].out PROVE u.ps[q].out[i].entry # Cmd(r)
      <4>1. PICK j \in DOMAIN s.ps[q].out :
              /\ u.ps[q].out[i] = s.ps[q].out[j]
              /\ IF q = p THEN i \in Nat /\ j = i + 1 ELSE j = i
        BY <1>12
      <4>2. SUFFICES ASSUME s.ps[q].out[j].entry = Cmd(r) PROVE FALSE
        BY <4>1
      <4>3. /\ q = p
            /\ ~Object(s.ps[q].out[j]) => j = 1
            /\ Object(s.ps[q].out[j]) => 1 = j + 1
        BY <1>2, <1>16, <2>1, <4>2 DEF PrintedOnce
      <4>4. i \in Nat /\ i + 1 # 1 /\ j = i + 1
        BY <1>6, <4>1, <4>3
      <4> QED BY <4>3, <4>4
    <3> QED BY <3>1, <3>2, <3>3
  <2> QED BY <2>2 DEF Unwritten
<1>17. Sound(u, n)
  BY <1>8, <1>10, <1>11, <1>13, <1>14, <1>15 DEF Sound
<1> QED BY <1>3, <1>9, <1>16, <1>17 DEF u

Shifted(new, old) ==
  \A i \in DOMAIN new :
    i \in Nat /\ i + 1 # 1 /\ i + 1 \in DOMAIN old /\ new[i] = old[i + 1]

\* e is at l, behind everything else.
Extended(new, old, e, l) ==
  /\ new # <<>> /\ l \in DOMAIN new /\ new[l] = e
  /\ l \notin DOMAIN old /\ l + 1 \notin DOMAIN new
  /\ \A i \in DOMAIN new : i = l \/ (i \in DOMAIN old /\ new[i] = old[i])
  /\ \A i \in DOMAIN old :
       /\ i \in DOMAIN new /\ new[i] = old[i]
       /\ i + 1 \in DOMAIN old \/ i + 1 = l
  /\ old # <<>> => 1 \in DOMAIN old
  /\ old = <<>> => l = 1

LEMMA ExtendFacts ==
  ASSUME NEW S, NEW q \in Seq(S), NEW e \in S
  PROVE  Extended(Append(q, e), q, e, Len(q) + 1)
<1> DEFINE l == Len(q) + 1
           a == Append(q, e)
<1>1. /\ DOMAIN q = 1 .. Len(q) /\ DOMAIN a = 1 .. l /\ Len(q) \in Nat
      /\ \A i \in DOMAIN q : a[i] = q[i]
      /\ a[l] = e /\ a # <<>>
  OBVIOUS
<1>2. /\ l \in DOMAIN a /\ l \notin DOMAIN q /\ l + 1 \notin DOMAIN a
      /\ \A i \in DOMAIN a : i = l \/ i \in DOMAIN q
      /\ \A i \in DOMAIN q : i \in DOMAIN a /\ (i + 1 \in DOMAIN q \/ i + 1 = l)
  BY <1>1
<1>3. q # <<>> => 1 \in DOMAIN q
  OBVIOUS
<1>4. q = <<>> => l = 1
  OBVIOUS
<1> HIDE DEF a, l
<1>5. Extended(a, q, e, l)
  BY <1>1, <1>2, <1>3, <1>4 DEF Extended
<1> QED BY <1>5 DEF a, l

\* A command that is executed waits no more, its marker is due, and it has had
\* its effect if it has printed an object.
Executed(s, n, u, m, p, e, did, k, l) ==
  /\ s.ps[p].todo # <<>> /\ e = Head(s.ps[p].todo)
  /\ s.ps[p].due = NoEntry /\ s.ps[p].state = "live"
  /\ did = 1 => e.stage = "cmd"
  /\ \A r \in Req : m[r] = IF did = 1 /\ e = Cmd(r) THEN n[r] + 1 ELSE n[r]
  /\ u.br = s.br
  /\ \A r \in Req : /\ u.call[r].pc = s.call[r].pc
                    /\ u.call[r].result = s.call[r].result
                    /\ u.call[r].attempt = s.call[r].attempt
  /\ \A q \in Proc \ {p} : u.ps[q] = s.ps[q]
  /\ u.ps[p].due = e /\ u.ps[p].state = s.ps[p].state
  /\ Shifted(u.ps[p].todo, s.ps[p].todo)
  /\ k.entry = e /\ Object(k) /\ k.from = p
  /\ IF did = 1 THEN Extended(u.ps[p].out, s.ps[p].out, k, l)
                ELSE u.ps[p].out = s.ps[p].out

LEMMA ExecuteSound ==
  ASSUME NEW s, NEW n, Sound(s, n), NEW p \in Proc, NEW m \in [Req -> Nat],
         NEW u \in State, NEW e, NEW did \in {0, 1}, NEW k, NEW l,
         Executed(s, n, u, m, p, e, did, k, l)
  PROVE  Sound(u, m)
<1> USE DEF Executed
<1>1. /\ s \in State /\ s.ps \in [Proc -> Process] /\ s.ps[p] \in Process
      /\ s.br \in Bridge /\ s.br.out \in Seq(Item)
  BY DEF Sound, State, Bridge
<1>2. /\ s.ps[p].todo \in Seq(Entry) /\ s.ps[p].out \in Seq(Item)
      /\ e = s.ps[p].todo[1] /\ 1 \in DOMAIN s.ps[p].todo /\ e \in Entry
      /\ e # NoEntry
  BY <1>1, EntryFacts DEF Process
<1>3. ASSUME NEW i \in DOMAIN u.ps[p].todo
      PROVE  /\ i \in Nat /\ i + 1 # 1
             /\ i + 1 \in DOMAIN s.ps[p].todo /\ u.ps[p].todo[i] = s.ps[p].todo[i + 1]
  BY DEF Shifted
<1>4. ASSUME NEW i \in DOMAIN u.ps[p].out
      PROVE  \/ i \in DOMAIN s.ps[p].out /\ u.ps[p].out[i] = s.ps[p].out[i]
             \/ did = 1 /\ i = l /\ u.ps[p].out[i] = k
  BY DEF Extended
<1>5. ASSUME NEW i \in DOMAIN s.ps[p].out
      PROVE  i \in DOMAIN u.ps[p].out /\ u.ps[p].out[i] = s.ps[p].out[i]
  BY DEF Extended
<1>6. \A r \in Req : e # Cmd(r) /\ Unwritten(s, r) => Unwritten(u, r)
  <2> SUFFICES ASSUME NEW r \in Req, e # Cmd(r), Unwritten(s, r), NEW q \in Proc
               PROVE  /\ \A i \in DOMAIN u.ps[q].todo : u.ps[q].todo[i] # Cmd(r)
                      /\ u.ps[q].due # Cmd(r)
                      /\ \A i \in DOMAIN u.ps[q].out : u.ps[q].out[i].entry # Cmd(r)
    BY DEF Unwritten
  <2>1. CASE q = p
    <3>1. \A i \in DOMAIN u.ps[p].todo : u.ps[p].todo[i] # Cmd(r)
      BY <1>3 DEF Unwritten
    <3>2. \A i \in DOMAIN u.ps[p].out : u.ps[p].out[i].entry # Cmd(r)
      BY <1>4 DEF Unwritten
    <3> QED BY <2>1, <3>1, <3>2
  <2>2. CASE q # p
    BY <2>2 DEF Unwritten
  <2> QED BY <2>1, <2>2
<1>7. \A r \in Req : Fresh(s, n, r) => e # Cmd(r)
  BY <1>2 DEF Fresh, Unwritten
<1>8. \A r \in Req : Fresh(s, n, r) => Fresh(u, m, r)
  BY <1>6, <1>7 DEF Fresh
<1>9. Len(u.br.queue) <= MaxQueue /\ OneEach(u) /\ Awaited(u)
  <2>1. \A i \in DOMAIN s.br.queue : s.br.queue[i].req \in Req
    BY <1>1, EntryFacts DEF Bridge
  <2>2. s.br.cur # NoEntry => s.br.cur.req \in Req
    BY <1>1, EntryFacts DEF Bridge
  <2>3. Len(u.br.queue) <= MaxQueue /\ OneEach(u)
    BY DEF Sound, OneEach
  <2>4. Awaited(u)
    <3>1. \A i \in DOMAIN s.br.queue : s.call[s.br.queue[i].req].pc = "sent"
      BY DEF Sound, Awaited
    <3>2. s.br.cur # NoEntry => s.call[s.br.cur.req].pc = "sent"
      BY DEF Sound, Awaited
    <3> QED BY <2>1, <2>2, <3>1, <3>2 DEF Awaited
  <2> QED BY <2>3, <2>4
<1>10. Unsent(u, m)
  <2>1. \A i \in DOMAIN s.br.queue : s.br.queue[i].req \in Req
    BY <1>1, EntryFacts DEF Bridge
  <2>2. s.br.cur # NoEntry => s.br.cur.req \in Req
    BY <1>1, EntryFacts DEF Bridge
  <2> QED BY <1>8, <2>1, <2>2 DEF Sound, Unsent
<1>11. ASSUME NEW r \in Req, e # Cmd(r) PROVE WrittenOnce(u, m, r) /\ Truthful(u, m, r)
  <2>1. /\ WaitsOnce(s, n, r) /\ DueOnce(s, r) /\ PrintedOnce(s, n, r)
        /\ Truthful(s, n, r)
    BY DEF Sound, WrittenOnce
  <2>2. m[r] = n[r]
    BY <1>11
  <2>3. Truthful(u, m, r)
    BY <1>8, <2>1, <2>2 DEF Truthful
  <2>4. ASSUME NEW x \in Proc, NEW i \in DOMAIN u.ps[x].out, u.ps[x].out[i].entry = Cmd(r)
        PROVE  i \in DOMAIN s.ps[x].out /\ s.ps[x].out[i] = u.ps[x].out[i]
    BY <1>4, <1>11, <2>4
  <2>5. ASSUME NEW x \in Proc, NEW i \in DOMAIN u.ps[x].todo
        PROVE  \E j \in DOMAIN s.ps[x].todo :
                 /\ u.ps[x].todo[i] = s.ps[x].todo[j]
                 /\ IF x = p THEN j = i + 1 /\ i \in Nat ELSE j = i
    BY <1>3
  <2>6. \A x \in Proc : u.ps[x].due = Cmd(r) => s.ps[x].due = Cmd(r) /\ x # p
    BY <1>11
  <2>7. WaitsOnce(u, m, r)
    <3> SUFFICES ASSUME NEW x \in Proc, NEW y \in Proc,
                        NEW i \in DOMAIN u.ps[x].todo, u.ps[x].todo[i] = Cmd(r)
                 PROVE  /\ m[r] = 0
                        /\ \A j \in DOMAIN u.ps[y].todo :
                             u.ps[y].todo[j] = Cmd(r) => x = y /\ i = j
                        /\ u.ps[y].due # Cmd(r)
                        /\ \A j \in DOMAIN u.ps[y].out : u.ps[y].out[j].entry # Cmd(r)
      BY DEF WaitsOnce
    <3>1. PICK a \in DOMAIN s.ps[x].todo :
            /\ u.ps[x].todo[i] = s.ps[x].todo[a]
            /\ IF x = p THEN a = i + 1 /\ i \in Nat ELSE a = i
      BY <2>5
    <3>2. /\ m[r] = 0 /\ u.ps[y].due # Cmd(r)
          /\ \A j \in DOMAIN u.ps[y].out : u.ps[y].out[j].entry # Cmd(r)
      BY <2>1, <2>2, <2>4, <2>6, <3>1 DEF WaitsOnce
    <3>3. ASSUME NEW j \in DOMAIN u.ps[y].todo, u.ps[y].todo[j] = Cmd(r)
          PROVE  x = y /\ i = j
      <4>1. PICK b \in DOMAIN s.ps[y].todo :
              /\ u.ps[y].todo[j] = s.ps[y].todo[b]
              /\ IF y = p THEN b = j + 1 /\ j \in Nat ELSE b = j
        BY <2>5
      <4>2. x = y /\ a = b
        BY <2>1, <3>1, <3>3, <4>1 DEF WaitsOnce
      <4> QED BY <3>1, <4>1, <4>2
    <3> QED BY <3>2, <3>3
  <2>8. DueOnce(u, r)
    <3> SUFFICES ASSUME NEW x \in Proc, NEW y \in Proc, u.ps[x].due = Cmd(r)
                 PROVE  /\ u.ps[y].due = Cmd(r) => x = y
                        /\ \A j \in DOMAIN u.ps[y].out :
                             u.ps[y].out[j].entry = Cmd(r) =>
                               /\ x = y /\ Object(u.ps[y].out[j])
                               /\ j + 1 \notin DOMAIN u.ps[y].out
      BY DEF DueOnce
    <3>1. x # p /\ s.ps[x].due = Cmd(r) /\ (u.ps[y].due = Cmd(r) => x = y)
      BY <2>1, <2>6 DEF DueOnce
    <3>2. ASSUME NEW j \in DOMAIN u.ps[y].out, u.ps[y].out[j].entry = Cmd(r)
          PROVE  x = y /\ Object(u.ps[y].out[j]) /\ j + 1 \notin DOMAIN u.ps[y].out
      BY <2>1, <2>4, <3>1, <3>2 DEF DueOnce
    <3> QED BY <3>1, <3>2
  <2>9. PrintedOnce(u, m, r)
    BY <2>1, <2>2, <2>4 DEF PrintedOnce
  <2> QED BY <2>3, <2>7, <2>8, <2>9 DEF WrittenOnce
<1>12. ASSUME NEW r \in Req, e = Cmd(r) PROVE WrittenOnce(u, m, r) /\ Truthful(u, m, r)
  <2>1. WaitsOnce(s, n, r) /\ Truthful(s, n, r)
    BY DEF Sound, WrittenOnce
  <2>2. /\ n[r] = 0
        /\ \A q \in Proc :
             /\ \A j \in DOMAIN s.ps[q].todo : s.ps[q].todo[j] = Cmd(r) => p = q /\ j = 1
             /\ s.ps[q].due # Cmd(r)
             /\ \A j \in DOMAIN s.ps[q].out : s.ps[q].out[j].entry # Cmd(r)
    BY <1>2, <1>12, <2>1 DEF WaitsOnce
  <2>3. m[r] = IF did = 1 THEN 1 ELSE 0
    BY <1>12, <2>2
  <2>4. \A q \in Proc : \A j \in DOMAIN u.ps[q].todo : u.ps[q].todo[j] # Cmd(r)
    BY <1>3, <2>2
  <2>5. \A q \in Proc : \A j \in DOMAIN u.ps[q].out :
          u.ps[q].out[j].entry = Cmd(r) =>
            q = p /\ did = 1 /\ j = l /\ u.ps[q].out[j] = k
    BY <1>4, <2>2
  <2>6. \A q \in Proc : u.ps[q].due = Cmd(r) => q = p
    BY <2>2
  <2>7. WaitsOnce(u, m, r)
    BY <2>4 DEF WaitsOnce
  <2>8. DueOnce(u, r)
    <3>1. did = 1 => l + 1 \notin DOMAIN u.ps[p].out
      BY DEF Extended
    <3> QED BY <2>5, <2>6, <3>1 DEF DueOnce
  <2>9. PrintedOnce(u, m, r)
    BY <2>3, <2>5 DEF PrintedOnce
  <2>10. ~Fresh(s, n, r)
    BY <1>7, <1>12
  <2>11. s.call[r].result \notin {"data", "error", "throttled"}
    BY <2>1, <2>2, <2>10 DEF Truthful
  <2>12. Truthful(u, m, r)
    BY <2>1, <2>3, <2>10, <2>11 DEF Truthful
  <2> QED BY <2>7, <2>8, <2>9, <2>12 DEF WrittenOnce
<1>13. Orderly(u, m)
  <2>1. /\ \A q \in Proc : Paired(s.ps[q], q)
        /\ LastHeard(s, n) /\ Kept(s, n)
    BY DEF Sound, Orderly
  <2>2. ~Gone(s.ps[p]) /\ \A f \in Entry : ~Ends(s.ps[p], f)
    BY EntryFacts DEF Gone, Ends
  <2>3. Paired(u.ps[p], p)
    <3> SUFFICES ASSUME NEW i \in DOMAIN u.ps[p].out
                 PROVE  /\ u.ps[p].out[i].from = p
                        /\ Object(u.ps[p].out[i]) =>
                             u.ps[p].out[i].entry.stage = "cmd" /\ Follows(u.ps[p], i)
      BY DEF Paired
    <3>1. CASE i \in DOMAIN s.ps[p].out /\ u.ps[p].out[i] = s.ps[p].out[i]
      <4>1. /\ u.ps[p].out[i].from = p
            /\ Object(u.ps[p].out[i]) =>
                 u.ps[p].out[i].entry.stage = "cmd" /\ Follows(s.ps[p], i)
        BY <2>1, <3>1 DEF Paired
      <4>2. ASSUME Follows(s.ps[p], i) PROVE Follows(u.ps[p], i)
        <5>1. s.ps[p].out[i].entry \in Entry
          <6>1. s.ps[p].out[i] \in Item
            BY <1>2, <3>1
          <6> QED BY <6>1 DEF Item
        <5>2. i + 1 \in DOMAIN s.ps[p].out
          BY <2>2, <4>2, <5>1 DEF Follows
        <5>3. s.ps[p].out[i + 1].entry = s.ps[p].out[i].entry
          BY <4>2, <5>2 DEF Follows
        <5>4. i + 1 \in DOMAIN u.ps[p].out /\ u.ps[p].out[i + 1] = s.ps[p].out[i + 1]
          BY <1>5, <5>2
        <5> QED BY <3>1, <5>3, <5>4 DEF Follows
      <4> QED BY <4>1, <4>2
    <3>2. CASE did = 1 /\ i = l /\ u.ps[p].out[i] = k
      <4>1. l + 1 \notin DOMAIN u.ps[p].out
        BY <3>2 DEF Extended
      <4>2. Follows(u.ps[p], i)
        BY <3>2, <4>1 DEF Follows, Ends
      <4> QED BY <3>2, <4>2
    <3> QED BY <1>4, <3>1, <3>2
  <2>4. LastHeard(u, m)
    <3> SUFFICES ASSUME s.br.out # <<>> PROVE LastHeard(u, m)
      BY DEF LastHeard
    <3> DEFINE h == s.br.out[Len(s.br.out)]
    <3>1. h.from \in Proc /\ h.entry \in Entry /\ h.entry.req \in Req
      BY <1>1, LastFacts
    <3>2. Object(h) => n[h.entry.req] # 0 /\ Closes(s.ps[h.from], h.entry)
      BY <2>1 DEF LastHeard
    <3> HIDE DEF h
    <3>3. n[h.entry.req] # 0 => m[h.entry.req] # 0
      BY <3>1 DEF Sound
    <3>4. ASSUME Closes(s.ps[h.from], h.entry) PROVE Closes(u.ps[h.from], h.entry)
      <4>1. CASE h.from = p
        <5>1. s.ps[p].out # <<>> /\ s.ps[p].out[1].entry = h.entry
          BY <2>2, <3>1, <3>4, <4>1 DEF Closes
        <5>2. 1 \in DOMAIN s.ps[p].out
          BY <1>2, <5>1
        <5>3. u.ps[p].out # <<>> /\ u.ps[p].out[1] = s.ps[p].out[1]
          BY <1>5, <5>1, <5>2 DEF Extended
        <5> QED BY <4>1, <5>1, <5>3 DEF Closes
      <4>2. CASE h.from # p
        BY <3>1, <3>4, <4>2
      <4> QED BY <4>1, <4>2
    <3>5. Object(h) => m[h.entry.req] # 0 /\ Closes(u.ps[h.from], h.entry)
      BY <3>2, <3>3, <3>4
    <3> QED BY <3>5 DEF LastHeard, h
  <2>5. Kept(u, m)
    <3> SUFFICES ASSUME NEW r \in Req, s.br.cur = Cmd(r), m[r] # 0, s.br.out = <<>>
                 PROVE  \E q \in Proc : \E i \in DOMAIN u.ps[q].out :
                          u.ps[q].out[i].entry = Cmd(r) /\ Object(u.ps[q].out[i])
      BY DEF Kept
    <3>1. CASE n[r] # 0
      <4>0. PICK q \in Proc : \E i \in DOMAIN s.ps[q].out :
              s.ps[q].out[i].entry = Cmd(r) /\ Object(s.ps[q].out[i])
        BY <2>1, <3>1 DEF Kept
      <4>1. PICK i \in DOMAIN s.ps[q].out :
              s.ps[q].out[i].entry = Cmd(r) /\ Object(s.ps[q].out[i])
        BY <4>0
      <4>2. i \in DOMAIN u.ps[q].out /\ u.ps[q].out[i] = s.ps[q].out[i]
        BY <1>5
      <4> QED BY <4>1, <4>2
    <3>2. CASE n[r] = 0
      <4>1. did = 1 /\ e = Cmd(r)
        BY <3>2
      <4>2. l \in DOMAIN u.ps[p].out /\ u.ps[p].out[l] = k
        BY <4>1 DEF Extended
      <4> QED BY <4>1, <4>2
    <3> QED BY <3>1, <3>2
  <2>6. \A q \in Proc : Paired(u.ps[q], q)
    BY <2>1, <2>3
  <2> QED BY <2>4, <2>5, <2>6 DEF Orderly
<1> QED BY <1>9, <1>10, <1>11, <1>12, <1>13 DEF Sound

\* The marker that was due is printed.
LEMMA PrintMarkerSound ==
  ASSUME NEW s, NEW n, Sound(s, n), NEW p \in Proc,
         s.ps[p].state = "live", s.ps[p].due # NoEntry,
         NEW u \in State, u.br = s.br, u.call = s.call,
         \A q \in Proc \ {p} : u.ps[q] = s.ps[q],
         u.ps[p].due = NoEntry, u.ps[p].state = s.ps[p].state,
         u.ps[p].todo = s.ps[p].todo,
         NEW k, k.entry = s.ps[p].due, ~Object(k), k.from = p, NEW l,
         Extended(u.ps[p].out, s.ps[p].out, k, l)
  PROVE  Sound(u, n)
<1>1. /\ s \in State /\ s.br \in Bridge /\ s.br.out \in Seq(Item)
      /\ \A r \in Req : NoEntry # Cmd(r)
  BY EntryFacts DEF Sound, State, Bridge
<1>2. \A q \in Proc : u.ps[q].todo = s.ps[q].todo
  OBVIOUS
<1>3. ASSUME NEW q \in Proc, NEW i \in DOMAIN u.ps[q].out
      PROVE  \/ i \in DOMAIN s.ps[q].out /\ u.ps[q].out[i] = s.ps[q].out[i]
             \/ q = p /\ i = l /\ u.ps[q].out[i] = k
  BY DEF Extended
<1>4. ASSUME NEW q \in Proc, NEW i \in DOMAIN s.ps[q].out
      PROVE  i \in DOMAIN u.ps[q].out /\ u.ps[q].out[i] = s.ps[q].out[i]
  BY DEF Extended
<1>5. ASSUME NEW q \in Proc, NEW r \in Req, u.ps[q].due = Cmd(r)
      PROVE  q # p /\ s.ps[q].due = Cmd(r)
  BY <1>1, <1>5
<1>6. \A r \in Req : Fresh(s, n, r) => Fresh(u, n, r)
  BY <1>2, <1>3, <1>5 DEF Fresh, Unwritten
<1>7. Len(u.br.queue) <= MaxQueue /\ OneEach(u) /\ Awaited(u)
  BY DEF Sound, OneEach, Awaited
<1>8. Unsent(u, n)
  <2>1. \A i \in DOMAIN s.br.queue : s.br.queue[i].req \in Req
    BY <1>1, EntryFacts DEF Bridge
  <2>2. s.br.cur # NoEntry => s.br.cur.req \in Req
    BY <1>1, EntryFacts DEF Bridge
  <2> QED BY <1>6, <2>1, <2>2 DEF Sound, Unsent
<1>9. ASSUME NEW r \in Req PROVE WrittenOnce(u, n, r)
  <2>1. WaitsOnce(s, n, r) /\ DueOnce(s, r) /\ PrintedOnce(s, n, r)
    BY DEF Sound, WrittenOnce
  <2>2. WaitsOnce(u, n, r)
    <3> SUFFICES ASSUME NEW x \in Proc, NEW y \in Proc,
                        NEW i \in DOMAIN u.ps[x].todo, u.ps[x].todo[i] = Cmd(r)
                 PROVE  /\ n[r] = 0
                        /\ \A j \in DOMAIN u.ps[y].todo :
                             u.ps[y].todo[j] = Cmd(r) => x = y /\ i = j
                        /\ u.ps[y].due # Cmd(r)
                        /\ \A j \in DOMAIN u.ps[y].out : u.ps[y].out[j].entry # Cmd(r)
      BY DEF WaitsOnce
    <3>1. i \in DOMAIN s.ps[x].todo /\ s.ps[x].todo[i] = Cmd(r)
      BY <1>2
    <3>2. /\ n[r] = 0
          /\ \A j \in DOMAIN s.ps[y].todo : s.ps[y].todo[j] = Cmd(r) => x = y /\ i = j
          /\ s.ps[y].due # Cmd(r) /\ k.entry # Cmd(r)
          /\ \A j \in DOMAIN s.ps[y].out : s.ps[y].out[j].entry # Cmd(r)
      BY <2>1, <3>1 DEF WaitsOnce
    <3>3. u.ps[y].due # Cmd(r)
      BY <1>5, <3>2
    <3>4. \A j \in DOMAIN u.ps[y].out : u.ps[y].out[j].entry # Cmd(r)
      BY <1>3, <3>2
    <3> QED BY <1>2, <3>2, <3>3, <3>4
  <2>3. DueOnce(u, r)
    <3> SUFFICES ASSUME NEW x \in Proc, NEW y \in Proc, u.ps[x].due = Cmd(r)
                 PROVE  /\ u.ps[y].due = Cmd(r) => x = y
                        /\ \A j \in DOMAIN u.ps[y].out :
                             u.ps[y].out[j].entry = Cmd(r) =>
                               /\ x = y /\ Object(u.ps[y].out[j])
                               /\ j + 1 \notin DOMAIN u.ps[y].out
      BY DEF DueOnce
    <3>1. x # p /\ s.ps[x].due = Cmd(r)
      BY <1>5
    <3>2. k.entry # Cmd(r) /\ (u.ps[y].due = Cmd(r) => x = y)
      BY <1>5, <2>1, <3>1 DEF DueOnce
    <3>3. ASSUME NEW j \in DOMAIN u.ps[y].out, u.ps[y].out[j].entry = Cmd(r)
          PROVE  x = y /\ Object(u.ps[y].out[j]) /\ j + 1 \notin DOMAIN u.ps[y].out
      <4>1. j \in DOMAIN s.ps[y].out /\ s.ps[y].out[j] = u.ps[y].out[j]
        BY <1>3, <3>2, <3>3
      <4>2. x = y /\ Object(s.ps[y].out[j]) /\ j + 1 \notin DOMAIN s.ps[y].out
        BY <2>1, <3>1, <3>3, <4>1 DEF DueOnce
      <4> QED BY <3>1, <4>1, <4>2
    <3> QED BY <3>2, <3>3
  <2>4. CASE k.entry # Cmd(r)
    <3>1. ASSUME NEW q \in Proc, NEW i \in DOMAIN u.ps[q].out,
                 u.ps[q].out[i].entry = Cmd(r)
          PROVE  i \in DOMAIN s.ps[q].out /\ s.ps[q].out[i] = u.ps[q].out[i]
      BY <1>3, <2>4, <3>1
    <3>2. PrintedOnce(u, n, r)
      BY <2>1, <3>1 DEF PrintedOnce
    <3> QED BY <2>2, <2>3, <3>2 DEF WrittenOnce
  <2>5. CASE k.entry = Cmd(r)
    <3>1. \A q \in Proc : \A j \in DOMAIN s.ps[q].out :
            s.ps[q].out[j].entry = Cmd(r) =>
              p = q /\ Object(s.ps[q].out[j]) /\ j + 1 \notin DOMAIN s.ps[q].out
      BY <2>1, <2>5 DEF DueOnce
    <3>2. \A j \in DOMAIN s.ps[p].out : j + 1 \notin DOMAIN s.ps[p].out => j + 1 = l
      BY DEF Extended
    <3>3. ASSUME NEW q \in Proc, NEW i \in DOMAIN u.ps[q].out,
                 u.ps[q].out[i].entry = Cmd(r)
          PROVE  /\ q = p
                 /\ \/ /\ Object(u.ps[q].out[i]) /\ i + 1 = l
                       /\ i \in DOMAIN s.ps[q].out /\ u.ps[q].out[i] = s.ps[q].out[i]
                    \/ i = l /\ ~Object(u.ps[q].out[i])
      BY <1>3, <3>1, <3>2, <3>3
    <3>4. PrintedOnce(u, n, r)
      <4> SUFFICES ASSUME NEW x \in Proc, NEW y \in Proc,
                          NEW i \in DOMAIN u.ps[x].out, u.ps[x].out[i].entry = Cmd(r)
          PROVE  /\ Object(u.ps[x].out[i]) => n[r] = 1
                 /\ \A j \in DOMAIN u.ps[y].out :
                      u.ps[y].out[j].entry = Cmd(r) =>
                        /\ x = y
                        /\ (Object(u.ps[x].out[i]) <=> Object(u.ps[y].out[j])) => i = j
                        /\ Object(u.ps[x].out[i]) /\ ~Object(u.ps[y].out[j]) => j = i + 1
        BY DEF PrintedOnce
      <4>1. Object(u.ps[x].out[i]) => n[r] = 1
        BY <2>1, <3>3 DEF PrintedOnce
      <4>2. ASSUME NEW j \in DOMAIN u.ps[y].out, u.ps[y].out[j].entry = Cmd(r)
            PROVE  /\ x = y
                   /\ (Object(u.ps[x].out[i]) <=> Object(u.ps[y].out[j])) => i = j
                   /\ Object(u.ps[x].out[i]) /\ ~Object(u.ps[y].out[j]) => j = i + 1
        <5>1. x = p /\ y = p
          BY <3>3, <4>2
        <5>2. ASSUME Object(u.ps[x].out[i]), Object(u.ps[y].out[j]) PROVE i = j
          BY <2>1, <3>3, <4>2, <5>1, <5>2 DEF PrintedOnce
        <5> QED BY <3>3, <4>2, <5>1, <5>2
      <4> QED BY <4>1, <4>2
    <3> QED BY <2>2, <2>3, <3>4 DEF WrittenOnce
  <2> QED BY <2>4, <2>5
<1>10. ASSUME NEW r \in Req PROVE Truthful(u, n, r)
  BY <1>6 DEF Sound, Truthful
<1>11. Orderly(u, n)
  <2>1. /\ \A q \in Proc : Paired(s.ps[q], q)
        /\ LastHeard(s, n) /\ Kept(s, n)
    BY DEF Sound, Orderly
  <2>2. \A e : Ends(s.ps[p], e) => e = k.entry
    BY DEF Ends, Gone
  <2>3. Paired(u.ps[p], p)
    <3> SUFFICES ASSUME NEW i \in DOMAIN u.ps[p].out
                 PROVE  /\ u.ps[p].out[i].from = p
                        /\ Object(u.ps[p].out[i]) =>
                             u.ps[p].out[i].entry.stage = "cmd" /\ Follows(u.ps[p], i)
      BY DEF Paired
    <3>1. CASE i \in DOMAIN s.ps[p].out /\ u.ps[p].out[i] = s.ps[p].out[i]
      <4>1. /\ u.ps[p].out[i].from = p
            /\ Object(u.ps[p].out[i]) =>
                 u.ps[p].out[i].entry.stage = "cmd" /\ Follows(s.ps[p], i)
        BY <2>1, <3>1 DEF Paired
      <4>2. ASSUME Follows(s.ps[p], i) PROVE Follows(u.ps[p], i)
        <5>1. CASE i + 1 \in DOMAIN s.ps[p].out
          BY <1>4, <3>1, <4>2, <5>1 DEF Follows
        <5>2. CASE i + 1 \notin DOMAIN s.ps[p].out
          <6>1. s.ps[p].out[i].entry = k.entry
            BY <2>2, <4>2, <5>2 DEF Follows
          <6>2. i + 1 = l /\ l \in DOMAIN u.ps[p].out /\ u.ps[p].out[l] = k
            BY <3>1, <5>2 DEF Extended
          <6> QED BY <3>1, <6>1, <6>2 DEF Follows
        <5> QED BY <5>1, <5>2
      <4> QED BY <4>1, <4>2
    <3>2. CASE i = l /\ u.ps[p].out[i] = k
      BY <3>2
    <3> QED BY <1>3, <3>1, <3>2
  <2>4. LastHeard(u, n)
    <3> SUFFICES ASSUME s.br.out # <<>> PROVE LastHeard(u, n)
      BY DEF LastHeard
    <3> DEFINE h == s.br.out[Len(s.br.out)]
    <3>1. h.from \in Proc
      BY <1>1, LastFacts
    <3>2. Object(h) => n[h.entry.req] # 0 /\ Closes(s.ps[h.from], h.entry)
      BY <2>1 DEF LastHeard
    <3> HIDE DEF h
    <3>3. ASSUME Closes(s.ps[h.from], h.entry) PROVE Closes(u.ps[h.from], h.entry)
      <4>1. CASE h.from = p
        <5>1. u.ps[p].out # <<>>
          BY DEF Extended
        <5>2. CASE s.ps[p].out = <<>>
          <6>1. l = 1 /\ u.ps[p].out[l] = k
            BY <5>2 DEF Extended
          <6>2. h.entry = k.entry
            BY <2>2, <3>3, <4>1, <5>2 DEF Closes
          <6> QED BY <4>1, <5>1, <6>1, <6>2 DEF Closes
        <5>3. CASE s.ps[p].out # <<>>
          <6>1. 1 \in DOMAIN s.ps[p].out
            BY <5>3 DEF Extended
          <6>2. u.ps[p].out[1] = s.ps[p].out[1]
            BY <1>4, <6>1
          <6> QED BY <3>3, <4>1, <5>1, <5>3, <6>2 DEF Closes
        <5> QED BY <5>2, <5>3
      <4>2. CASE h.from # p
        BY <3>1, <3>3, <4>2
      <4> QED BY <4>1, <4>2
    <3>4. Object(h) => n[h.entry.req] # 0 /\ Closes(u.ps[h.from], h.entry)
      BY <3>2, <3>3
    <3> QED BY <3>4 DEF LastHeard, h
  <2>5. Kept(u, n)
    <3> SUFFICES ASSUME NEW r \in Req, s.br.cur = Cmd(r), n[r] # 0, s.br.out = <<>>
                 PROVE  \E q \in Proc : \E i \in DOMAIN u.ps[q].out :
                          u.ps[q].out[i].entry = Cmd(r) /\ Object(u.ps[q].out[i])
      BY DEF Kept
    <3>1. PICK q \in Proc : \E i \in DOMAIN s.ps[q].out :
            s.ps[q].out[i].entry = Cmd(r) /\ Object(s.ps[q].out[i])
      BY <2>1 DEF Kept
    <3>2. PICK i \in DOMAIN s.ps[q].out :
            s.ps[q].out[i].entry = Cmd(r) /\ Object(s.ps[q].out[i])
      BY <3>1
    <3>3. i \in DOMAIN u.ps[q].out /\ u.ps[q].out[i] = s.ps[q].out[i]
      BY <1>4
    <3> QED BY <3>2, <3>3
  <2>6. \A q \in Proc : Paired(u.ps[q], q)
    BY <2>1, <2>3
  <2> QED BY <2>4, <2>5, <2>6 DEF Orderly
<1> QED BY <1>7, <1>8, <1>9, <1>10, <1>11 DEF Sound

\* No command is current.
LEMMA IdleSound ==
  ASSUME NEW s, NEW n, Sound(s, n)
  PROVE  /\ Sound(Idle(s), n)
         /\ Idle(s).call = s.call
         /\ Idle(s).br.queue = s.br.queue /\ Idle(s).br.cur = NoEntry
         /\ Idle(s).br.out = s.br.out /\ Idle(s).ps = s.ps
         /\ Idle(s).br.err = s.br.err
         /\ \A r \in Req : Fresh(s, n, r) => Fresh(Idle(s), n, r)
<1>1. s \in State /\ s.br \in Bridge
  BY DEF Sound, State
<1>2. /\ Idle(s).br = [s.br EXCEPT !.cur = NoEntry]
      /\ Idle(s).call = s.call /\ Idle(s).ps = s.ps
      /\ Idle(s) = [br |-> Idle(s).br, call |-> s.call, ps |-> s.ps]
  BY <1>1 DEF Idle, State
<1>3. /\ Idle(s).br \in Bridge
      /\ Idle(s).br.queue = s.br.queue /\ Idle(s).br.cur = NoEntry
      /\ Idle(s).br.out = s.br.out /\ Idle(s).br.err = s.br.err
  BY <1>1, <1>2 DEF Bridge
<1>4. Idle(s) \in State
  BY <1>1, <1>2, <1>3 DEF State
<1>5. Sound(Idle(s), n) /\ \A r \in Req : Fresh(s, n, r) => Fresh(Idle(s), n, r)
  <2>1. Alike(Idle(s), s)
    BY <1>2, <1>3 DEF Alike, Keeps
  <2> QED BY <1>4, <2>1, AlikeSound
<1> QED BY <1>2, <1>3, <1>5

\* The current command is given up by its caller.
LEMMA GiveUpSound ==
  ASSUME NEW s, NEW n, Sound(s, n), s.br.cur # NoEntry
  PROVE  Sound(Idle(Settle(s, s.br.cur.req, "rejected")), n)
<1> DEFINE r == s.br.cur.req
<1>1. /\ s \in State /\ s.br \in Bridge /\ s.br.cur \in Entry /\ r \in Req
      /\ s.call \in [Req -> Call]
  BY EntryFacts DEF Sound, State, Bridge
<1>2. Inactive(Idle(s), r)
  BY IdleSound DEF Inactive, Sound, OneEach
<1>3. Sound(Settle(Idle(s), r, "rejected"), n)
  BY <1>1, <1>2, IdleSound, SettleSound DEF Results
<1>4. Settle(Idle(s), r, "rejected") = Idle(Settle(s, r, "rejected"))
  BY <1>1 DEF Settle, Idle, State
<1> QED BY <1>3, <1>4

\* Everything that waits is dropped.
LEMMA RejectAllSound ==
  ASSUME NEW s, NEW n, Sound(s, n), NEW rejected
  PROVE  /\ Sound(RejectAll(s, rejected), n)
         /\ RejectAll(s, rejected).br = [s.br EXCEPT !.cur = NoEntry, !.queue = <<>>]
         /\ RejectAll(s, rejected).ps = s.ps
<1> DEFINE u == RejectAll(s, rejected)
           C(r) == IF r \in rejected
                     THEN [s.call[r] EXCEPT !.pc = "done", !.result = "rejected"]
                     ELSE s.call[r]
<1>1. s \in State /\ s.br \in Bridge /\ s.call \in [Req -> Call]
  BY DEF Sound, State
<1>2. /\ u.br = [s.br EXCEPT !.cur = NoEntry, !.queue = <<>>]
      /\ u.call = [r \in Req |-> C(r)]
      /\ u.ps = s.ps
      /\ u = [br |-> u.br, call |-> u.call, ps |-> u.ps]
  <2>1. u.call = [r \in Req |-> C(r)]
    BY <1>1, Zenon DEF RejectAll, State
  <2>2. u.br = [s.br EXCEPT !.cur = NoEntry, !.queue = <<>>]
    BY <1>1 DEF RejectAll, State
  <2>3. u.ps = s.ps
    BY <1>1 DEF RejectAll, State
  <2>4. u = [br |-> u.br, call |-> u.call, ps |-> u.ps]
    <3> DEFINE F == [r \in Req |-> C(r)]
    <3>1. u = [s EXCEPT !.br.cur = NoEntry, !.br.queue = <<>>, !.call = F]
      BY DEF RejectAll
    <3> HIDE DEF F, u
    <3> QED BY <1>1, <3>1 DEF State
  <2> QED BY <2>1, <2>2, <2>3, <2>4
<1> HIDE DEF u
<1>3. \A r \in Req : /\ C(r) \in Call
                     /\ \/ C(r) = s.call[r]
                        \/ C(r).pc = "done" /\ C(r).result = "rejected"
  BY <1>1 DEF Call, Results
<1>4. \A r \in Req : /\ u.call[r] \in Call
                     /\ \/ u.call[r] = s.call[r]
                        \/ u.call[r].pc = "done" /\ u.call[r].result = "rejected"
  BY <1>2, <1>3
<1>5. u.br.cur = NoEntry /\ u.br.queue = <<>> /\ u.br \in Bridge /\ u.br.out = s.br.out
  <2>1. <<>> \in Seq(Entry)
    OBVIOUS
  <2> QED BY <1>1, <1>2, <2>1 DEF Bridge
<1>6. u \in State
  <2>1. u.call \in [Req -> Call]
    BY <1>2, <1>3
  <2>2. u.ps \in [Proc -> Process]
    BY <1>1, <1>2 DEF State
  <2> QED BY <1>2, <1>5, <2>1, <2>2 DEF State
<1>7. \A r \in Req : Fresh(s, n, r) <=> Fresh(u, n, r)
  <2>1. u.ps = s.ps
    BY <1>2
  <2> QED BY ONLY <2>1 DEF Fresh, Unwritten
<1>8. Len(u.br.queue) <= MaxQueue /\ OneEach(u) /\ Awaited(u)
  BY <1>5, BridgeAssumption DEF OneEach, Awaited
<1>9. Unsent(u, n)
  BY <1>4, <1>5, <1>7 DEF Sound, Unsent
<1>10. ASSUME NEW r \in Req PROVE WrittenOnce(u, n, r) /\ Truthful(u, n, r)
  <2>1. WrittenOnce(s, n, r) /\ Truthful(s, n, r)
    BY DEF Sound
  <2>2. WrittenOnce(u, n, r)
    <3>1. u.ps = s.ps
      BY <1>2
    <3> QED BY ONLY <2>1, <3>1 DEF WrittenOnce, WaitsOnce, DueOnce, PrintedOnce
  <2>3. Truthful(u, n, r)
    BY <1>4, <1>7, <2>1 DEF Truthful
  <2> QED BY <2>2, <2>3
<1>11. Orderly(u, n)
  <2>1. Orderly(s, n) /\ u.ps = s.ps
    BY <1>2 DEF Sound
  <2>2. LastHeard(u, n)
    BY <1>5, <2>1 DEF Orderly, LastHeard
  <2>3. Kept(u, n)
    BY <1>5, EntryFacts DEF Kept
  <2> QED BY <2>1, <2>2, <2>3 DEF Orderly
<1>12. Sound(u, n)
  BY <1>6, <1>8, <1>9, <1>10, <1>11 DEF Sound
<1> QED BY <1>2, <1>12 DEF u

-----------------------------------------------------------------------------
(* The steps.                                                              *)

LEMMA BecomeSound ==
  ASSUME NEW t, Sound(t, ran), Become(t), UNCHANGED ran
  PROVE  Sound(Now', ran')
<1>1. t \in State
  BY DEF Sound
<1>2. t = [br |-> t.br, call |-> t.call, ps |-> t.ps]
  BY <1>1 DEF State
<1>3. t = Now'
  BY <1>2 DEF Become, Now
<1> QED BY <1>3

LEMMA NowFacts ==
  ASSUME BridgeInv
  PROVE  /\ Sound(Now, ran) /\ Now \in State
         /\ Now.br = br /\ Now.call = call /\ Now.ps = ps
         /\ br \in Bridge /\ call \in [Req -> Call] /\ ps \in [Proc -> Process]
         /\ ran \in [Req -> Nat] /\ faults \in 0 .. MaxFaults
<1>1. Now.br = br /\ Now.call = call /\ Now.ps = ps
  BY DEF Now
<1>2. Now \in State /\ ran \in [Req -> Nat]
  BY DEF BridgeInv, Sound
<1> QED BY <1>1, <1>2 DEF BridgeInv, State

LEMMA InactiveFacts ==
  ASSUME NEW s, NEW n, Sound(s, n), NEW r \in Req, s.call[r].pc # "sent"
  PROVE  Inactive(s, r)
BY DEF Sound, Awaited, Inactive

LEMMA InitSound == Init => Sound(Now, ran)
<1> SUFFICES ASSUME Init PROVE Sound(Now, ran)
  OBVIOUS
<1>1. /\ Now.br = br /\ Now.call = call /\ Now.ps = ps
      /\ Now = [br |-> br, call |-> call, ps |-> ps]
  BY DEF Now
<1> HIDE DEF Now
<1>2. br.queue = <<>> /\ br.cur = NoEntry /\ br \in Bridge /\ br.out = <<>>
  <2>1. <<>> \in Seq(Entry) /\ <<>> \in Seq(Item)
    OBVIOUS
  <2> QED BY <2>1 DEF Init, Bridge
<1>3. \A r \in Req : /\ call[r] \in Call /\ call[r].pc = "idle"
                     /\ call[r].result = "none" /\ ran[r] = 0
  BY BridgeAssumption DEF Init, Call, Results
<1>4. \A p \in Proc : /\ ps[p] \in Process /\ ps[p].todo = <<>> /\ ps[p].out = <<>>
                     /\ \A r \in Req : ps[p].due # Cmd(r)
  <2>1. /\ <<>> \in Seq(Entry) /\ <<>> \in Seq(Item)
        /\ <<>> \in Seq({"error", "throttled"})
    OBVIOUS
  <2> QED BY <2>1, EntryFacts DEF Init, Process
<1>5. Now \in State
  <2>1. call \in [Req -> Call] /\ ps \in [Proc -> Process]
    BY <1>3, <1>4 DEF Init
  <2> QED BY <1>1, <1>2, <2>1 DEF State
<1>6. Len(Now.br.queue) <= MaxQueue /\ ran \in [Req -> Nat]
  BY <1>1, <1>2, BridgeAssumption DEF Init
<1>7. OneEach(Now) /\ Awaited(Now)
  BY <1>1, <1>2 DEF OneEach, Awaited
<1>8. \A r \in Req : Fresh(Now, ran, r) /\ WrittenOnce(Now, ran, r)
  BY <1>1, <1>3, <1>4
     DEF Fresh, Unwritten, WrittenOnce, WaitsOnce, DueOnce, PrintedOnce
<1>9. Unsent(Now, ran)
  BY <1>1, <1>2, <1>8 DEF Unsent
<1>10. \A r \in Req : Truthful(Now, ran, r)
  BY <1>1, <1>3 DEF Truthful
<1>11. Orderly(Now, ran)
  BY <1>1, <1>2, <1>3, <1>4 DEF Orderly, Paired, LastHeard, Kept
<1> QED BY <1>5, <1>6, <1>7, <1>8, <1>9, <1>10, <1>11 DEF Sound

LEMMA RefuseStep ==
  ASSUME BridgeInv, NEW r \in Req, Refuse(r) PROVE Sound(Now', ran')
<1>1. call[r].pc = "idle"
  BY DEF Refuse
<1>2. Inactive(Now, r)
  BY <1>1, NowFacts, InactiveFacts
<1>3. Sound(Settle(Now, r, "rejected"), ran)
  BY <1>2, NowFacts, SettleSound DEF Results
<1>4. Settle(Now, r, "rejected").br = br /\ Settle(Now, r, "rejected").ps = ps
  BY DEF Settle, Now
<1>5. Become(Settle(Now, r, "rejected")) /\ UNCHANGED ran
  BY <1>4 DEF Refuse, Become
<1> QED BY <1>3, <1>5, BecomeSound

\* What Invoke and Retry have in common.
LEMMA SendSound ==
  ASSUME NEW s, NEW n, Sound(s, n), s.br = br, s.ps = ps, MaySpawn,
         NEW r \in Req, s.call[r].pc \in {"idle", "backoff"},
         NEW c \in Call, c.pc = "sent", c.result = "none"
  PROVE  Sound(EnsureInitialized([s EXCEPT !.call[r] = c], r), n)
<1> DEFINE t == [s EXCEPT !.call[r] = c]
<1>1. Inactive(s, r) /\ Fresh(s, n, r)
  <2>1. Inactive(s, r)
    BY InactiveFacts
  <2>2. Fresh(s, n, r)
    BY DEF Sound, Unsent
  <2> QED BY <2>1, <2>2
<1>2. /\ Sound(t, n) /\ t.br = s.br /\ t.ps = s.ps /\ t.call[r] = c
      /\ \A q \in Req : Fresh(s, n, q) <=> Fresh(t, n, q)
  <2>1. PICK u : u = t
    OBVIOUS
  <2>2. u = [s EXCEPT !.call[r] = c]
    BY <2>1
  <2>3. /\ c.pc \in {"idle", "backoff"} \/ c.result \in {"error", "throttled"} => Fresh(s, n, r)
        /\ c.result = "data" => n[r] = 1
        /\ c.pc # "done" => c.result = "none"
        /\ c.pc = "backoff" => c.attempt < MaxRetries
    OBVIOUS
  <2> HIDE DEF t
  <2>4. Sound(u, n)
    BY <1>1, <2>2, <2>3, CallSound
  <2>5. u.br = s.br /\ u.ps = s.ps /\ u.call[r] = c
    <3>1. s \in State /\ s.call \in [Req -> Call]
      BY DEF Sound, State
    <3>2. u.br = s.br /\ u.ps = s.ps /\ u.call = [s.call EXCEPT ![r] = c]
      BY <2>2, <3>1 DEF State
    <3> QED BY <3>1, <3>2
  <2>6. \A q \in Req : Fresh(s, n, q) <=> Fresh(u, n, q)
    BY <1>1, <2>2, <2>3, CallSound
  <2> QED BY <2>1, <2>4, <2>5, <2>6
<1> HIDE DEF t
<1>3. Inactive(t, r) /\ Fresh(t, n, r) /\ t.call[r].pc = "sent"
  BY <1>1, <1>2 DEF Inactive
<1>4. Unused # {} \/ (t.br.init /\ t.br.proc # NoProc)
  BY <1>2 DEF MaySpawn
<1>5. Sound(EnsureInitialized(t, r), n)
  BY <1>2, <1>3, <1>4, EnsureInitializedSound
<1> QED BY <1>5 DEF t

LEMMA InvokeStep ==
  ASSUME BridgeInv, NEW r \in Req, Invoke(r) PROVE Sound(Now', ran')
<1> DEFINE c == [call[r] EXCEPT !.pc = "sent"]
<1>1. call[r].pc = "idle" /\ MaySpawn /\ UNCHANGED ran
  BY DEF Invoke
<1>2. call[r] \in Call /\ call[r].result = "none"
  BY <1>1, NowFacts DEF Sound, Truthful
<1>3. c \in Call /\ c.pc = "sent" /\ c.result = "none"
  BY <1>2 DEF Call
<1>4. [Now EXCEPT !.call[r].pc = "sent"] = [Now EXCEPT !.call[r] = c]
  BY NowFacts
<1>5. Become(EnsureInitialized([Now EXCEPT !.call[r] = c], r))
  BY <1>4 DEF Invoke
<1> HIDE DEF c
<1>6. Sound(EnsureInitialized([Now EXCEPT !.call[r] = c], r), ran)
  BY <1>1, <1>3, NowFacts, SendSound
<1> QED BY <1>1, <1>5, <1>6, BecomeSound

LEMMA RetryStep ==
  ASSUME BridgeInv, NEW r \in Req, Retry(r) PROVE Sound(Now', ran')
<1> DEFINE c == [call[r] EXCEPT !.pc = "sent", !.attempt = @ + 1]
<1>1. call[r].pc = "backoff" /\ MaySpawn /\ UNCHANGED ran
  BY DEF Retry
<1>2. call[r] \in Call /\ call[r].result = "none" /\ call[r].attempt < MaxRetries
  BY <1>1, NowFacts DEF Sound, Truthful
<1>3. c \in Call /\ c.pc = "sent" /\ c.result = "none"
  <2>1. call[r].attempt + 1 \in 0 .. MaxRetries
    BY <1>2, BridgeAssumption DEF Call
  <2> QED BY <1>2, <2>1 DEF Call
<1>4. [Now EXCEPT !.call[r].pc = "sent", !.call[r].attempt = @ + 1]
        = [Now EXCEPT !.call[r] = c]
  BY NowFacts
<1>5. Become(EnsureInitialized([Now EXCEPT !.call[r] = c], r))
  BY <1>4 DEF Retry
<1> HIDE DEF c
<1>6. Sound(EnsureInitialized([Now EXCEPT !.call[r] = c], r), ran)
  BY <1>1, <1>3, NowFacts, SendSound
<1> QED BY <1>1, <1>5, <1>6, BecomeSound

\* What Dispose and OnClose have in common: the process is no longer in use.
LEMMA DropSound ==
  ASSUME BridgeInv, NEW rejected, NEW p \in Proc, NEW w \in Process,
         w.todo = ps[p].todo, w.due = ps[p].due, Keeps(w, ps[p]),
         NEW t, t = [RejectAll(Now, rejected) EXCEPT
                       !.br.proc = NoProc, !.br.init = FALSE, !.ps[p] = w]
  PROVE  Sound(t, ran)
<1> DEFINE s == RejectAll(Now, rejected)
<1>1. Sound(s, ran) /\ s.ps = ps
  BY NowFacts, RejectAllSound
<1> HIDE DEF s
<1>2. s \in State /\ s.br \in Bridge /\ s.ps \in [Proc -> Process]
  BY <1>1 DEF Sound, State
<1>3. /\ t.br = [s.br EXCEPT !.proc = NoProc, !.init = FALSE]
      /\ t.call = s.call /\ t.ps = [s.ps EXCEPT ![p] = w]
      /\ t = [br |-> t.br, call |-> t.call, ps |-> t.ps]
  <2>1. t = [s EXCEPT !.br.proc = NoProc, !.br.init = FALSE, !.ps[p] = w]
    BY DEF s
  <2>2. t.br = [s.br EXCEPT !.proc = NoProc, !.init = FALSE]
    BY <1>2, <2>1 DEF State
  <2>3. t.call = s.call
    BY <1>2, <2>1 DEF State
  <2>4. t.ps = [s.ps EXCEPT ![p] = w]
    BY <1>2, <2>1 DEF State
  <2>5. t = [br |-> t.br, call |-> t.call, ps |-> t.ps]
    BY <1>2, <2>1 DEF State
  <2> QED BY <2>2, <2>3, <2>4, <2>5
<1>4. /\ t.br \in Bridge /\ t.br.queue = s.br.queue /\ t.br.cur = s.br.cur
      /\ t.br.out = s.br.out
  BY <1>2, <1>3 DEF Bridge
<1>5. t \in State
  <2>1. t.ps \in [Proc -> Process]
    BY <1>2, <1>3
  <2>2. t.call \in [Req -> Call]
    BY <1>2, <1>3 DEF State
  <2> QED BY <1>3, <1>4, <2>1, <2>2 DEF State
<1>6. \A q \in Proc : /\ t.ps[q].todo = s.ps[q].todo /\ t.ps[q].due = s.ps[q].due
                     /\ Keeps(t.ps[q], s.ps[q])
  <2> TAKE q \in Proc
  <2>1. t.ps[q] = IF q = p THEN w ELSE s.ps[q]
    BY <1>2, <1>3
  <2> QED BY <1>1, <2>1 DEF Keeps
<1>7. PICK u : u = t
  OBVIOUS
<1>8. u \in State /\ Alike(u, s)
  BY <1>3, <1>4, <1>5, <1>6, <1>7 DEF Alike
<1>9. Sound(u, ran)
  BY ONLY <1>1, <1>8, AlikeSound
<1> QED BY <1>7, <1>9

LEMMA DisposeStep ==
  ASSUME BridgeInv, Dispose PROVE Sound(Now', ran')
<1> DEFINE R == Waiting \cup InFlight
           w == [ps[br.proc] EXCEPT !.doomed = TRUE]
           t == [RejectAll(Now, R) EXCEPT
                   !.br.proc = NoProc, !.br.init = FALSE, !.ps[br.proc] = w]
<1>1. br.proc \in Proc /\ ps[br.proc] \in Process /\ UNCHANGED ran
  BY NowFacts DEF Dispose, Bridge
<1>2. /\ w \in Process /\ w.todo = ps[br.proc].todo /\ w.due = ps[br.proc].due
      /\ Keeps(w, ps[br.proc])
  BY <1>1 DEF Process, Keeps, Gone
<1>3. RejectAll(Now, R).ps = ps
  BY NowFacts, RejectAllSound
<1>4. Become(t)
  BY <1>3 DEF Dispose
<1> HIDE DEF R, w
<1>5. Sound(t, ran)
  BY <1>1, <1>2, DropSound
<1> HIDE DEF t
<1> QED BY <1>1, <1>4, <1>5, BecomeSound

LEMMA OnCloseStep ==
  ASSUME BridgeInv, NEW p \in Proc, OnClose(p) PROVE Sound(Now', ran')
<1> DEFINE R == Waiting \cup InFlight
           w == [ps[p] EXCEPT !.state = "closed"]
           t == [RejectAll(Now, R) EXCEPT
                   !.br.proc = NoProc, !.br.init = FALSE, !.ps[p] = w]
<1>1. ps[p] \in Process /\ UNCHANGED ran
  BY NowFacts DEF OnClose
<1>2. w \in Process /\ w.todo = ps[p].todo /\ w.due = ps[p].due /\ Keeps(w, ps[p])
  BY <1>1 DEF Process, Keeps, Gone
<1>3. RejectAll(Now, R).ps = ps
  BY NowFacts, RejectAllSound
<1>4. Become(t)
  BY <1>3 DEF OnClose
<1> HIDE DEF R, w
<1>5. Sound(t, ran)
  BY <1>1, <1>2, DropSound
<1> HIDE DEF t
<1> QED BY <1>1, <1>4, <1>5, BecomeSound

LEMMA TimeOutStep ==
  ASSUME BridgeInv, TimeOut PROVE Sound(Now', ran')
<1>1. br.cur # NoEntry /\ UNCHANGED ran
  BY DEF TimeOut
<1>2. Sound(Idle(Settle(Now, br.cur.req, "rejected")), ran)
  BY <1>1, NowFacts, GiveUpSound
<1>3. Sound(ProcessQueue(Idle(Settle(Now, br.cur.req, "rejected"))), ran)
  BY <1>2, ProcessQueueSound
<1>4. Become(ProcessQueue(Idle(Settle(Now, br.cur.req, "rejected"))))
  BY DEF TimeOut
<1> QED BY <1>1, <1>3, <1>4, BecomeSound

\* While no command is current what was heard may be dropped.
Unheard(s) == [s EXCEPT !.br.out = <<>>]

LEMMA UnheardSound ==
  ASSUME NEW s, NEW n, Sound(s, n), s.br.cur = NoEntry
  PROVE  Sound(Unheard(s), n)
<1> DEFINE t == Unheard(s)
<1>1. s \in State /\ s.br \in Bridge
  BY DEF Sound, State
<1>2. /\ t.br = [s.br EXCEPT !.out = <<>>] /\ t.call = s.call /\ t.ps = s.ps
      /\ t = [br |-> t.br, call |-> s.call, ps |-> s.ps]
  BY <1>1 DEF State, Unheard
<1> HIDE DEF t
<1>3. /\ t.br \in Bridge /\ t.br.queue = s.br.queue /\ t.br.cur = s.br.cur
      /\ t.br.out = <<>>
  <2>1. <<>> \in Seq(Item)
    OBVIOUS
  <2> QED BY <1>1, <1>2, <2>1 DEF Bridge
<1>4. t \in State
  BY <1>1, <1>2, <1>3 DEF State
<1>5. Alike(t, s)
  BY <1>2, <1>3 DEF Alike, Keeps
<1> QED BY <1>4, <1>5, AlikeSound DEF t

LEMMA OverflowStep ==
  ASSUME BridgeInv, Overflow PROVE Sound(Now', ran')
<1> DEFINE g == Settle(Now, br.cur.req, "rejected")
           s == Idle(g)
           t == Unheard(s)
<1>1. br.cur # NoEntry /\ UNCHANGED ran
  BY DEF Overflow
<1>2. Sound(s, ran)
  BY <1>1, NowFacts, GiveUpSound
<1>3. Become(ProcessQueue(t))
  BY DEF Overflow, Unheard
<1>4. s.br.cur = NoEntry
  <2>1. g.br = br
    BY NowFacts DEF Settle, State
  <2> HIDE DEF g
  <2>2. s.br.cur = NoEntry
    <3>1. "br" \in DOMAIN g /\ "cur" \in DOMAIN g.br
      <4>1. "cur" \in DOMAIN br
        BY NowFacts DEF Bridge
      <4>2. "br" \in DOMAIN g
        BY NowFacts DEF g, Settle, State
      <4> QED BY <2>1, <4>1, <4>2
    <3> QED BY <3>1 DEF Idle
  <2> QED BY <2>2
<1> HIDE DEF s
<1>5. Sound(t, ran)
  BY <1>2, <1>4, UnheardSound
<1> HIDE DEF t
<1>6. Sound(ProcessQueue(t), ran)
  BY <1>5, ProcessQueueSound
<1> QED BY <1>1, <1>3, <1>6, BecomeSound

LEMMA OnStdoutStep ==
  ASSUME BridgeInv, NEW p \in Proc, OnStdout(p) PROVE Sound(Now', ran')
<1> DEFINE k == Head(ps[p].out)
           e == br.cur
           s == Idle(Now)
           t == Take(s, p, <<>>)
           q == ProcessQueue(t)
           t2 == Take(Now, p, Append(br.out, k))
<1>1. ps[p].out # <<>> /\ UNCHANGED ran
  BY DEF OnStdout
<1>2. /\ Sound(Now, ran) /\ Now \in State /\ Now.br = br /\ Now.call = call /\ Now.ps = ps
      /\ br \in Bridge /\ br.out \in Seq(Item) /\ ps[p] \in Process
      /\ ps[p].out \in Seq(Item) /\ k = ps[p].out[1] /\ 1 \in DOMAIN ps[p].out
      /\ k \in Item
  <2>1. /\ Sound(Now, ran) /\ Now \in State /\ Now.br = br /\ Now.call = call /\ Now.ps = ps
        /\ br \in Bridge /\ ps[p] \in Process
    BY NowFacts
  <2>2. br.out \in Seq(Item) /\ ps[p].out \in Seq(Item)
    BY <2>1 DEF Bridge, Process
  <2> QED BY <1>1, <2>1, <2>2, HeadFacts
<1>3. CASE e # NoEntry /\ k.entry = e /\ ~Object(k)
  <2>1. Become(Continue(q, e, p))
    <3>1. Become(Continue(ProcessQueue(Idle(
            [[Now EXCEPT !.ps[p].out = Tail(@)] EXCEPT !.br.out = <<>>])), e, p))
      BY <1>3 DEF OnStdout
    <3>2. Idle([[Now EXCEPT !.ps[p].out = Tail(@)] EXCEPT !.br.out = <<>>]) = t
      BY <1>2 DEF Idle, Take, State, Bridge
    <3> QED BY <3>1, <3>2
  <2>2. /\ Sound(s, ran) /\ s.call = call /\ s.ps = ps
        /\ s.br.queue = br.queue /\ s.br.cur = NoEntry
        /\ s.br.out = br.out /\ s.br.err = br.err
        /\ \A r \in Req : Fresh(Now, ran, r) => Fresh(s, ran, r)
    BY <1>2, IdleSound
  <2> HIDE DEF s, k
  <2>3. s.ps[p].out # <<>> /\ k = Head(s.ps[p].out)
    BY <1>1, <2>2 DEF k
  <2>4. /\ Sound(t, ran) /\ t.call = s.call /\ t.br = [s.br EXCEPT !.out = <<>>]
        /\ \A r \in Req : Fresh(s, ran, r) => Fresh(t, ran, r)
        /\ \A r \in Req : k.entry = Cmd(r) /\ ~Object(k) => Unwritten(t, r)
    BY <2>2, <2>3, TakeSound
  <2> HIDE DEF t
  <2>5. e \in Entry /\ e.req \in Req
    BY <1>2, <1>3, EntryFacts DEF Bridge
  <2>6. Inactive(t, e.req)
    <3>1. s.br \in Bridge
      BY <2>2 DEF Sound, State
    <3>2. t.br.queue = br.queue /\ t.br.cur = NoEntry
      BY <2>2, <2>4, <3>1 DEF Bridge
    <3> QED BY <1>2, <1>3, <3>2 DEF Inactive, Sound, OneEach
  <2>7. /\ Sound(q, ran) /\ q.call = call /\ Inactive(q, e.req)
        /\ Fresh(t, ran, e.req) => Fresh(q, ran, e.req)
    BY <2>2, <2>4, <2>5, <2>6, ProcessQueueSound
  <2> HIDE DEF q
  <2>8. q.call[e.req].pc = "sent"
    BY <1>2, <1>3, <2>7 DEF Sound, Awaited
  <2>9. /\ e.stage = "cmd" => e = Cmd(e.req) /\ Unwritten(t, e.req)
        /\ WaitsOnce(Now, ran, e.req) /\ PrintedOnce(Now, ran, e.req)
        /\ ran[e.req] \in Nat /\ ran[e.req] <= 1
    BY <1>2, <1>3, <2>4, <2>5, EntryFacts DEF Sound, WrittenOnce, Truthful
  <2>10. e.stage # "cmd" \/ br.out = <<>> => Fresh(q, ran, e.req)
    <3>1. CASE e.stage # "cmd"
      BY <1>2, <1>3, <2>2, <2>4, <2>5, <2>7, <3>1 DEF Sound, Unsent
    <3>2. CASE e.stage = "cmd" /\ br.out = <<>>
      <4>1. SUFFICES ASSUME ran[e.req] # 0 PROVE FALSE
        BY <2>7, <2>9, <3>2 DEF Fresh
      <4>2. PICK x \in Proc : \E i \in DOMAIN ps[x].out :
              ps[x].out[i].entry = e /\ Object(ps[x].out[i])
        BY <1>2, <2>5, <2>9, <3>2, <4>1 DEF Sound, Orderly, Kept
      <4>3. PICK i \in DOMAIN ps[x].out :
              ps[x].out[i].entry = e /\ Object(ps[x].out[i])
        BY <4>2
      <4>4. x = p /\ 1 = i + 1
        BY <1>2, <1>3, <2>9, <3>2, <4>3 DEF PrintedOnce
      <4>5. i \in 1 .. Len(ps[p].out)
        BY <1>2, <4>4
      <4> QED BY <4>4, <4>5
    <3> QED BY <3>1, <3>2
  <2>11. Interpret(br.out, q.br.err, p) = "data" /\ e.stage = "cmd" => ran[e.req] = 1
    <3> SUFFICES ASSUME Interpret(br.out, q.br.err, p) = "data", e.stage = "cmd"
                 PROVE  ran[e.req] = 1
      OBVIOUS
    <3> DEFINE h == br.out[Len(br.out)]
    <3>1. br.out # <<>> /\ Object(h) /\ h.from = p
      BY <1>2, InterpretFacts
    <3>2. ran[h.entry.req] # 0 /\ Closes(ps[h.from], h.entry)
      BY <1>2, <3>1 DEF Sound, Orderly, LastHeard
    <3> HIDE DEF h
    <3>3. h.entry = e
      BY <1>1, <1>2, <1>3, <3>1, <3>2 DEF Closes
    <3> QED BY <2>9, <3>2, <3>3
  <2>12. Sound(Continue(q, e, p), ran)
    <3> HIDE DEF e
    <3> QED BY <1>2, <2>5, <2>7, <2>8, <2>10, <2>11, ContinueSound
  <2> QED BY <1>1, <2>1, <2>12, BecomeSound
<1>4. CASE ~(e # NoEntry /\ k.entry = e /\ ~Object(k))
  <2>1. Become(t2)
    <3>1. Become([[Now EXCEPT !.ps[p].out = Tail(@)] EXCEPT !.br.out = Append(@, k)])
      BY <1>4 DEF OnStdout
    <3>2. [[Now EXCEPT !.ps[p].out = Tail(@)] EXCEPT !.br.out = Append(@, k)] = t2
      BY <1>2 DEF Take, State, Bridge
    <3> QED BY <3>1, <3>2
  <2>2. Sound(t2, ran)
    BY <1>1, <1>2, TakeSound
  <2> HIDE DEF t2
  <2> QED BY <1>1, <2>1, <2>2, BecomeSound
<1> QED BY <1>3, <1>4

\* Steps that touch neither the queue nor what commands have left behind.
LEMMA AlikeStep ==
  ASSUME BridgeInv, br' \in Bridge, ps' \in [Proc -> Process], UNCHANGED <<call, ran>>,
         br'.queue = br.queue, br'.cur = br.cur, br'.out = br.out,
         \A p \in Proc : /\ ps'[p].todo \in {ps[p].todo, <<>>}
                        /\ ps'[p].due \in {ps[p].due, NoEntry}
                        /\ Keeps(ps'[p], ps[p])
  PROVE  Sound(Now', ran')
<1> DEFINE u == [br |-> br', call |-> call', ps |-> ps']
<1>1. /\ u.br = br' /\ u.call = call' /\ u.ps = ps'
      /\ u = Now'
  BY DEF Now
<1>2. u \in State
  BY NowFacts DEF State
<1> HIDE DEF u
<1>3. PICK s : s = Now
  OBVIOUS
<1>4. Sound(s, ran) /\ Alike(u, s)
  BY <1>1, <1>3, NowFacts DEF Alike
<1>5. Sound(u, ran)
  BY ONLY <1>2, <1>4, AlikeSound
<1> QED BY <1>1, <1>5

LEMMA OnStderrStep ==
  ASSUME BridgeInv, NEW p \in Proc, OnStderr(p) PROVE Sound(Now', ran')
<1>1. /\ ps[p] \in Process /\ ps[p].err # <<>> /\ UNCHANGED <<call, ran>>
      /\ ps' = [ps EXCEPT ![p].err = Tail(@)]
      /\ br' = [br EXCEPT !.err = @ \cup {Head(ps[p].err)}]
  BY NowFacts DEF OnStderr, Become, Now
<1>2. /\ Head(ps[p].err) \in {"error", "throttled"}
      /\ Tail(ps[p].err) \in Seq({"error", "throttled"})
  <2>1. ps[p].err \in Seq({"error", "throttled"})
    BY <1>1 DEF Process
  <2> QED BY <1>1, <2>1
<1>3. br' \in Bridge /\ br'.queue = br.queue /\ br'.cur = br.cur /\ br'.out = br.out
  BY <1>1, <1>2, NowFacts DEF Bridge
<1>4. \A q \in Proc : /\ ps'[q] \in Process /\ ps'[q].todo = ps[q].todo
                     /\ ps'[q].due = ps[q].due /\ Keeps(ps'[q], ps[q])
  <2> DEFINE w == [ps[p] EXCEPT !.err = Tail(@)]
  <2>1. /\ w \in Process /\ w.todo = ps[p].todo /\ w.due = ps[p].due
        /\ Keeps(w, ps[p])
    BY <1>1, <1>2 DEF Process, Keeps, Gone
  <2> HIDE DEF w
  <2>2. ps' = [ps EXCEPT ![p] = w]
    BY <1>1 DEF w
  <2>3. \A q \in Proc : Keeps(ps[q], ps[q])
    BY DEF Keeps
  <2> QED BY <2>1, <2>2, <2>3, NowFacts
<1>5. ps' \in [Proc -> Process]
  BY <1>1, <1>4, NowFacts
<1> QED BY <1>1, <1>3, <1>4, <1>5, AlikeStep

LEMMA FaultStep ==
  ASSUME BridgeInv, NEW p \in Proc, Hang(p) \/ Crash(p) \/ Kill(p)
  PROVE  Sound(Now', ran')
<1>1. PICK w : /\ \/ w = [ps[p] EXCEPT !.state = "hung"] /\ ps[p].state = "live"
                  \/ w = [ps[p] EXCEPT !.state = "dead", !.todo = <<>>, !.due = NoEntry]
               /\ ps' = [ps EXCEPT ![p] = w]
               /\ UNCHANGED <<br, call, ran>>
  <2>1. CASE Hang(p)
    BY <2>1 DEF Hang
  <2>2. CASE Crash(p) \/ Kill(p)
    <3>1. ps' = [ps EXCEPT ![p] =
                   [ps[p] EXCEPT !.state = "dead", !.todo = <<>>, !.due = NoEntry]]
      BY <2>2, NowFacts DEF Crash, Kill, Dying
    <3> QED BY <2>2, <3>1 DEF Crash, Kill
  <2> QED BY <2>1, <2>2
<1>2. /\ w \in Process /\ w.todo \in {ps[p].todo, <<>>}
      /\ w.due \in {ps[p].due, NoEntry} /\ Keeps(w, ps[p])
  <2>1. ps[p] \in Process
    BY NowFacts
  <2>2. <<>> \in Seq(Entry)
    OBVIOUS
  <2>3. CASE w = [ps[p] EXCEPT !.state = "hung"] /\ ps[p].state = "live"
    BY <2>1, <2>3 DEF Process, Keeps, Gone
  <2>4. CASE w = [ps[p] EXCEPT !.state = "dead", !.todo = <<>>, !.due = NoEntry]
    BY <2>1, <2>2, <2>4 DEF Process, Keeps, Gone
  <2> QED BY <1>1, <2>3, <2>4
<1>3. \A q \in Proc : /\ ps'[q] \in Process /\ ps'[q].todo \in {ps[q].todo, <<>>}
                     /\ ps'[q].due \in {ps[q].due, NoEntry} /\ Keeps(ps'[q], ps[q])
  <2>1. \A q \in Proc : Keeps(ps[q], ps[q])
    BY DEF Keeps
  <2> QED BY <1>1, <1>2, <2>1, NowFacts
<1>4. ps' \in [Proc -> Process]
  BY <1>1, <1>3, NowFacts
<1> QED BY <1>1, <1>3, <1>4, NowFacts, AlikeStep

LEMMA PrintedFacts ==
  ASSUME NEW p \in Proc, NEW e \in Entry, NEW kind \in {"object", "marker"}
  PROVE  /\ Printed(p, e, kind) \in Item
         /\ Printed(p, e, kind).entry = e /\ Printed(p, e, kind).from = p
         /\ Object(Printed(p, e, kind)) <=> kind = "object"
BY DEF Printed, Item, Object

LEMMA ExecuteStep ==
  ASSUME BridgeInv, NEW p \in Proc, Execute(p) PROVE Sound(Now', ran')
<1> DEFINE e == Head(ps[p].todo)
           k == Printed(p, e, "object")
<1>1. PICK o \in Outcomes :
        /\ e.stage # "cmd" => o = "ok"
        /\ ps' = [ps EXCEPT
             ![p].todo = Tail(@), ![p].due = e,
             ![p].out = IF e.stage = "cmd" /\ o = "ok" THEN Append(@, k) ELSE @,
             ![p].err = IF o = "ok" THEN @ ELSE Append(@, o)]
        /\ IF e.stage = "cmd"
             THEN /\ call' = [call EXCEPT ![e.req].outcome = o]
                  /\ ran' = [ran EXCEPT ![e.req] = @ + (IF o = "ok" THEN 1 ELSE 0)]
             ELSE UNCHANGED <<call, ran>>
        /\ UNCHANGED br
  BY DEF Execute, Outcomes
<1>2. /\ ps[p] \in Process /\ ps[p].todo \in Seq(Entry) /\ ps[p].todo # <<>>
      /\ ps[p].due = NoEntry /\ ps[p].state = "live"
      /\ ps[p].out \in Seq(Item) /\ ps[p].err \in Seq({"error", "throttled"})
      /\ e \in Entry /\ e.req \in Req
  <2>1. /\ ps[p] \in Process /\ ps[p].todo # <<>>
        /\ ps[p].due = NoEntry /\ ps[p].state = "live"
    BY NowFacts DEF Execute
  <2>2. /\ ps[p].todo \in Seq(Entry) /\ ps[p].out \in Seq(Item)
        /\ ps[p].err \in Seq({"error", "throttled"})
    BY <2>1 DEF Process
  <2> QED BY <2>1, <2>2, EntryFacts
<1>3. k \in Item /\ k.entry = e /\ k.from = p /\ Object(k)
  BY <1>2, PrintedFacts
<1> DEFINE did == IF e.stage = "cmd" /\ o = "ok" THEN 1 ELSE 0
           err == IF o = "ok" THEN ps[p].err ELSE Append(ps[p].err, o)
           out == IF did = 1 THEN Append(ps[p].out, k) ELSE ps[p].out
           w == [ps[p] EXCEPT !.todo = Tail(@), !.due = e, !.out = out, !.err = err]
           l == Len(ps[p].out) + 1
<1>4. ps' = [ps EXCEPT ![p] = w]
  <2>1. out = IF e.stage = "cmd" /\ o = "ok" THEN Append(ps[p].out, k) ELSE ps[p].out
    OBVIOUS
  <2> HIDE DEF out, k
  <2> QED BY <1>1, <2>1, NowFacts
<1>5. IF did = 1 THEN Extended(out, ps[p].out, k, l) ELSE out = ps[p].out
  <2>1. Extended(Append(ps[p].out, k), ps[p].out, k, l)
    <3> HIDE DEF k
    <3> QED BY <1>2, <1>3, ExtendFacts
  <2> QED BY <2>1
<1>51. did \in {0, 1} /\ (did = 1 => e.stage = "cmd")
  OBVIOUS
<1>52. out \in Seq(Item)
  <2> HIDE DEF k
  <2> QED BY <1>2, <1>3
<1>53. err \in Seq({"error", "throttled"})
  BY <1>1, <1>2 DEF Outcomes
<1> HIDE DEF e, k, err, out, l
<1>6. /\ w \in Process /\ w.todo = Tail(ps[p].todo) /\ w.out = out
      /\ w.due = e /\ w.state = ps[p].state
  <2>1. Tail(ps[p].todo) \in Seq(Entry)
    BY <1>2
  <2> QED BY <1>2, <1>52, <1>53, <2>1 DEF Process
<1> HIDE DEF w
<1>7. /\ \A q \in Proc \ {p} : ps'[q] = ps[q]
      /\ ps'[p] = w /\ ps' \in [Proc -> Process]
  BY <1>4, <1>6, NowFacts
<1>8. Shifted(ps'[p].todo, ps[p].todo)
  <2>1. ps'[p].todo = Tail(ps[p].todo)
    BY <1>6, <1>7
  <2> QED BY <1>2, <2>1, TailFacts DEF Shifted
<1>9. /\ ran' \in [Req -> Nat]
      /\ \A r \in Req : ran'[r] = IF did = 1 /\ e = Cmd(r) THEN ran[r] + 1 ELSE ran[r]
  <2>1. CASE e.stage = "cmd"
    <3>1. e = Cmd(e.req) /\ \A r \in Req : e = Cmd(r) <=> r = e.req
      BY <1>2, <2>1, EntryFacts
    <3>2. ran' = [ran EXCEPT ![e.req] = @ + (IF o = "ok" THEN 1 ELSE 0)]
      BY <1>1, <2>1 DEF e
    <3> QED BY <1>2, <2>1, <3>1, <3>2, NowFacts
  <2>2. CASE e.stage # "cmd"
    BY <1>1, <2>2, NowFacts DEF e
  <2> QED BY <2>1, <2>2
<1>10. /\ call' \in [Req -> Call]
       /\ \A r \in Req : /\ call'[r].pc = call[r].pc
                         /\ call'[r].result = call[r].result
                         /\ call'[r].attempt = call[r].attempt
  <2>1. CASE e.stage = "cmd"
    <3> DEFINE c == [call[e.req] EXCEPT !.outcome = o]
    <3>1. call' = [call EXCEPT ![e.req] = c]
      BY <1>1, <2>1 DEF e
    <3>2. /\ c \in Call /\ c.pc = call[e.req].pc /\ c.result = call[e.req].result
          /\ c.attempt = call[e.req].attempt
      <4>1. call[e.req] \in Call
        BY <1>2, NowFacts
      <4> QED BY <4>1 DEF Call
    <3> HIDE DEF c
    <3> QED BY <1>2, <3>1, <3>2, NowFacts
  <2>2. CASE e.stage # "cmd"
    BY <1>1, <2>2, NowFacts DEF e
  <2> QED BY <2>1, <2>2
<1>11. PICK s : s = Now
  OBVIOUS
<1>12. PICK u : u = [br |-> br', call |-> call', ps |-> ps']
  OBVIOUS
<1>13. u \in State /\ u = Now'
  BY <1>1, <1>7, <1>10, <1>12, NowFacts DEF State, Now
<1> HIDE DEF did
<1>14. Sound(s, ran) /\ Executed(s, ran, u, ran', p, e, did, k, l)
  <2>1. e = Head(ps[p].todo)
    BY DEF e
  <2>2. s.br = br /\ s.call = call /\ s.ps = ps /\ Sound(s, ran)
    BY <1>11, NowFacts
  <2>3. u.br = br' /\ u.call = call' /\ u.ps = ps'
    BY <1>12
  <2>4. /\ s.ps[p].todo # <<>> /\ e = Head(s.ps[p].todo)
        /\ s.ps[p].due = NoEntry /\ s.ps[p].state = "live"
    BY <1>2, <2>1, <2>2
  <2>5. /\ u.br = s.br
        /\ \A r \in Req : /\ u.call[r].pc = s.call[r].pc
                          /\ u.call[r].result = s.call[r].result
                          /\ u.call[r].attempt = s.call[r].attempt
    BY <1>1, <1>10, <2>2, <2>3
  <2>6. /\ \A q \in Proc \ {p} : u.ps[q] = s.ps[q]
        /\ u.ps[p].due = e /\ u.ps[p].state = s.ps[p].state
        /\ Shifted(u.ps[p].todo, s.ps[p].todo)
    BY <1>6, <1>7, <1>8, <2>2, <2>3
  <2>7. IF did = 1 THEN Extended(u.ps[p].out, s.ps[p].out, k, l)
                   ELSE u.ps[p].out = s.ps[p].out
    BY <1>5, <1>6, <1>7, <2>2, <2>3
  <2> QED BY <1>3, <1>9, <1>51, <2>2, <2>4, <2>5, <2>6, <2>7 DEF Executed
<1>15. p \in Proc /\ ran' \in [Req -> Nat] /\ u \in State /\ did \in {0, 1}
  BY <1>9, <1>13, <1>51
<1>16. Sound(u, ran')
  BY ONLY <1>14, <1>15, ExecuteSound
<1> QED BY <1>13, <1>16

LEMMA PrintMarkerStep ==
  ASSUME BridgeInv, NEW p \in Proc, PrintMarker(p) PROVE Sound(Now', ran')
<1> DEFINE k == Printed(p, ps[p].due, "marker")
           l == Len(ps[p].out) + 1
           w == [ps[p] EXCEPT !.due = NoEntry, !.out = Append(@, k)]
<1>1. /\ ps[p] \in Process /\ ps[p].out \in Seq(Item)
      /\ ps[p].state = "live" /\ ps[p].due # NoEntry /\ ps[p].due \in Entry
  <2>1. ps[p] \in Process /\ ps[p].state = "live" /\ ps[p].due # NoEntry
    BY NowFacts DEF PrintMarker
  <2> QED BY <2>1 DEF Process
<1>2. /\ ps' = [ps EXCEPT ![p] = w] /\ UNCHANGED <<br, call, ran>>
  BY NowFacts DEF PrintMarker
<1>3. k \in Item /\ k.entry = ps[p].due /\ k.from = p /\ ~Object(k)
  BY <1>1, PrintedFacts
<1> HIDE DEF k
<1>4. Extended(Append(ps[p].out, k), ps[p].out, k, l)
  BY <1>1, <1>3, ExtendFacts
<1> HIDE DEF l
<1>5. /\ w \in Process /\ w.due = NoEntry /\ w.out = Append(ps[p].out, k)
      /\ w.state = ps[p].state /\ w.todo = ps[p].todo
  <2>1. Append(ps[p].out, k) \in Seq(Item)
    BY <1>1, <1>3
  <2> QED BY <1>1, <2>1 DEF Process
<1> HIDE DEF w
<1>6. /\ \A q \in Proc \ {p} : ps'[q] = ps[q]
      /\ ps'[p] = w /\ ps' \in [Proc -> Process]
  BY <1>2, <1>5, NowFacts
<1>7. PICK s : s = Now
  OBVIOUS
<1>8. PICK u : u = [br |-> br', call |-> call', ps |-> ps']
  OBVIOUS
<1>9. u \in State /\ u = Now'
  BY <1>2, <1>6, <1>8, NowFacts DEF State, Now
<1>10. /\ Sound(s, ran) /\ s.ps[p].state = "live" /\ s.ps[p].due # NoEntry
       /\ u.br = s.br /\ u.call = s.call
       /\ \A q \in Proc \ {p} : u.ps[q] = s.ps[q]
       /\ u.ps[p].due = NoEntry /\ u.ps[p].state = s.ps[p].state
       /\ u.ps[p].todo = s.ps[p].todo
       /\ k.entry = s.ps[p].due /\ ~Object(k) /\ k.from = p
       /\ Extended(u.ps[p].out, s.ps[p].out, k, l)
  BY <1>1, <1>2, <1>3, <1>4, <1>5, <1>6, <1>7, <1>8, NowFacts
<1>11. p \in Proc
  OBVIOUS
<1>12. Sound(u, ran)
  BY ONLY <1>9, <1>10, <1>11, PrintMarkerSound
<1> QED BY <1>2, <1>9, <1>12

-----------------------------------------------------------------------------
(* The theorems.                                                           *)

\* The invariant holds: a call has one command under way, and one that has
\* printed nothing yet has had no effect.
THEOREM BridgeInvariant == Spec => []BridgeInv
<1>1. Init => BridgeInv
  BY InitSound, BridgeAssumption DEF Init, BridgeInv
<1>2. BridgeInv /\ [Next]_vars => BridgeInv'
  <2> SUFFICES ASSUME BridgeInv, [Next]_vars PROVE Sound(Now', ran') /\ faults' \in 0 .. MaxFaults
    BY DEF BridgeInv
  <2>1. CASE UNCHANGED vars
    <3>1. UNCHANGED <<br, call, ps, ran, faults>>
      BY <2>1 DEF vars
    <3> QED BY <3>1, NowFacts DEF Now
  <2>2. ASSUME NEW r \in Req, Refuse(r) \/ Invoke(r) \/ Retry(r)
        PROVE  Sound(Now', ran') /\ UNCHANGED faults
    BY <2>2, RefuseStep, InvokeStep, RetryStep DEF Refuse, Invoke, Retry
  <2>3. ASSUME Dispose \/ TimeOut PROVE Sound(Now', ran') /\ UNCHANGED faults
    BY <2>3, DisposeStep, TimeOutStep DEF Dispose, TimeOut
  <2>4. ASSUME Overflow PROVE Sound(Now', ran') /\ Fault
    BY <2>4, OverflowStep DEF Overflow
  <2>5. ASSUME NEW p \in Proc, Handlers(p) PROVE Sound(Now', ran') /\ UNCHANGED faults
    BY <2>5, OnStdoutStep, OnStderrStep, OnCloseStep
       DEF Handlers, OnStdout, OnStderr, OnClose
  <2>6. ASSUME NEW p \in Proc, Execute(p) \/ PrintMarker(p)
        PROVE  Sound(Now', ran') /\ UNCHANGED faults
    BY <2>6, ExecuteStep, PrintMarkerStep DEF Execute, PrintMarker
  <2>7. ASSUME NEW p \in Proc, Hang(p) \/ Crash(p) \/ Kill(p)
        PROVE  Sound(Now', ran') /\ (Fault \/ UNCHANGED faults)
    BY <2>7, FaultStep DEF Hang, Crash, Kill
  <2>8. Fault \/ UNCHANGED faults => faults' \in 0 .. MaxFaults
    BY NowFacts, BridgeAssumption DEF Fault
  <2> QED BY <2>1, <2>2, <2>3, <2>4, <2>5, <2>6, <2>7, <2>8 DEF Next
<1> QED BY <1>1, <1>2, PTL DEF Spec

\* The queue never holds more than MAX_QUEUE_SIZE commands, a call is never
\* sent more than maxRetries times again, and everything has its type.
THEOREM BridgeTypes == Spec => []TypeOK
<1>1. BridgeInv => TypeOK
  BY NowFacts DEF BridgeInv, Sound, TypeOK
<1> QED BY <1>1, BridgeInvariant, PTL

\* What a caller is told is true of its own command, for any number of callers,
\* retries, processes and faults, whatever the one buffer holds of several
\* commands and processes: among the commands of one process the reply of one is
\* never taken for that of another, and a command that took effect is never sent
\* again.  An object that another process has printed into the buffer may be
\* taken for a reply; of that nothing is said.
THEOREM BridgeAnswersAreTrue == Spec => []AnswersAreTrue
<1>1. BridgeInv => AnswersAreTrue
  <2> SUFFICES ASSUME BridgeInv, NEW r \in Req
               PROVE  /\ ran[r] <= 1
                      /\ call[r].result = "data" => ran[r] = 1
                      /\ call[r].result \in {"error", "throttled"} => ran[r] = 0
    BY DEF AnswersAreTrue
  <2>1. Truthful(Now, ran, r) /\ Now.call = call
    BY NowFacts DEF Sound
  <2> QED BY <2>1 DEF Truthful, Fresh
<1> QED BY <1>1, BridgeInvariant, PTL
=============================================================================
