----------------------------- MODULE PsidTasks -----------------------------
(***************************************************************************)
(* The family of tasks (bin/daemon/psidsignal.c, PSIDtask_cleanup(),       *)
(* msg_CHILDBORN(), msg_SPAWNSUCCESS() and msg_CHILDDEAD() of psidspawn.c, *)
(* what declareNodeDead() does to tasks).                                  *)
(*                                                                         *)
(* A task knows its parent (ptid), the parent's psid the children          *)
(* (childList).  A task that is released hands its children over to its    *)
(* own parent, which takes four messages between up to three psids, and is *)
(* forgotten by it then.  A task that ends without being released has its  *)
(* relatives signalled.                                                    *)
(*                                                                         *)
(* A handler is a function of d, the part of the state the psid it runs at *)
(* may change; messages of psids to tasks of the own node are handled at   *)
(* once, within the handler that sends them, hence the recursion.  The     *)
(* network keeps the order of two nodes (module RDP).  Registered signals  *)
(* (assignedSigs, signalReceiver), forwarders that die, obsolete tasks and *)
(* the groups that hand nothing over are left out.                         *)
(***************************************************************************)
EXTENDS Integers, Sequences, FiniteSets, SequencesExt

CONSTANTS
  Task,     \* the tasks, positive numbers
  Node,     \* the nodes
  Home,     \* Home[t]: the node of t
  Parent,   \* Parent[t]: who spawns t, None for a root
  Late,     \* the tasks that are still to be born
  Client,   \* the tasks connected to their psid; of the others only the
            \* forwarder is
  Asks,     \* the clients that ask for their release
  Fails,    \* the tasks that may end by an error
  Mortal,   \* the nodes that may go down
  None

ASSUME FamilyAssumption ==
  /\ Home \in [Task -> Node] /\ Parent \in [Task -> Task \cup {None}]
  /\ None \notin Task /\ Task \subseteq Nat /\ Client \subseteq Task
  /\ Late \subseteq Task /\ Asks \subseteq Client /\ Fails \subseteq Task
  /\ Mortal \subseteq Node

VARIABLES
  task,     \* task[t]: what the psid of t knows of it
  client,   \* client[t]: the process of t, "unborn", "runs", "signalled" or
            \* "dead", whether it has asked for its release, answers it got
  fwd,      \* fwd[t]: messages of the forwarder of t to its psid
  chan,     \* chan[n][m]: messages on the way from psid n to psid m
  up        \* up[n]: the nodes psid n holds up, {} if n is down itself

vars == <<task, client, fwd, chan, up>>

\* Messages of psids; for RELEASE and CHILDDEAD see the handlers.
RELEASE(c, p, answer) == [type |-> "RELEASE", to |-> p, from |-> c, answer |-> answer]
RELEASERES(c) == [type |-> "RELEASERES", to |-> c]
SIGNAL(t) == [type |-> "SIGNAL", to |-> t]
SPAWNSUCCESS(c, p) == [type |-> "SPAWNSUCCESS", to |-> p, from |-> c]
CHILDDEAD(c, p) == [type |-> "CHILDDEAD", to |-> p, child |-> c]
NEWANCESTOR(t, c, new) == [type |-> "NEWANCESTOR", to |-> c, from |-> t, new |-> new]
ADOPTCHILDSET(c, new, t, heirs) ==
  [type |-> "ADOPTCHILDSET", to |-> new, from |-> c, parent |-> t, heirs |-> heirs]
ADOPTFAILED(c, t, heirs) ==
  [type |-> "ADOPTFAILED", to |-> c, parent |-> t, heirs |-> heirs]
INHERITDONE(t, c) == [type |-> "INHERITDONE", to |-> t, kept |-> c]
INHERITFAILED(t, c) == [type |-> "INHERITFAILED", to |-> t, kept |-> c]

\* PStask_t of a task just spawned.
Spawned(t) ==
  [managed |-> TRUE, fd |-> t \in Client, forwarder |-> Parent[t] # None,
   ptid |-> Parent[t], released |-> FALSE, parentReleased |-> FALSE,
   releaseAnswer |-> FALSE, pendingReleaseRes |-> 0, removeIt |-> FALSE,
   childList |-> << >>, keptChildren |-> << >>, deadBefore |-> {},
   releasedBefore |-> {}]

Unborn(t) == [Spawned(t) EXCEPT !.managed = FALSE]

-----------------------------------------------------------------------------
(***************************************************************************)
(* d = [n, task, client, chan, up], chan and up those of psid n.           *)
(***************************************************************************)

\* PStasklist_find(&managedTasks, t) at the own node.
Found(d, t) == t # None /\ Home[t] = d.n /\ d.task[t].managed

Local(d) == {t \in Task : Found(d, t)}

\* PSID_removeSignal(): the first entry of a list.
Without(list, t) ==
  IF t \in ToSet(list)
  THEN RemoveAt(list, SelectInSeq(list, LAMBDA u : u = t)) ELSE list

OnNode(list, n) == SelectSeq(list, LAMBDA u : Home[u] = n)
OffNode(list, n) == SelectSeq(list, LAMBDA u : Home[u] # n)

Queue(d, msg) == [d EXCEPT !.chan[Home[msg.to]] = Append(@, msg)]

\* PSID_kill(): a process that is signalled ends by and by.
Kill(d, t) ==
  [d EXCEPT !.client[t].proc = IF @ = "runs" THEN "signalled" ELSE @]

\* PSID_sendSignal(), signal -1: ends the task unless it is gone.
PSID_sendSignal(d, t) ==
  IF Home[t] # d.n THEN Queue(d, SIGNAL(t))
  ELSE IF Found(d, t) THEN Kill(d, t) ELSE d

\* PSID_sendSignalsToRelatives(): the parent and the children on nodes up.
Relatives(d, t) ==
  (IF d.task[t].ptid = None THEN << >> ELSE <<d.task[t].ptid>>)
  \o SelectSeq(d.task[t].childList, LAMBDA c : Home[c] \in d.up)

\* PSIDtask_cleanup(): a task goes when nothing is expected of or for it.
Forget(d, t) ==
  [d EXCEPT !.task[t].removeIt = TRUE,
            !.task[t].managed = \/ d.task[t].childList # << >>
                                \/ d.task[t].pendingReleaseRes # 0]

PSIDtask_cleanup(d, t) ==
  Forget(IF d.task[t].removeIt \/ d.task[t].released THEN d
         ELSE FoldLeft(PSID_sendSignal, d, Relatives(d, t)), t)

\* "If the task is gone in the meantime, we might have to cleanup".
Bereft(d, t) ==
  IF d.task[t].removeIt /\ d.task[t].childList = << >>
  THEN PSIDtask_cleanup(d, t) ELSE d

-----------------------------------------------------------------------------
(***************************************************************************)
(* Messages                                                                *)
(***************************************************************************)

RECURSIVE handleMsg(_, _)

\* sendMsg() of a message a psid handles.
sendMsg(d, msg) ==
  IF Home[msg.to] = d.n THEN handleMsg(d, msg) ELSE Queue(d, msg)

\* releaseChild(): what the parent does not know it passes on to its own
\* parent, and expects the answer for a task of its own node.
Forwarded(d, p, c, answer) ==
  LET e == IF Found(d, c) /\ ~d.task[c].parentReleased
           THEN [d EXCEPT !.task[c].parentReleased = TRUE,
                          !.task[c].pendingReleaseRes =
                            IF answer THEN @ + 1 ELSE @]
           ELSE d
  IN  sendMsg(e, RELEASE(c, d.task[p].ptid, answer))

NotYetChild(d, p, c) ==
  Found(d, p) /\ c \notin ToSet(d.task[p].childList) /\ d.task[p].ptid # None

releaseChild(d, p, c, answer) ==
  CASE ~Found(d, p) -> d
    [] NotYetChild(d, p, c) -> Forwarded(d, p, c, answer)
    [] Found(d, p) /\ c \in ToSet(d.task[p].childList) ->
         Bereft([d EXCEPT !.task[p].childList = Without(@, c)], p)
    [] OTHER -> [d EXCEPT !.task[p].releasedBefore = @ \cup {c}]

\* Mutant: the answer of a remote parent is not counted.
Mut_Deregistered(d, t, p) ==
  CASE p = None -> d
    [] p # None /\ Home[p] = d.n -> releaseChild(d, p, t, d.task[t].releaseAnswer)
    [] p # None /\ Home[p] # d.n -> Queue(d, RELEASE(t, p, d.task[t].releaseAnswer))

\* deregisterFromParent(); the parent of a root is the psid, which agrees.
Deregistered(d, t, p) ==
  CASE p = None -> d
    [] p # None /\ Home[p] = d.n -> releaseChild(d, p, t, d.task[t].releaseAnswer)
    [] p # None /\ Home[p] # d.n ->
         [Queue(d, RELEASE(t, p, d.task[t].releaseAnswer))
            EXCEPT !.task[t].pendingReleaseRes =
              IF d.task[t].releaseAnswer /\ ~d.task[t].parentReleased
              THEN @ + 1 ELSE @]

deregisterFromParent(d, t) ==
  [Deregistered(d, t, d.task[t].ptid) EXCEPT !.task[t].parentReleased = TRUE]

\* The answer goes to the client, or to the forwarder.
Answer(d, t) ==
  IF d.task[t].releaseAnswer THEN [d EXCEPT !.client[t].told = @ + 1] ELSE d

\* Mutant: every answer is handed on.
Mut_Concluded_all(d, t) ==
  IF d.task[t].pendingReleaseRes = 0 /\ d.task[t].removeIt
  THEN PSIDtask_cleanup(Answer(d, t), t) ELSE Answer(d, t)

\* Mutant: a task that has ended in the meantime is not cleaned up.
Mut_Concluded(d, t) ==
  IF d.task[t].pendingReleaseRes # 0 THEN d ELSE Answer(d, t)

\* The end of msg_RELEASERES(), msg_INHERITDONE() and msg_INHERITFAILED(): if
\* no answer is missing the parent is told and, if it has answered at once,
\* whoever asked for the release.
Concluded(d, t) ==
  IF d.task[t].pendingReleaseRes # 0 THEN d
  ELSE IF d.task[t].removeIt THEN PSIDtask_cleanup(Answer(d, t), t)
  ELSE Answer(d, t)

ParentTold(d, t) ==
  IF d.task[t].pendingReleaseRes # 0 \/ d.task[t].parentReleased THEN d
  ELSE deregisterFromParent(d, t)

Answered(d, t) ==
  Concluded(ParentTold([d EXCEPT !.task[t].pendingReleaseRes = @ - 1], t), t)

msg_RELEASERES(d, t) == IF Found(d, t) THEN Answered(d, t) ELSE d

\* msg_RELEASE() for a child: no answer if the parent is gone or has passed it
\* on.
Reply(d, c) ==
  IF Home[c] = d.n THEN msg_RELEASERES(d, c) ELSE Queue(d, RELEASERES(c))

ReplyIf(cond, d, c) == IF cond THEN Reply(d, c) ELSE d

msg_RELEASE(d, c, p, answer) ==
  ReplyIf(Found(d, p) /\ ~NotYetChild(d, p, c) /\ answer,
          releaseChild(d, p, c, answer), c)

\* releaseTask(): one NEWANCESTOR to each node with children.
Bequeath(d, t, c) ==
  LET e == sendMsg([d EXCEPT !.task[t].pendingReleaseRes = @ + 1],
                   NEWANCESTOR(t, c, d.task[t].ptid))
  IN  [e EXCEPT !.task[t].keptChildren = Append(@, c)]

Firsts(list) ==
  SelectSeq(list, LAMBDA c :
    c = list[Min({i \in DOMAIN list : Home[list[i]] = Home[c]})])

releaseTask(d, t) ==
  LET list == d.task[t].childList
      e == [d EXCEPT !.task[t].released = TRUE,
                     !.task[t].pendingReleaseRes = @ + 1]
      f == IF d.task[t].ptid = None THEN e
           ELSE FoldLeft(LAMBDA g, c : Bequeath(g, t, c),
                         [e EXCEPT !.task[t].childList = << >>], Firsts(list))
  IN  [f EXCEPT !.task[t].pendingReleaseRes = @ - 1]

\* msg_RELEASE() of a task for itself: by the client, or by its forwarder if
\* the client is not connected; what comes from the forwarder of a connected
\* client is ignored.
AnswerIfDone(d, t) ==
  IF d.task[t].pendingReleaseRes # 0 THEN d ELSE Answer(d, t)

Deregister(d, t) ==
  IF d.task[t].pendingReleaseRes # 0 THEN d
  ELSE AnswerIfDone(deregisterFromParent(d, t), t)

ReleaseSelf(d, t, answer) ==
  IF d.task[t].released
  THEN IF answer THEN [d EXCEPT !.client[t].told = @ + 1] ELSE d
  ELSE Deregister(releaseTask([d EXCEPT !.task[t].releaseAnswer = answer], t), t)

\* msg_NEWANCESTOR(): all children of msg.from on this node that are not
\* released get a new parent.  If that one's node is down they are killed.
\* More of them than one ADOPTCHILDSET holds are not considered.
Mut_Heirs(d, t) ==   \* released children, too
  SetToSortSeq({c \in Local(d) : d.task[c].ptid = t}, <)

Heirs(d, t) ==
  SetToSortSeq({c \in Local(d) : d.task[c].ptid = t /\ ~d.task[c].released}, <)

msg_NEWANCESTOR(d, msg) ==
  LET heirs == Heirs(d, msg.from)
  IN  IF Home[msg.new] \in d.up
      THEN sendMsg([d EXCEPT !.task = [c \in DOMAIN @ |->
                      IF c \in ToSet(heirs) THEN [@[c] EXCEPT !.ptid = msg.new]
                      ELSE @[c]]],
                   ADOPTCHILDSET(msg.to, msg.new, msg.from, heirs))
      ELSE sendMsg(FoldLeft(PSID_sendSignal, d, heirs),
                   INHERITFAILED(msg.from, msg.to))

\* msg_ADOPTCHILDSET(): children that were reported dead before stay out.
Adopt(d, t, c) ==
  [d EXCEPT !.task[t].releasedBefore = @ \ {c},
            !.task[t].deadBefore = @ \ {c},
            !.task[t].childList =
              IF c \in d.task[t].deadBefore THEN @ ELSE Append(@, c)]

drop_ADOPTCHILDSET(d, msg) ==
  sendMsg(d, ADOPTFAILED(msg.from, msg.parent, msg.heirs))

msg_ADOPTCHILDSET(d, msg) ==
  IF ~Found(d, msg.to) \/ Home[msg.from] \notin d.up
  THEN drop_ADOPTCHILDSET(d, msg)
  ELSE sendMsg(FoldLeft(LAMBDA e, c : Adopt(e, msg.to, c), d, msg.heirs),
               INHERITDONE(msg.parent, msg.from))

\* msg_ADOPTFAILED(): an heir is killed.  The tids of ADOPTCHILDSET are packed
\* with a flag each (9 bytes), and are read without (8 bytes): only the first
\* is recognized.  With up to four, the zero behind the last one is met again.
Recognized(heirs) == SubSeq(heirs, 1, Min({1, Len(heirs)}))

msg_ADOPTFAILED(d, msg) ==
  LET heirs == SelectSeq(Recognized(msg.heirs), LAMBDA c : Found(d, c))
      e == [d EXCEPT !.task = [c \in DOMAIN @ |->
              IF c \in ToSet(heirs) THEN [@[c] EXCEPT !.ptid = msg.parent]
              ELSE @[c]]]
  IN  sendMsg(FoldLeft(PSID_sendSignal, e, heirs),
              INHERITFAILED(msg.parent, msg.to))

\* msg_INHERITDONE(), msg_INHERITFAILED()
msg_INHERIT(d, t, kept) ==
  IF Found(d, t)
  THEN Answered([d EXCEPT !.task[t].keptChildren = Without(@, kept)], t)
  ELSE d

\* msg_CHILDDEAD() for a parent: a child it does not have is reported to its
\* own parent, and remembered.
msg_CHILDDEAD(d, c, p) ==
  LET known == c \in ToSet(d.task[p].childList)
      e == IF known \/ d.task[p].ptid = None THEN d
           ELSE sendMsg(d, CHILDDEAD(c, d.task[p].ptid))
  IN  CASE ~Found(d, p) -> d
        [] Found(d, p) /\ known ->
             Bereft([d EXCEPT !.task[p].childList = Without(@, c)], p)
        [] Found(d, p) /\ ~known ->
             Bereft([e EXCEPT !.task[p].deadBefore = @ \cup {c}], p)

\* msg_SPAWNSUCCESS() at the node of the parent: the child is killed if the
\* parent is gone, or is a root (not TG_ANY) that is no longer connected.
msg_SPAWNSUCCESS(d, c, p) ==
  IF Found(d, p) /\ (d.task[p].fd \/ Parent[p] # None)
  THEN [d EXCEPT !.task[p].childList = Append(@, c)]
  ELSE PSID_sendSignal(d, c)

handleMsg(d, msg) ==
  CASE msg.type = "RELEASE" -> msg_RELEASE(d, msg.from, msg.to, msg.answer)
    [] msg.type = "RELEASERES" -> msg_RELEASERES(d, msg.to)
    [] msg.type = "SIGNAL" -> PSID_sendSignal(d, msg.to)
    [] msg.type = "SPAWNSUCCESS" -> msg_SPAWNSUCCESS(d, msg.from, msg.to)
    [] msg.type = "CHILDDEAD" -> msg_CHILDDEAD(d, msg.child, msg.to)
    [] msg.type = "NEWANCESTOR" -> msg_NEWANCESTOR(d, msg)
    [] msg.type = "ADOPTCHILDSET" -> msg_ADOPTCHILDSET(d, msg)
    [] msg.type = "ADOPTFAILED" -> msg_ADOPTFAILED(d, msg)
    [] msg.type \in {"INHERITDONE", "INHERITFAILED"} ->
         msg_INHERIT(d, msg.to, msg.kept)

\* Mutant: a RELEASE is just lost, too.
Mut_PSID_dropMsg(d, msg) ==
  IF msg.type = "ADOPTCHILDSET" THEN drop_ADOPTCHILDSET(d, msg) ELSE d

\* PSID_dropMsg(): drop_RELEASE() and drop_ADOPTCHILDSET(); the other messages
\* are just lost.
PSID_dropMsg(d, msg) ==
  CASE msg.type = "RELEASE" /\ msg.answer -> Reply(d, msg.from)
    [] msg.type = "ADOPTCHILDSET" -> drop_ADOPTCHILDSET(d, msg)
    [] OTHER -> d

-----------------------------------------------------------------------------
(***************************************************************************)
(* Actions                                                                 *)
(***************************************************************************)
Ctx(n) == [n |-> n, task |-> task, client |-> client, chan |-> chan[n],
           up |-> up[n]]

Alive(n) == up[n] # {}

\* The handler of psid n ends with d; c is what it has left on the network.
Becomes(d, c) ==
  /\ task' = d.task
  /\ client' = d.client
  /\ chan' = [c EXCEPT ![d.n] = d.chan]

\* A client asks its psid for its release, PSI_release().
Release(t) ==
  /\ t \in Asks /\ ~client[t].asked /\ task[t].fd
  /\ client[t].proc \in {"runs", "signalled"} /\ Alive(Home[t])
  /\ LET d == Ctx(Home[t])
     IN  Becomes(ReleaseSelf([d EXCEPT !.client[t].asked = TRUE], t, TRUE), chan)
  /\ UNCHANGED <<fwd, up>>

\* A process ends, with success or not; finalizeForwarder() of psidforwarder.c:
\* its forwarder releases it in case of success, and reports its death.
Exit(t) ==
  /\ client[t].proc \in {"runs", "signalled"}
  /\ client' = [client EXCEPT ![t].proc = "dead"]
  /\ \E success \in {TRUE} \cup
                    (IF t \in Fails \/ client[t].proc = "signalled"
                     THEN {FALSE} ELSE {}) :
       fwd' = [fwd EXCEPT ![t] =
                 IF ~task[t].forwarder THEN << >>
                 ELSE IF success THEN <<"RELEASE", "CHILDDEAD">>
                 ELSE <<"CHILDDEAD">>]
  /\ UNCHANGED <<task, chan, up>>

\* The psid notices that a client is gone: PSIDclient_delete().
PSIDclient_delete(t) ==
  /\ client[t].proc = "dead" /\ task[t].fd /\ Alive(Home[t])
  /\ LET d == [Ctx(Home[t]) EXCEPT !.task[t].fd = FALSE]
     IN  Becomes(IF d.task[t].forwarder THEN d ELSE PSIDtask_cleanup(d, t), chan)
  /\ UNCHANGED <<fwd, up>>

\* msg_CHILDDEAD() from the forwarder: the parent expects it unless the child
\* is released.
Report(d, t, p) == IF p = None THEN d ELSE sendMsg(d, CHILDDEAD(t, p))

Dead(d, t) ==
  [Report(IF d.task[t].fd THEN d ELSE PSIDtask_cleanup(d, t), t,
          IF d.task[t].released THEN None ELSE d.task[t].ptid)
     EXCEPT !.task[t].forwarder = FALSE]

\* A message of a forwarder; a RELEASE counts only while no client is
\* connected, whose end of file may be noticed later.
FromForwarder(t) ==
  /\ fwd[t] # << >> /\ Alive(Home[t])
  /\ LET d == Ctx(Home[t])
     IN  Becomes(CASE ~Found(d, t) -> d
                   [] Found(d, t) /\ Head(fwd[t]) = "CHILDDEAD" -> Dead(d, t)
                   [] Found(d, t) /\ Head(fwd[t]) = "RELEASE" ->
                        IF task[t].fd THEN d ELSE ReleaseSelf(d, t, FALSE), chan)
  /\ fwd' = [fwd EXCEPT ![t] = Tail(@)]
  /\ UNCHANGED up

\* msg_CHILDBORN(): a parent of this node learns of its child at once.
Born(t) ==
  /\ client[t].proc = "unborn" /\ client[Parent[t]].proc # "unborn"
  /\ Alive(Home[t])
  /\ LET d == [Ctx(Home[t]) EXCEPT !.task[t].managed = TRUE,
                                   !.client[t].proc = "runs"]
         p == Parent[t]
     IN  Becomes(IF Home[p] # d.n THEN Queue(d, SPAWNSUCCESS(t, p))
                 ELSE IF Found(d, p)
                 THEN [d EXCEPT !.task[p].childList = Append(@, t)] ELSE d, chan)
  /\ UNCHANGED <<fwd, up>>

\* n gets a message of m.
Receive(n, m) ==
  /\ Alive(n) /\ m \in up[n] /\ chan[m][n] # << >>
  /\ Becomes(handleMsg(Ctx(n), Head(chan[m][n])), [chan EXCEPT ![m][n] = Tail(@)])
  /\ UNCHANGED <<fwd, up>>

\* External: a node goes down with all its tasks; what is on its way may still
\* arrive.
NodeDown(n) ==
  /\ n \in Mortal /\ Alive(n)
  /\ up' = [up EXCEPT ![n] = {}]
  /\ client' = [t \in Task |-> IF Home[t] = n
                               THEN [client[t] EXCEPT !.proc = "dead"]
                               ELSE client[t]]
  /\ fwd' = [t \in Task |-> IF Home[t] = n THEN << >> ELSE fwd[t]]
  /\ UNCHANGED <<task, chan>>

\* RDP gives a connection up: each message is dropped.
GiveBack(d, m) ==
  FoldLeft(PSID_dropMsg, [d EXCEPT !.chan[m] = << >>], d.chan[m])

\* declareNodeDead(), one task: it is signalled if its parent, a child or a
\* kept child was there.
SignalIf(cond, d, t) == IF cond THEN PSID_sendSignal(d, t) ELSE d

SeveredFrom(d, t, m) ==
  IF d.task[t].removeIt /\ d.task[t].childList = << >>
  THEN PSIDtask_cleanup([d EXCEPT !.task[t].pendingReleaseRes = 0], t)
  ELSE SignalIf(OnNode(d.task[t].keptChildren, m) # << >>,
                [d EXCEPT !.task[t].keptChildren = OffNode(@, m)], t)

Severed(d, t, m) ==
  SeveredFrom(
    SignalIf(\/ d.task[t].ptid # None /\ Home[d.task[t].ptid] = m
             \/ OnNode(d.task[t].childList, m) # << >>,
             [d EXCEPT !.task[t].childList = OffNode(@, m)], t),
    t, m)

declareNodeDead(d, m) ==
  FoldLeft(LAMBDA e, t : Severed(e, t, m), [d EXCEPT !.up = @ \ {m}],
           SetToSortSeq(Local(d), <))

\* The connection to a node that is down is given up: RDP_PKT_UNDELIVERABLE,
\* RDP_LOST_CONNECTION.
Lost(n, m) ==
  /\ Alive(n) /\ ~Alive(m) /\ m \in up[n]
  /\ Becomes(declareNodeDead(GiveBack(Ctx(n), m), m), [chan EXCEPT ![m][n] = << >>])
  /\ up' = [up EXCEPT ![n] = @ \ {m}]
  /\ UNCHANGED fwd

\* A message to a node known to be down is given back, too.
Undeliverable(n, m) ==
  /\ Alive(n) /\ m \notin up[n] /\ chan[n][m] # << >>
  /\ Becomes(GiveBack(Ctx(n), m), chan)
  /\ UNCHANGED <<fwd, up>>

\* Those born know their parents, and these them.
Children(t) == SetToSortSeq({c \in Task \ Late : Parent[c] = t}, <)

Init ==
  /\ task = [t \in Task |->
       IF t \in Late THEN Unborn(t)
       ELSE [Spawned(t) EXCEPT !.childList = Children(t)]]
  /\ client = [t \in Task |-> [proc |-> IF t \in Late THEN "unborn" ELSE "runs",
                               asked |-> FALSE, told |-> 0]]
  /\ fwd = [t \in Task |-> << >>]
  /\ chan = [n \in Node |-> [m \in Node \ {n} |-> << >>]]
  /\ up = [n \in Node |-> Node]

Next ==
  \/ \E t \in Task : \/ Release(t) \/ Exit(t) \/ PSIDclient_delete(t)
                     \/ FromForwarder(t) \/ Born(t)
  \/ \E n \in Node : NodeDown(n)
  \/ \E n \in Node : \E m \in Node \ {n} :
       Receive(n, m) \/ Lost(n, m) \/ Undeliverable(n, m)

Spec == Init /\ [][Next]_vars

-----------------------------------------------------------------------------
(***************************************************************************)
(* Properties                                                              *)
(***************************************************************************)

\* Nothing is under way: every message has been handled, every exit and every
\* dead node noticed.
Quiet ==
  /\ \A n \in Node : Alive(n) =>
       /\ \A m \in Node \ {n} : chan[n][m] = << >>
       /\ \A m \in up[n] \ {n} : Alive(m)
  /\ \A t \in Task :
       /\ fwd[t] = << >> /\ client[t].proc # "signalled"
       /\ client[t].proc = "dead" => ~task[t].fd \/ ~Alive(Home[t])

Managed(t) == Alive(Home[t]) /\ task[t].managed

\* A process its parent still has to answer for.
Running(t) == Managed(t) /\ ~task[t].released /\ client[t].proc = "runs"

\* Every variable has its type.
TypeOK ==
  /\ \A t \in Task :
       /\ task[t].pendingReleaseRes \in Nat
       /\ task[t].ptid \in Task \cup {None}
       /\ ToSet(task[t].childList) \cup ToSet(task[t].keptChildren)
            \cup task[t].deadBefore \cup task[t].releasedBefore \subseteq Task
       /\ client[t] \in [proc : {"unborn", "runs", "signalled", "dead"},
                         asked : BOOLEAN, told : Nat]
       /\ fwd[t] \in Seq({"RELEASE", "CHILDDEAD"})
  /\ up \in [Node -> SUBSET Node]

\* A message that, or whose answer, will be counted for t.
Concerns(msg, t) ==
  \/ msg.type = "NEWANCESTOR" /\ msg.from = t
  \/ msg.type \in {"ADOPTCHILDSET", "ADOPTFAILED"} /\ msg.parent = t
  \/ msg.type = "RELEASE" /\ msg.from = t /\ msg.answer
  \/ msg.type \in {"INHERITDONE", "INHERITFAILED", "RELEASERES"} /\ msg.to = t

Way == {x \in Node \X Node : x[1] # x[2]}

Outstanding(t) ==
  Cardinality(UNION {{<<x, i>> : i \in {j \in DOMAIN chan[x[1]][x[2]] :
                                      Concerns(chan[x[1]][x[2]][j], t)}} : x \in Way})

RECURSIVE Ancestors(_)
Ancestors(t) ==
  IF Parent[t] = None THEN {} ELSE {Parent[t]} \cup Ancestors(Parent[t])

\* The answer to a RELEASE is lost.
Unanswered(t) == task[t].pendingReleaseRes > Outstanding(t)

\* Where it may have been lost: msg_RELEASE() gives none if p has gone
\* (psidsignal.c 1296, 1344), or the node of p has gone down with it.
AnswerLost(t, p) ==
  \/ ~task[p].managed
  \/ ~Alive(Home[p]) /\ t \notin ToSet(task[p].childList)

\* pendingReleaseRes, which decides when a released task leaves its parent, is
\* answered and is forgotten, is the number of answers that are still to come,
\* along whichever of its ways: an adoption in two or three steps, a release
\* passed on to the grandparent or given back by RDP.  It is never smaller, and
\* larger only by that of an ancestor that has gone.
PendingCounted ==
  \A t \in Task : Managed(t) =>
    \/ task[t].pendingReleaseRes = Outstanding(t)
    \/ /\ task[t].pendingReleaseRes = Outstanding(t) + 1
       /\ task[t].releaseAnswer /\ task[t].parentReleased
       /\ \E p \in Ancestors(t) : AnswerLost(t, p)

\* Who asks for its release is answered once, however many RELEASERES and
\* INHERITDONE its psid has to collect first, but for the answer of an ancestor
\* that has gone.
AnsweredOnce ==
  \A t \in Task :
    /\ client[t].told <= 1
    /\ Quiet /\ client[t].asked /\ client[t].proc = "runs" =>
         client[t].told = 1 \/ Unanswered(t)

\* At rest a task whose process is gone is forgotten, unless for its children,
\* or for an answer that is lost: no order of the last RELEASERES, the last
\* CHILDDEAD, the end of file and the loss of a node misses the last call of
\* PSIDtask_cleanup().
Forgotten ==
  Quiet => \A t \in Task :
    Managed(t) /\ client[t].proc = "dead" =>
      task[t].childList # << >> \/ Unanswered(t)

\* The forwarder of a client c has reported its death before c's socket was
\* closed: c was still handed over to t, and its former parent, to whom the
\* report went, had gone by then.
ReportLost(t, c) ==
  /\ c \in Client /\ client[c].proc = "dead"
  /\ Parent[c] # t /\ ~Managed(Parent[c])

\* At rest the two ends of a relation agree, in whichever order a child is
\* born, adopted, released and reported dead: whom a psid holds for a child
\* exists and holds that task for its parent, unless the report of its death is
\* lost, and a process is in the list of its parent, once.
FamilyAgrees ==
  Quiet =>
    /\ \A t \in Task : Managed(t) => \A c \in ToSet(task[t].childList) :
         \/ Alive(Home[c]) /\ Managed(c) /\ task[c].ptid = t /\ ~task[c].released
         \/ ReportLost(t, c)
    /\ \A c \in Task : Running(c) /\ task[c].ptid # None =>
         LET p == task[c].ptid
         IN  Alive(Home[p]) => Len(SelectSeq(task[p].childList, LAMBDA u : u = c)) = 1

\* psidsignal.c:819: ADOPTFAILED marks the processes to be adopted as
\* orphaned, "For this, corresponding signals are sent to those processes".
\* Hence at rest a process that was to be passed on is in the list of its new
\* parent, or does not run on.
OrphansSignalled ==
  Quiet => \A c \in Task :
    Running(c) /\ task[c].ptid # Parent[c] =>
      c \in ToSet(task[task[c].ptid].childList)
=============================================================================
