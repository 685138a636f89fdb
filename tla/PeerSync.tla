------------------------------ MODULE PeerSync ------------------------------
(***************************************************************************)
(* The peer-to-peer nodes of devnote-p2p.  A node hands commands to its    *)
(* event loop through one queue and gets its events back through another;  *)
(* it keeps its own view of which peers are connected.  The swarm (libp2p) *)
(* is external: dials succeed or not, peers may have several connections,  *)
(* and gossip reaches the connected subscribers of a topic or is lost.     *)
(***************************************************************************)
EXTENDS Integers, Sequences

CONSTANTS
    Peers,
    Payloads,
    MaxLinks,    \* bound: connections of a pair of peers
    MaxCommands, \* bound: commands given
    MaxEvents    \* bound: events that wait for a node

ASSUME PeersAssumption ==
    MaxLinks \in Nat /\ MaxCommands \in Nat /\ MaxEvents \in Nat

VARIABLES
    running,    \* what each node's owner was told
    looping,    \* the event loop of each node has not ended
    commands,   \* from each node to its loop
    events,     \* from each loop to its node
    view,       \* the peers each node shows as connected
    missed,     \* peers whose events poll_events took from process_events
    links,      \* the open connections of each pair
    received,   \* the payloads given to each node's callback
    given

peerVars ==
    <<running, looping, commands, events, view, missed, links, received, given>>

Pairs == {{p, q} : p, q \in Peers} \ {{p} : p \in Peers}

PeersInit ==
    /\ running = [p \in Peers |-> TRUE]
    /\ looping = [p \in Peers |-> TRUE]
    /\ commands = [p \in Peers |-> <<>>]
    /\ events = [p \in Peers |-> <<>>]
    /\ view = [p \in Peers |-> {}]
    /\ missed = [p \in Peers |-> {}]
    /\ links = [pair \in Pairs |-> 0]
    /\ received = [p \in Peers |-> {}]
    /\ given = 0

(* The node: every call needs a running node.  A command carries the number of
   the call that gave it: calls of the code are told apart by nothing. *)

\* Variant: a stopped node takes commands as well.
GiveAlways(p, command) ==
    /\ given < MaxCommands
    /\ commands' = [commands EXCEPT ![p] = Append(@, command)]
    /\ given' = given + 1
    /\ UNCHANGED <<looping, events, view, missed, links, received>>

Give(p, command) ==
    /\ running[p]
    /\ given < MaxCommands
    /\ commands' = [commands EXCEPT ![p] = Append(@, command)]
    /\ given' = given + 1
    /\ UNCHANGED <<looping, events, view, missed, links, received>>

StopNode(p) ==
    /\ Give(p, [kind |-> "stop", nr |-> given])
    /\ running' = [running EXCEPT ![p] = FALSE]

ConnectPeer(p) ==
    \E q \in Peers \ {p} :
        Give(p, [kind |-> "connect", nr |-> given, to |-> q]) /\ UNCHANGED running

\* Data for one peer goes to a topic of its own, which nobody subscribes to.
SendData(p) ==
    \E q \in Peers \ {p}, data \in Payloads :
        /\ Give(p, [kind |-> "publish", nr |-> given, topic |-> q, data |-> data])
        /\ UNCHANGED running

Sync == "devnote-sync"

Broadcast(p) ==
    \E data \in Payloads :
        /\ Give(p, [kind |-> "publish", nr |-> given, topic |-> Sync, data |-> data])
        /\ UNCHANGED running

(* The event loop. *)

Tell(told, kind, about, data) ==
    [p \in Peers |->
        IF p \in told /\ looping[p]
          THEN Append(events[p], [kind |-> kind, peer |-> about[p], data |-> data])
          ELSE events[p]]

Room(told) == \A p \in told : Len(events[p]) < MaxEvents

Other(pair) == [p \in pair |-> CHOOSE q \in pair : q # p]

Linked(p) == {q \in Peers \ {p} : links[{p, q}] > 0}

Dial(p, q) ==
    /\ looping[q]
    /\ links[{p, q}] < MaxLinks
    /\ Room({p, q})
    /\ links' = [links EXCEPT ![{p, q}] = @ + 1]
    /\ events' = Tell({p, q}, "connected", Other({p, q}), "none")

Publish(p, topic, data) ==
    \E reached \in SUBSET Linked(p) :
        /\ topic = Sync
        /\ Room(reached)
        /\ events' = Tell(reached, "data", [q \in Peers |-> p], data)
        /\ UNCHANGED links

\* Variant: a publication without subscribers is tried again, for ever.
TakeCommandAgain(p) ==
    LET command == Head(commands[p])
    IN  /\ looping[p]
        /\ commands[p] # <<>>
        /\ commands' = IF command.kind = "publish" THEN commands
                       ELSE [commands EXCEPT ![p] = Tail(@)]
        /\ looping' = [looping EXCEPT ![p] = command.kind # "stop"]
        /\ \/ command.kind = "connect" /\ Dial(p, command.to)
           \/ command.kind = "publish" /\ Publish(p, command.topic, command.data)
           \/ UNCHANGED <<events, links>>
        /\ UNCHANGED <<running, view, missed, received, given>>

\* A dial may fail, and a publication reach nobody; neither is reported.
TakeCommand(p) ==
    LET command == Head(commands[p])
    IN  /\ looping[p]
        /\ commands[p] # <<>>
        /\ commands' = [commands EXCEPT ![p] = Tail(@)]
        /\ looping' = [looping EXCEPT ![p] = command.kind # "stop"]
        /\ \/ command.kind = "connect" /\ Dial(p, command.to)
           \/ command.kind = "publish" /\ Publish(p, command.topic, command.data)
           \/ UNCHANGED <<events, links>>
        /\ UNCHANGED <<running, view, missed, received, given>>

\* Variant: both ends close the connection.
CloseConnectionTwice(pair) ==
    /\ links[pair] > 0
    /\ Room(pair)
    /\ links' = [links EXCEPT ![pair] = @ - 2]
    /\ events' = Tell(pair, "disconnected", Other(pair), "none")
    /\ UNCHANGED <<running, looping, commands, view, missed, received, given>>

\* A connection closes: an end stopped, was idle too long, or the network failed.
CloseConnection(pair) ==
    /\ links[pair] > 0
    /\ Room(pair)
    /\ links' = [links EXCEPT ![pair] = @ - 1]
    /\ events' = Tell(pair, "disconnected", Other(pair), "none")
    /\ UNCHANGED <<running, looping, commands, view, missed, received, given>>

(* The owner reads the events: all that are there, or one. *)

\* Variant: connections are added after the closed ones were taken off.
ProcessEventsByKind(p) ==
    LET Told(kind) == {events[p][i].peer :
                         i \in {j \in DOMAIN events[p] : events[p][j].kind = kind}}
    IN  /\ events[p] # <<>>
        /\ view' = [view EXCEPT ![p] =
              (@ \ Told("disconnected")) \cup Told("connected")]
        /\ events' = [events EXCEPT ![p] = <<>>]
        /\ UNCHANGED <<running, looping, commands, missed, links, received, given>>

About(waiting, q) ==
    {i \in DOMAIN waiting : waiting[i].kind # "data" /\ waiting[i].peer = q}

\* Read in order, the last event about a peer decides whether it is shown.
Shows(waiting, shown, q) ==
    IF About(waiting, q) = {} THEN q \in shown
    ELSE \E i \in About(waiting, q) :
            /\ waiting[i].kind = "connected"
            /\ \A j \in About(waiting, q) : j <= i

ProcessEvents(p) ==
    LET data == {events[p][i] : i \in {j \in DOMAIN events[p] :
                                         events[p][j].kind = "data"}}
    IN  /\ events[p] # <<>>
        /\ view' = [view EXCEPT ![p] =
              {q \in Peers : Shows(events[p], view[p], q)}]
        /\ received' = [received EXCEPT ![p] = @ \cup
              {<<e.peer, e.data>> : e \in data}]
        /\ events' = [events EXCEPT ![p] = <<>>]
        /\ UNCHANGED <<running, looping, commands, missed, links, given>>

PollEvents(p) ==
    /\ events[p] # <<>>
    /\ events' = [events EXCEPT ![p] = Tail(@)]
    /\ missed' = [missed EXCEPT ![p] = @ \cup {Head(events[p]).peer}]
    /\ UNCHANGED <<running, looping, commands, view, links, received, given>>

PeersNext ==
    \/ \E p \in Peers :
          \/ StopNode(p) \/ ConnectPeer(p) \/ SendData(p) \/ Broadcast(p)
          \/ TakeCommand(p) \/ ProcessEvents(p) \/ PollEvents(p)
    \/ \E pair \in Pairs : CloseConnection(pair)

\* tokio::select! picks at random among what is ready: a loop to which the swarm
\* always has something to report still comes to a command that waits.
PeersFairness == \A p \in Peers : WF_peerVars(TakeCommand(p))

PeersSpec == PeersInit /\ [][PeersNext]_peerVars /\ PeersFairness

-----------------------------------------------------------------------------
\* Queues, views and links have their types.
PeersTypeOK ==
    /\ running \in [Peers -> BOOLEAN] /\ looping \in [Peers -> BOOLEAN]
    /\ view \in [Peers -> SUBSET Peers]
    /\ links \in [Pairs -> 0..MaxLinks]
    /\ given \in 0..MaxCommands

\* Stop is the last command a loop is ever given, and nothing is left behind it
\* that its caller was told would be sent.
StopIsLast ==
    \A p \in Peers :
        /\ ~looping[p] => ~running[p] /\ commands[p] = <<>>
        /\ \A i \in DOMAIN commands[p] :
              commands[p][i].kind = "stop" => i = Len(commands[p]) /\ ~running[p]

\* A node that has processed all its events shows no peer as connected to which
\* there is no connection any more.
ShownIsLinked ==
    \A p \in Peers :
        looping[p] /\ events[p] = <<>> =>
            view[p] \ missed[p] \subseteq Linked(p)

\* A command that was accepted is carried out, whether its node runs on, takes
\* further commands or was told to stop: no call that returned Ok stays in the
\* queue for ever, behind a stop or behind a command that cannot succeed.
Waits(p, n) == \E i \in DOMAIN commands[p] : commands[p][i].nr = n

CommandsTaken ==
    \A p \in Peers, n \in 0..(MaxCommands - 1) : Waits(p, n) ~> ~Waits(p, n)
=============================================================================
