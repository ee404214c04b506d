--------------------------- MODULE TrafficControl ---------------------------
(***************************************************************************)
(* The chaos commands that block, allow and partition the traffic of the   *)
(* containers of a Docker cluster, and those that pause and unpause them:  *)
(* BlockNodeTraffic, AllowNodeTraffic, PartitionNodeTraffic, PauseNode and *)
(* UnpauseNode of deployment/dockerdeploy/deployer.go, with                *)
(* SetTrafficControl of its controller, which flushes the iptables of one  *)
(* container and appends new rules one `iptables -A' at a time.  The first *)
(* rule of a chain that matches a packet decides; a packet that no rule    *)
(* matches is accepted.  Docker refuses to execute anything in a paused    *)
(* container, and to pause or unpause one that is so already.              *)
(***************************************************************************)
EXTENDS Naturals, Sequences

CONSTANTS
    Peer,       \* the Couchbase containers of the cluster
    Proxy,      \* its other containers: load balancers, the S3 mock
    Gateway,    \* the gateway of the Docker network
    Loopback,   \* 127.0.0.0/8
    Outside,    \* any address outside the Docker network
    MaxCommands \* bound on the commands that are run

Container == Peer \union Proxy
Source == Container \union {Gateway, Loopback, Outside}
Subnet == Container \union {Gateway}

ASSUME SourceAssumption ==
    /\ Peer \intersect Proxy = {}
    /\ {Gateway, Loopback, Outside} \intersect Container = {}
    /\ Gateway # Loopback /\ Gateway # Outside /\ Loopback # Outside
ASSUME CommandAssumption == MaxCommands \in Nat

Kind == {"tcp", "other"}
Packet == [from : Source, kind : Kind]

Rule == [chain : {"INPUT", "OUTPUT"}, from : SUBSET Source,
         kinds : SUBSET Kind, block : BOOLEAN]

\* "" and the other reject types differ in the answer only.
RejectType == {"plain", "tcp-reset"}

\* A command and, once the default is filled in, the containers it is for.
CommandType ==
    {"nodes", "clients", "all", "partition", "allow", "pause", "unpause"}
Command == [type : CommandType, nodes : SUBSET Container, reject : RejectType]

VARIABLES
    rules,      \* each container: the rules of both chains, in order
    paused,     \* the containers that are paused
    command,    \* the last command
    step,       \* where it is
    left,       \* the containers it has still to treat
    current,    \* those it is treating: one or none
    todo,       \* the rules it has still to append there
    flushed,    \* the containers it has flushed
    commands    \* how many commands have been started

vars == <<rules, paused, command, step, left, current, todo, flushed, commands>>

Init ==
    /\ rules = [c \in Container |-> <<>>] /\ paused = {}
    /\ command = [type |-> "allow", nodes |-> {}, reject |-> "plain"]
    /\ step = "ok"
    /\ left = {} /\ current = {} /\ todo = <<>> /\ flushed = {}
    /\ commands = 0

-----------------------------------------------------------------------------
(* The rules of SetTrafficControl.                                         *)

\* Mutant: the addresses of a list taken for one address.
AllowJoined(chain, from) ==
    <<[chain |-> chain, from |-> {from}, kinds |-> Kind, block |-> FALSE]>>

\* iptableAllow, iptableAllowAll
Allow(chain, from) ==
    <<[chain |-> chain, from |-> from, kinds |-> Kind, block |-> FALSE]>>

\* iptableBlock, iptableBlockAll: a TCP reset needs a rule of its own.
Block(chain, from, reject) ==
    (IF reject = "tcp-reset"
     THEN <<[chain |-> chain, from |-> from, kinds |-> {"tcp"}, block |-> TRUE]>>
     ELSE <<>>)
    \o <<[chain |-> chain, from |-> from, kinds |-> Kind, block |-> TRUE]>>

\* Mutant: the proxies forgotten.
IslandAllowedNodes(island) == island

\* islandAllowedIps: the nodes of the island and every proxy.
IslandAllowed(island) == island \union Proxy

\* The rules for one address each of extraAllowed, on both chains, are taken
\* together: they only accept, and come first.
ExtraRules(cmd) ==
    IF cmd.type = "partition"
    THEN Allow("INPUT", IslandAllowed(cmd.nodes)) \o Allow("OUTPUT", IslandAllowed(cmd.nodes))
    ELSE <<>>

\* Mutant: the gateway accepted only after its subnet is blocked.
BlockNodesRulesLateAccept(reject) ==
    Block("INPUT", Subnet, reject) \o Block("OUTPUT", Subnet, reject)
        \o Allow("INPUT", {Gateway}) \o Allow("OUTPUT", {Gateway})

BlockNodesRules(reject) ==
    Allow("INPUT", {Gateway}) \o Allow("OUTPUT", {Gateway})
        \o Block("INPUT", Subnet, reject) \o Block("OUTPUT", Subnet, reject)

\* Mutant: the gateway blocked only after its subnet is accepted.
BlockClientsRulesLateBlock(reject) ==
    Allow("INPUT", Subnet) \o Block("INPUT", {Gateway}, reject)
        \o Allow("INPUT", {Loopback}) \o Block("INPUT", Source, reject)

BlockClientsRules(reject) ==
    Block("INPUT", {Gateway}, reject)
        \o Allow("INPUT", Subnet) \o Allow("INPUT", {Loopback})
        \o Block("INPUT", Source, reject)

Plan(cmd) ==
    ExtraRules(cmd) \o Allow("OUTPUT", Source) \o
        (CASE cmd.type \in {"nodes", "partition"} -> BlockNodesRules(cmd.reject)
           [] cmd.type = "clients" -> BlockClientsRules(cmd.reject)
           [] cmd.type = "all" -> Block("INPUT", Source, cmd.reject)
           [] OTHER -> <<>>)

-----------------------------------------------------------------------------
(* The commands.                                                           *)

Idle == step \in {"ok", "failed"}

Start(cmd) ==
    /\ Idle /\ commands < MaxCommands
    /\ command' = cmd
    /\ step' = "next"
    /\ left' = cmd.nodes
    /\ current' = {} /\ todo' = <<>> /\ flushed' = {}
    /\ commands' = commands + 1
    /\ UNCHANGED <<rules, paused>>

\* No node given means all containers of the cluster, the proxies too.
BlockNodeTraffic ==
    \E type \in {"nodes", "clients", "all"}, given \in SUBSET Container,
       reject \in RejectType :
        Start([type |-> type, reject |-> reject,
               nodes |-> IF given = {} THEN Container ELSE given])

StartOnNodes(type) ==
    \E given \in SUBSET Container :
        Start([type |-> type, reject |-> "plain",
               nodes |-> IF given = {} THEN Container ELSE given])

AllowNodeTraffic == StartOnNodes("allow")
PauseNode == StartOnNodes("pause")
UnpauseNode == StartOnNodes("unpause")

\* The command line fills in half of the peers if no node is given.
PartitionNodeTraffic ==
    \E island \in SUBSET Container \ {{}}, reject \in RejectType :
        Start([type |-> "partition", nodes |-> island, reject |-> reject])

NextContainer ==
    /\ step = "next"
    /\ \E c \in left :
          /\ left' = left \ {c}
          /\ current' = {c}
    /\ step' = IF command.type \in {"allow", "pause", "unpause"}
               THEN command.type ELSE "flush"
    /\ UNCHANGED <<rules, paused, command, todo, flushed, commands>>

ContainerPause ==
    /\ step = "pause" /\ current \intersect paused = {}
    /\ paused' = paused \union current
    /\ step' = "next"
    /\ UNCHANGED <<rules, command, left, current, todo, flushed, commands>>

ContainerUnpause ==
    /\ step = "unpause" /\ current \subseteq paused
    /\ paused' = paused \ current
    /\ step' = "next"
    /\ UNCHANGED <<rules, command, left, current, todo, flushed, commands>>

\* `iptables -F', its error logged and dropped.
AllowAll ==
    /\ step = "allow"
    /\ \/ /\ current \intersect paused = {}
          /\ rules' = [c \in Container |-> IF c \in current THEN <<>> ELSE rules[c]]
          /\ flushed' = flushed \union current
       \/ UNCHANGED <<rules, flushed>>
    /\ step' = "next"
    /\ UNCHANGED <<paused, command, left, current, todo, commands>>

\* NetworkInspect, then `iptables -F', after installing iptables if need be.
Flush ==
    /\ step = "flush" /\ current \intersect paused = {}
    /\ rules' = [c \in Container |-> IF c \in current THEN <<>> ELSE rules[c]]
    /\ flushed' = flushed \union current
    /\ todo' = Plan(command)
    /\ step' = "add"
    /\ UNCHANGED <<paused, command, left, current, commands>>

AddRule ==
    /\ step = "add" /\ todo # <<>> /\ current \intersect paused = {}
    /\ rules' = [c \in Container |->
                    IF c \in current THEN Append(rules[c], Head(todo)) ELSE rules[c]]
    /\ todo' = Tail(todo)
    /\ UNCHANGED <<paused, command, step, left, current, flushed, commands>>

ContainerDone ==
    /\ step = "add" /\ todo = <<>>
    /\ step' = "next"
    /\ UNCHANGED <<rules, paused, command, left, current, todo, flushed, commands>>

\* A Docker call fails, or the process is killed: nothing is undone.
Fail ==
    /\ ~Idle
    /\ step' = "failed"
    /\ UNCHANGED <<rules, paused, command, left, current, todo, flushed, commands>>

Return ==
    /\ step = "next" /\ left = {}
    /\ step' = "ok"
    /\ UNCHANGED <<rules, paused, command, left, current, todo, flushed, commands>>

Next ==
    \/ BlockNodeTraffic \/ AllowNodeTraffic \/ PartitionNodeTraffic
    \/ PauseNode \/ UnpauseNode
    \/ NextContainer \/ ContainerPause \/ ContainerUnpause \/ AllowAll \/ Flush \/ AddRule \/ ContainerDone
    \/ Fail \/ Return

Spec == Init /\ [][Next]_vars

-----------------------------------------------------------------------------
(* What the rules do.                                                      *)

Matches(rule, chain, p) ==
    rule.chain = chain /\ p.from \in rule.from /\ p.kind \in rule.kinds

\* The first rule that matches the packet, if any, does not block it.
Passes(list, chain, p) ==
    \A i \in DOMAIN list :
        Matches(list[i], chain, p) /\ list[i].block =>
            \E j \in 1 .. (i - 1) : Matches(list[j], chain, p) /\ ~list[j].block

\* The packets a container takes in.
Passing(c) == {p \in Packet : Passes(rules[c], "INPUT", p)}

\* A packet of x to y, which x sends from its own address.
Arrives(x, y, kind) ==
    LET p == [from |-> x, kind |-> kind]
    IN  Passes(rules[x], "OUTPUT", p) /\ Passes(rules[y], "INPUT", p)

\* x and y can exchange packets of a kind: a connection needs both directions.
Talk(x, y, kind) == Arrives(x, y, kind) /\ Arrives(y, x, kind)

\* The sources a command means to leave to the containers it is for.
Spared(cmd) ==
    CASE cmd.type = "nodes" -> {Gateway, Loopback, Outside}
      [] cmd.type = "clients" -> Container \union {Loopback}
      [] cmd.type = "all" -> {}
      [] cmd.type = "partition" ->
            IslandAllowed(cmd.nodes) \union {Gateway, Loopback, Outside}
      [] OTHER -> Source

Blocking == {"nodes", "clients", "all", "partition"}

-----------------------------------------------------------------------------
(* Properties.                                                             *)

\* Every variable has its type.
TypeOK ==
    /\ rules \in [Container -> Seq(Rule)]
    /\ paused \in SUBSET Container
    /\ command \in Command
    /\ step \in {"ok", "failed", "next", "allow", "pause", "unpause", "flush", "add"}
    /\ left \in SUBSET Container
    /\ current \in SUBSET Container
    /\ todo \in Seq(Rule)
    /\ flushed \in SUBSET Container
    /\ commands \in 0 .. MaxCommands

\* From the flush on, after every single rule and also when the command fails
\* half way, a container keeps taking in what the command means to spare: the
\* order of the rules never cuts off the gateway, loopback or the island.
SparesThroughout ==
    \A c \in flushed : \A p \in Packet :
        p.from \in Spared(command) => p \in Passing(c)

\* A block or a partition that returns without an error lets the containers it
\* is for take in exactly what it means to spare.
BlockTakesEffect ==
    (step = "ok" /\ command.type \in Blocking) =>
        \A c \in command.nodes :
            Passing(c) = {p \in Packet : p.from \in Spared(command)}

\* After a partition that returns without an error, and leaves containers
\* without rules outside the island, two containers can talk if and only if
\* they are on the same side or one is a proxy outside the island.  The rules
\* on the island alone are enough to cut both directions of a conversation.
PartitionSeparates ==
    (/\ step = "ok" /\ command.type = "partition"
     /\ \A c \in Container \ command.nodes : rules[c] = <<>>) =>
        LET island == command.nodes
        IN  \A x, y \in Container : x # y =>
                IF \/ x \in island <=> y \in island
                   \/ x \in Proxy \ island \/ y \in Proxy \ island
                THEN \A kind \in Kind : Talk(x, y, kind)
                ELSE \A kind \in Kind : ~Talk(x, y, kind)
=============================================================================
