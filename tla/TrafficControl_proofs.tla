------------------------ MODULE TrafficControl_proofs ------------------------
(***************************************************************************)
(* Proofs about TrafficControl, for every set of containers and any number *)
(* of commands.  Two facts carry them: a first-match list of rules that    *)
(* lets a packet pass still does so when it is cut short, and at any time  *)
(* the rules of a flushed container, followed by those still to append,    *)
(* are the plan of the command.                                            *)
(***************************************************************************)
EXTENDS TrafficControl, SequenceTheorems, TLAPS

-----------------------------------------------------------------------------
(* Lists of rules.                                                         *)

\* Some rule of the list accepts the packet, whatever comes before it.
Accepts(list, chain, p) ==
    \E j \in 1 .. Len(list) : Matches(list[j], chain, p) /\ ~list[j].block

\* A list blocks or accepts as its parts do: what the first part accepts, the
\* second cannot block.
LEMMA PassesConcat ==
    ASSUME NEW s \in Seq(Rule), NEW t \in Seq(Rule), NEW chain, NEW p
    PROVE  /\ s \o t \in Seq(Rule)
           /\ Accepts(s \o t, chain, p) <=>
                Accepts(s, chain, p) \/ Accepts(t, chain, p)
           /\ Passes(s \o t, chain, p) <=>
                Passes(s, chain, p) /\ (Accepts(s, chain, p) \/ Passes(t, chain, p))
<1> DEFINE u == s \o t
           Hit(r) == Matches(r, chain, p) /\ ~r.block
           Stop(r) == Matches(r, chain, p) /\ r.block
<1>1. /\ u \in Seq(Rule) /\ Len(u) = Len(s) + Len(t)
      /\ \A i \in 1 .. Len(s) + Len(t) :
            u[i] = IF i <= Len(s) THEN s[i] ELSE t[i - Len(s)]
  BY ConcatProperties
<1>2. Len(s) \in Nat /\ Len(t) \in Nat
  BY LenProperties
<1>3. \A i \in 1 .. Len(s) : i \in 1 .. Len(u) /\ u[i] = s[i]
  BY <1>1, <1>2
<1>4. \A i \in 1 .. Len(t) : i + Len(s) \in 1 .. Len(u) /\ u[i + Len(s)] = t[i]
  BY <1>1, <1>2
<1>5. \A i \in 1 .. Len(u) :
         \/ i \in 1 .. Len(s)
         \/ i - Len(s) \in 1 .. Len(t) /\ u[i] = t[i - Len(s)]
  BY <1>1, <1>2
<1> HIDE DEF u, Hit, Stop
<1>6. (\E j \in 1 .. Len(u) : Hit(u[j])) <=>
         (\E j \in 1 .. Len(s) : Hit(s[j])) \/ (\E j \in 1 .. Len(t) : Hit(t[j]))
  BY <1>3, <1>4, <1>5
<1>7. DOMAIN u = 1 .. Len(u) /\ DOMAIN s = 1 .. Len(s) /\ DOMAIN t = 1 .. Len(t)
  BY <1>1, LenProperties
<1>8. ASSUME \A i \in 1 .. Len(u) : Stop(u[i]) => \E j \in 1 .. (i - 1) : Hit(u[j])
      PROVE  \A i \in 1 .. Len(s) : Stop(s[i]) => \E j \in 1 .. (i - 1) : Hit(s[j])
  <2> TAKE i \in 1 .. Len(s)
  <2> HAVE Stop(s[i])
  <2>1. PICK j \in 1 .. (i - 1) : Hit(u[j])
    BY <1>3, <1>8
  <2>2. j \in 1 .. Len(s)
    BY <1>2
  <2> QED
    BY <2>1, <2>2, <1>3
<1>9. ASSUME \A i \in 1 .. Len(u) : Stop(u[i]) => \E j \in 1 .. (i - 1) : Hit(u[j]),
             ~ \E j \in 1 .. Len(s) : Hit(s[j])
      PROVE  \A i \in 1 .. Len(t) : Stop(t[i]) => \E j \in 1 .. (i - 1) : Hit(t[j])
  <2> TAKE i \in 1 .. Len(t)
  <2> HAVE Stop(t[i])
  <2>1. PICK j \in 1 .. (i + Len(s) - 1) : Hit(u[j])
    BY <1>4, <1>9
  <2>2. j \in 1 .. Len(u)
    BY <1>1, <1>2
  <2>3. j \notin 1 .. Len(s)
    BY <1>3, <1>9, <2>1
  <2>4. j - Len(s) \in 1 .. (i - 1) /\ Hit(t[j - Len(s)])
    BY <1>2, <1>5, <2>1, <2>2, <2>3
  <2> QED
    BY <2>4
<1>10. ASSUME \A i \in 1 .. Len(s) : Stop(s[i]) => \E j \in 1 .. (i - 1) : Hit(s[j]),
              \/ \E j \in 1 .. Len(s) : Hit(s[j])
              \/ \A i \in 1 .. Len(t) : Stop(t[i]) => \E j \in 1 .. (i - 1) : Hit(t[j])
       PROVE  \A i \in 1 .. Len(u) : Stop(u[i]) => \E j \in 1 .. (i - 1) : Hit(u[j])
  <2> TAKE i \in 1 .. Len(u)
  <2> HAVE Stop(u[i])
  <2>1. CASE i \in 1 .. Len(s)
    <3>1. PICK j \in 1 .. (i - 1) : Hit(s[j])
      BY <1>3, <1>10, <2>1
    <3>2. j \in 1 .. Len(s)
      BY <1>2, <2>1
    <3> QED
      BY <3>1, <3>2, <1>3
  <2>2. CASE i \notin 1 .. Len(s)
    <3>1. i - Len(s) \in 1 .. Len(t) /\ Stop(t[i - Len(s)])
      BY <1>5, <2>2
    <3>2. CASE \E j \in 1 .. Len(s) : Hit(s[j])
      <4>1. PICK j \in 1 .. Len(s) : Hit(s[j])
        BY <3>2
      <4>2. j \in 1 .. (i - 1)
        BY <1>1, <1>2, <2>2
      <4> QED
        BY <4>1, <4>2, <1>3
    <3>3. CASE ~ \E j \in 1 .. Len(s) : Hit(s[j])
      <4>1. PICK j \in 1 .. (i - Len(s) - 1) : Hit(t[j])
        BY <1>10, <3>1, <3>3
      <4>2. j \in 1 .. Len(t) /\ j + Len(s) \in 1 .. (i - 1)
        BY <1>2, <3>1
      <4> QED
        BY <4>1, <4>2, <1>4
    <3> QED
      BY <3>2, <3>3
  <2> QED
    BY <2>1, <2>2
<1>11. u \in Seq(Rule) /\ (Accepts(u, chain, p) <=>
                Accepts(s, chain, p) \/ Accepts(t, chain, p))
  BY <1>1, <1>6 DEF Accepts, Hit
<1>12. Passes(u, chain, p) <=>
                Passes(s, chain, p) /\ (Accepts(s, chain, p) \/ Passes(t, chain, p))
  BY <1>7, <1>8, <1>9, <1>10 DEF Passes, Accepts, Hit, Stop
<1> QED
  BY <1>11, <1>12 DEF u

\* What a rule may match.
AddressSet == SUBSET Source

\* What the helpers of the controller append, taken alone.
LEMMA AllowRules ==
    ASSUME NEW chain \in {"INPUT", "OUTPUT"}, NEW from \in AddressSet,
           NEW on \in {"INPUT", "OUTPUT"}, NEW p \in Packet
    PROVE  /\ Allow(chain, from) \in Seq(Rule)
           /\ Passes(Allow(chain, from), on, p)
           /\ Accepts(Allow(chain, from), on, p) <=> chain = on /\ p.from \in from
<1> DEFINE r == [chain |-> chain, from |-> from, kinds |-> Kind, block |-> FALSE]
<1>1. r \in Rule
  BY DEF Rule, AddressSet
<1>2. Allow(chain, from) = <<r>>
  BY DEF Allow
<1>3. p.kind \in Kind
  BY DEF Packet
<1> QED
  BY <1>1, <1>2, <1>3 DEF Passes, Accepts, Matches

LEMMA BlockRules ==
    ASSUME NEW chain \in {"INPUT", "OUTPUT"}, NEW from \in AddressSet, NEW reject \in RejectType,
           NEW on \in {"INPUT", "OUTPUT"}, NEW p \in Packet
    PROVE  /\ Block(chain, from, reject) \in Seq(Rule)
           /\ Passes(Block(chain, from, reject), on, p) <=>
                ~(chain = on /\ p.from \in from)
           /\ ~Accepts(Block(chain, from, reject), on, p)
<1> DEFINE a == <<[chain |-> chain, from |-> from, kinds |-> {"tcp"}, block |-> TRUE]>>
           b == <<[chain |-> chain, from |-> from, kinds |-> Kind, block |-> TRUE]>>
<1>1. /\ a \in Seq(Rule) /\ ~Accepts(a, on, p)
      /\ Passes(a, on, p) <=> ~(chain = on /\ p.from \in from /\ p.kind \in {"tcp"})
  <2>1. [chain |-> chain, from |-> from, kinds |-> {"tcp"}, block |-> TRUE] \in Rule
    BY DEF Rule, AddressSet, Kind
  <2> QED
    BY <2>1 DEF Passes, Accepts, Matches
<1>2. /\ b \in Seq(Rule) /\ ~Accepts(b, on, p)
      /\ Passes(b, on, p) <=> ~(chain = on /\ p.from \in from)
  <2>1. [chain |-> chain, from |-> from, kinds |-> Kind, block |-> TRUE] \in Rule
    BY DEF Rule, AddressSet
  <2>2. p.kind \in Kind
    BY DEF Packet
  <2> QED
    BY <2>1, <2>2 DEF Passes, Accepts, Matches
<1> HIDE DEF a, b
<1>3. CASE reject = "tcp-reset"
  <2>1. Block(chain, from, reject) = a \o b
    BY <1>3 DEF Block, a, b
  <2> QED
    BY <1>1, <1>2, <2>1, PassesConcat
<1>4. CASE reject # "tcp-reset"
  <2>1. Block(chain, from, reject) = <<>> \o b
    BY <1>4 DEF Block, b
  <2>2. <<>> \o b = b
    BY <1>2, ConcatEmptySeq
  <2> QED
    BY <1>2, <2>1, <2>2
<1> QED
  BY <1>3, <1>4
-----------------------------------------------------------------------------
(* The plans of SetTrafficControl.                                         *)

LEMMA SourceSets ==
    /\ Gateway \in Source /\ Loopback \in Source /\ Outside \in Source
    /\ Container \subseteq Source /\ Subnet \subseteq Source
    /\ {Gateway} \in AddressSet /\ {Loopback} \in AddressSet
    /\ Subnet \in AddressSet /\ Source \in AddressSet
  BY DEF Source, Subnet, AddressSet

LEMMA ExtraRulesFacts ==
    ASSUME NEW cmd \in Command,
           NEW on \in {"INPUT", "OUTPUT"}, NEW p \in Packet
    PROVE  /\ ExtraRules(cmd) \in Seq(Rule)
           /\ Passes(ExtraRules(cmd), on, p)
           /\ Accepts(ExtraRules(cmd), on, p) <=>
                cmd.type = "partition" /\ p.from \in IslandAllowed(cmd.nodes)
<1>1. CASE cmd.type = "partition"
  <2> DEFINE is == IslandAllowed(cmd.nodes)
  <2>1. is \in AddressSet
    BY DEF AddressSet, IslandAllowed, Command, Container, Source
  <2> HIDE DEF is
  <2>2. ExtraRules(cmd) = Allow("INPUT", is) \o Allow("OUTPUT", is)
    BY <1>1 DEF ExtraRules, is
  <2>3. /\ Allow("INPUT", is) \in Seq(Rule) /\ Passes(Allow("INPUT", is), on, p)
        /\ Accepts(Allow("INPUT", is), on, p) <=> "INPUT" = on /\ p.from \in is
    BY <2>1, AllowRules
  <2>4. /\ Allow("OUTPUT", is) \in Seq(Rule) /\ Passes(Allow("OUTPUT", is), on, p)
        /\ Accepts(Allow("OUTPUT", is), on, p) <=> "OUTPUT" = on /\ p.from \in is
    BY <2>1, AllowRules
  <2>5. /\ ExtraRules(cmd) \in Seq(Rule) /\ Passes(ExtraRules(cmd), on, p)
        /\ Accepts(ExtraRules(cmd), on, p) <=> p.from \in is
    BY <2>2, <2>3, <2>4, PassesConcat
  <2> QED
    BY <1>1, <2>5 DEF is
<1>2. CASE cmd.type # "partition"
  <2>1. ExtraRules(cmd) = <<>>
    BY <1>2 DEF ExtraRules
  <2>2. <<>> \in Seq(Rule) /\ Passes(<<>>, on, p) /\ ~Accepts(<<>>, on, p)
    BY DEF Passes, Accepts
  <2> QED
    BY <1>2, <2>1, <2>2
<1> QED
  BY <1>1, <1>2

LEMMA BlockNodesFacts ==
    ASSUME NEW reject \in RejectType, NEW on \in {"INPUT", "OUTPUT"}, NEW p \in Packet
    PROVE  /\ BlockNodesRules(reject) \in Seq(Rule)
           /\ on = "INPUT" =>
                (Passes(BlockNodesRules(reject), on, p) <=>
                    p.from \notin Subnet \ {Gateway})
<1> DEFINE a == Allow("INPUT", {Gateway})
           b == Allow("OUTPUT", {Gateway})
           c == Block("INPUT", Subnet, reject)
           d == Block("OUTPUT", Subnet, reject)
<1>1. /\ a \in Seq(Rule) /\ Passes(a, on, p)
      /\ Accepts(a, on, p) <=> "INPUT" = on /\ p.from \in {Gateway}
  BY AllowRules, SourceSets
<1>2. /\ b \in Seq(Rule) /\ Passes(b, on, p)
      /\ Accepts(b, on, p) <=> "OUTPUT" = on /\ p.from \in {Gateway}
  BY AllowRules, SourceSets
<1>3. /\ c \in Seq(Rule) /\ ~Accepts(c, on, p)
      /\ Passes(c, on, p) <=> ~("INPUT" = on /\ p.from \in Subnet)
  BY BlockRules, SourceSets
<1>4. /\ d \in Seq(Rule)
      /\ Passes(d, on, p) <=> ~("OUTPUT" = on /\ p.from \in Subnet)
  BY BlockRules, SourceSets
<1>5. BlockNodesRules(reject) = ((a \o b) \o c) \o d
  BY DEF BlockNodesRules
<1> HIDE DEF a, b, c, d
<1>6. /\ a \o b \in Seq(Rule) /\ Passes(a \o b, on, p)
      /\ Accepts(a \o b, on, p) <=> p.from \in {Gateway}
  BY <1>1, <1>2, PassesConcat
<1>7. /\ (a \o b) \o c \in Seq(Rule)
      /\ Accepts((a \o b) \o c, on, p) <=> p.from \in {Gateway}
      /\ Passes((a \o b) \o c, on, p) <=>
            p.from \in {Gateway} \/ ~("INPUT" = on /\ p.from \in Subnet)
  BY <1>3, <1>6, PassesConcat
<1>8. /\ ((a \o b) \o c) \o d \in Seq(Rule)
      /\ Passes(((a \o b) \o c) \o d, on, p) <=>
            /\ p.from \in {Gateway} \/ ~("INPUT" = on /\ p.from \in Subnet)
            /\ p.from \in {Gateway} \/ ~("OUTPUT" = on /\ p.from \in Subnet)
  BY <1>4, <1>7, PassesConcat
<1> QED
  BY <1>5, <1>8

LEMMA BlockClientsFacts ==
    ASSUME NEW reject \in RejectType, NEW on \in {"INPUT", "OUTPUT"}, NEW p \in Packet
    PROVE  /\ BlockClientsRules(reject) \in Seq(Rule)
           /\ on = "INPUT" =>
                (Passes(BlockClientsRules(reject), on, p) <=>
                    p.from \in Container \union {Loopback})
<1> DEFINE a == Block("INPUT", {Gateway}, reject)
           b == Allow("INPUT", Subnet)
           c == Allow("INPUT", {Loopback})
           d == Block("INPUT", Source, reject)
<1>1. /\ a \in Seq(Rule) /\ ~Accepts(a, on, p)
      /\ Passes(a, on, p) <=> ~("INPUT" = on /\ p.from \in {Gateway})
  BY BlockRules, SourceSets
<1>2. /\ b \in Seq(Rule) /\ Passes(b, on, p)
      /\ Accepts(b, on, p) <=> "INPUT" = on /\ p.from \in Subnet
  BY AllowRules, SourceSets
<1>3. /\ c \in Seq(Rule) /\ Passes(c, on, p)
      /\ Accepts(c, on, p) <=> "INPUT" = on /\ p.from \in {Loopback}
  BY AllowRules, SourceSets
<1>4. /\ d \in Seq(Rule)
      /\ Passes(d, on, p) <=> ~("INPUT" = on /\ p.from \in Source)
  BY BlockRules, SourceSets
<1>5. BlockClientsRules(reject) = ((a \o b) \o c) \o d
  BY DEF BlockClientsRules
<1> HIDE DEF a, b, c, d
<1>6. /\ a \o b \in Seq(Rule)
      /\ Passes(a \o b, on, p) <=> ~("INPUT" = on /\ p.from \in {Gateway})
      /\ Accepts(a \o b, on, p) <=> "INPUT" = on /\ p.from \in Subnet
  BY <1>1, <1>2, PassesConcat
<1>7. /\ (a \o b) \o c \in Seq(Rule)
      /\ Passes((a \o b) \o c, on, p) <=> ~("INPUT" = on /\ p.from \in {Gateway})
      /\ Accepts((a \o b) \o c, on, p) <=>
            "INPUT" = on /\ p.from \in Subnet \union {Loopback}
  BY <1>3, <1>6, PassesConcat
<1>8. /\ ((a \o b) \o c) \o d \in Seq(Rule)
      /\ Passes(((a \o b) \o c) \o d, on, p) <=>
            /\ ~("INPUT" = on /\ p.from \in {Gateway})
            /\ \/ "INPUT" = on /\ p.from \in Subnet \union {Loopback}
               \/ ~("INPUT" = on /\ p.from \in Source)
  BY <1>4, <1>7, PassesConcat
<1>9. p.from \in Source
  BY DEF Packet
<1> QED
  BY <1>5, <1>8, <1>9, SourceAssumption DEF Subnet, Container, Source

\* The whole plan of a blocking command takes in exactly what it spares, and
\* never keeps the container from sending.
LEMMA PlanFacts ==
    ASSUME NEW cmd \in Command, cmd.type \in Blocking
    PROVE  /\ Plan(cmd) \in Seq(Rule)
           /\ \A p \in Packet :
                /\ Passes(Plan(cmd), "INPUT", p) <=> p.from \in Spared(cmd)
                /\ Passes(Plan(cmd), "OUTPUT", p)
<1> DEFINE Last == CASE cmd.type \in {"nodes", "partition"} -> BlockNodesRules(cmd.reject)
                     [] cmd.type = "clients" -> BlockClientsRules(cmd.reject)
                     [] cmd.type = "all" -> Block("INPUT", Source, cmd.reject)
                     [] OTHER -> <<>>
           open == ExtraRules(cmd) \o Allow("OUTPUT", Source)
<1>1. ASSUME NEW p \in Packet
      PROVE  /\ open \in Seq(Rule)
             /\ \A on \in {"INPUT", "OUTPUT"} : Passes(open, on, p)
             /\ Accepts(open, "OUTPUT", p)
             /\ Accepts(open, "INPUT", p) <=>
                    cmd.type = "partition" /\ p.from \in IslandAllowed(cmd.nodes)
  <2>1. p.from \in Source
    BY DEF Packet
  <2>2. ASSUME NEW on \in {"INPUT", "OUTPUT"}
        PROVE  /\ Allow("OUTPUT", Source) \in Seq(Rule)
               /\ Passes(Allow("OUTPUT", Source), on, p)
               /\ Accepts(Allow("OUTPUT", Source), on, p) <=> on = "OUTPUT"
    BY <2>1, AllowRules, SourceSets
  <2>3. ASSUME NEW on \in {"INPUT", "OUTPUT"}
        PROVE  /\ ExtraRules(cmd) \in Seq(Rule) /\ Passes(ExtraRules(cmd), on, p)
               /\ Accepts(ExtraRules(cmd), on, p) <=>
                    cmd.type = "partition" /\ p.from \in IslandAllowed(cmd.nodes)
    BY ExtraRulesFacts
  <2> QED
    BY <2>2, <2>3, PassesConcat
<1>2. ASSUME NEW p \in Packet
      PROVE  /\ Last \in Seq(Rule)
             /\ Passes(Last, "INPUT", p) <=>
                    IF cmd.type \in {"nodes", "partition"} THEN p.from \notin Subnet \ {Gateway}
                    ELSE IF cmd.type = "clients" THEN p.from \in Container \union {Loopback}
                    ELSE FALSE
  <2>0. cmd.reject \in RejectType
    BY DEF Command
  <2>1. CASE cmd.type \in {"nodes", "partition"}
    BY <2>0, <2>1, BlockNodesFacts
  <2>2. CASE cmd.type = "clients"
    BY <2>0, <2>2, BlockClientsFacts
  <2>3. CASE cmd.type = "all"
    <3>1. p.from \in Source
      BY DEF Packet
    <3>2. Last = Block("INPUT", Source, cmd.reject)
      BY <2>3
    <3> QED
      BY <2>0, <2>3, <3>1, <3>2, BlockRules, SourceSets
  <2> QED
    BY <2>1, <2>2, <2>3 DEF Blocking
<1>3. Plan(cmd) = open \o Last
  BY DEF Plan
<1> HIDE DEF open, Last
<1>4. ASSUME NEW p \in Packet
      PROVE  /\ Plan(cmd) \in Seq(Rule)
             /\ Passes(Plan(cmd), "INPUT", p) <=> p.from \in Spared(cmd)
             /\ Passes(Plan(cmd), "OUTPUT", p)
  <2>1. /\ open \o Last \in Seq(Rule)
        /\ Passes(open \o Last, "OUTPUT", p)
        /\ Passes(open \o Last, "INPUT", p) <=>
              \/ cmd.type = "partition" /\ p.from \in IslandAllowed(cmd.nodes)
              \/ IF cmd.type \in {"nodes", "partition"} THEN p.from \notin Subnet \ {Gateway}
                 ELSE IF cmd.type = "clients" THEN p.from \in Container \union {Loopback}
                 ELSE FALSE
    BY <1>1, <1>2, PassesConcat
  <2>2. p.from \in Source
    BY DEF Packet
  <2>3. p.from \notin Subnet \ {Gateway} <=> p.from \in {Gateway, Loopback, Outside}
    BY <2>2, SourceAssumption DEF Subnet, Source
  <2>4. CASE cmd.type = "nodes"
    BY <2>1, <2>3, <2>4, <1>3 DEF Spared
  <2>5. CASE cmd.type = "clients"
    BY <2>1, <2>5, <1>3 DEF Spared
  <2>6. CASE cmd.type = "all"
    BY <2>1, <2>6, <1>3 DEF Spared
  <2>7. CASE cmd.type = "partition"
    BY <2>1, <2>3, <2>7, <1>3 DEF Spared
  <2> QED
    BY <2>4, <2>5, <2>6, <2>7 DEF Blocking
<1>5. [from |-> Gateway, kind |-> "tcp"] \in Packet
  BY SourceSets DEF Packet, Kind
<1> QED
  BY <1>4, <1>5
-----------------------------------------------------------------------------
(* The inductive invariant.                                                *)

\* What a container that the command has treated is to hold.
Planned == IF command.type \in Blocking THEN Plan(command) ELSE <<>>

\* The steps a command goes through are those of its type.
StepInv ==
    /\ step \in {"flush", "add"} => command.type \in Blocking
    /\ step \in {"allow", "pause", "unpause"} => command.type = step

\* No container of a block is forgotten.
CoverInv ==
    command.type \in Blocking =>
        /\ step \in {"next", "add"} => command.nodes = left \union flushed
        /\ step = "flush" => command.nodes = left \union current \union flushed
        /\ step = "ok" => command.nodes \subseteq flushed

\* A flushed container holds its plan, or a beginning of it.
RulesInv ==
    \A c \in flushed :
        IF step = "failed" THEN \E t \in Seq(Rule) : rules[c] \o t = Planned
        ELSE IF step = "add" /\ c \in current THEN rules[c] \o todo = Planned
        ELSE rules[c] = Planned

IndInv == TypeOK /\ StepInv /\ CoverInv /\ RulesInv

LEMMA PlannedIsList ==
    ASSUME command \in Command PROVE Planned \in Seq(Rule)
  BY PlanFacts DEF Planned

\* A rule moved from the front of todo to the end of the rules changes nothing
\* of the whole.
LEMMA MoveRule ==
    ASSUME NEW s \in Seq(Rule), NEW t \in Seq(Rule), t # <<>>
    PROVE  /\ Append(s, Head(t)) \in Seq(Rule) /\ Tail(t) \in Seq(Rule)
           /\ Append(s, Head(t)) \o Tail(t) = s \o t
<1>1. Head(t) \in Rule /\ Tail(t) \in Seq(Rule) /\ <<Head(t)>> \in Seq(Rule)
  BY HeadTailProperties
<1>2. Append(s, Head(t)) = s \o <<Head(t)>> /\ Append(s, Head(t)) \in Seq(Rule)
  BY <1>1, AppendIsConcat, AppendProperties
<1>3. <<Head(t)>> \o Tail(t) = t
  BY <1>1, HeadTailProperties, SeqEqual, ConcatProperties
<1>4. (s \o <<Head(t)>>) \o Tail(t) = s \o (<<Head(t)>> \o Tail(t))
  BY <1>1, ConcatAssociative
<1> QED
  BY <1>1, <1>2, <1>3, <1>4

LEMMA InitInd == Init => IndInv
<1> SUFFICES ASSUME Init PROVE IndInv
  OBVIOUS
<1>1. TypeOK
  <2>1. <<>> \in Seq(Rule)
    OBVIOUS
  <2> QED
    BY <2>1, CommandAssumption
    DEF Init, TypeOK, Command, CommandType, RejectType
<1>2. StepInv /\ CoverInv /\ RulesInv
  BY DEF Init, StepInv, CoverInv, RulesInv, Blocking
<1> QED
  BY <1>1, <1>2 DEF IndInv

\* A new command has treated nothing yet.
LEMMA StartInd ==
    ASSUME IndInv, NEW cmd \in Command, Start(cmd)
    PROVE  IndInv'
<1>1. TypeOK'
  <2>1. commands' \in 0 .. MaxCommands
    BY CommandAssumption DEF IndInv, TypeOK, Start
  <2>2. <<>> \in Seq(Rule)
    OBVIOUS
  <2> QED
    BY <2>1, <2>2 DEF IndInv, TypeOK, Start, Command
<1>2. (StepInv /\ CoverInv /\ RulesInv)'
  BY DEF Start, StepInv, CoverInv, RulesInv
<1> QED
  BY <1>1, <1>2 DEF IndInv

LEMMA NextContainerInd ==
    ASSUME IndInv, NextContainer PROVE IndInv'
<1> USE DEF IndInv
<1>1. TypeOK'
  BY DEF TypeOK, NextContainer, Command, CommandType
<1>2. StepInv'
  BY DEF TypeOK, StepInv, NextContainer, Command, CommandType, Blocking
<1>3. CoverInv'
  BY DEF TypeOK, CoverInv, NextContainer, Command, CommandType, Blocking
<1>4. Planned' = Planned
  BY DEF NextContainer, Planned
<1>5. step = "next" /\ step' \notin {"failed", "add"} /\ UNCHANGED <<rules, flushed>>
  BY DEF TypeOK, NextContainer
<1>6. RulesInv'
  BY <1>4, <1>5 DEF RulesInv
<1> QED
  BY <1>1, <1>2, <1>3, <1>6

LEMMA PauseInd ==
    ASSUME IndInv, ContainerPause \/ ContainerUnpause PROVE IndInv'
<1> USE DEF IndInv, ContainerPause, ContainerUnpause
<1>1. TypeOK'
  BY DEF TypeOK
<1>2. StepInv' /\ CoverInv'
  BY DEF StepInv, CoverInv, Blocking
<1>3. Planned' = Planned
  BY DEF Planned
<1>4. RulesInv'
  BY <1>3 DEF RulesInv
<1> QED
  BY <1>1, <1>2, <1>4

LEMMA AllowAllInd ==
    ASSUME IndInv, AllowAll PROVE IndInv'
<1> USE DEF IndInv
<1>1. TypeOK'
  <2>1. <<>> \in Seq(Rule)
    OBVIOUS
  <2> QED
    BY <2>1 DEF TypeOK, AllowAll
<1>2. StepInv' /\ CoverInv'
  BY DEF StepInv, CoverInv, AllowAll, Blocking
<1>3. Planned = <<>> /\ Planned' = <<>>
  BY DEF Planned, AllowAll, StepInv, Blocking
<1>4. RulesInv'
  BY <1>3 DEF RulesInv, AllowAll, TypeOK
<1> QED
  BY <1>1, <1>2, <1>4

LEMMA FlushInd ==
    ASSUME IndInv, Flush PROVE IndInv'
<1> USE DEF IndInv
<1>1. Planned \in Seq(Rule) /\ Planned = Plan(command)
  BY PlannedIsList DEF Planned, Flush, StepInv, TypeOK
<1>2. TypeOK'
  <2>1. <<>> \in Seq(Rule)
    OBVIOUS
  <2> QED
    BY <1>1, <2>1 DEF TypeOK, Flush
<1>3. StepInv' /\ CoverInv'
  BY DEF StepInv, CoverInv, Flush
<1>4. Planned' = Planned /\ todo' = Planned /\ <<>> \o Planned = Planned
  BY <1>1, ConcatEmptySeq DEF Planned, Flush
<1>5. RulesInv'
  BY <1>4 DEF RulesInv, Flush, TypeOK
<1> QED
  BY <1>2, <1>3, <1>5

LEMMA AddRuleInd ==
    ASSUME IndInv, AddRule PROVE IndInv'
<1> USE DEF IndInv
<1>1. \A c \in Container :
         /\ Append(rules[c], Head(todo)) \in Seq(Rule) /\ Tail(todo) \in Seq(Rule)
         /\ Append(rules[c], Head(todo)) \o Tail(todo) = rules[c] \o todo
  BY MoveRule DEF TypeOK, AddRule
<1>2. TypeOK'
  <2>1. rules' \in [Container -> Seq(Rule)]
    BY <1>1 DEF TypeOK, AddRule
  <2>2. todo' \in Seq(Rule)
    BY HeadTailProperties DEF TypeOK, AddRule
  <2> QED
    BY <2>1, <2>2 DEF TypeOK, AddRule
<1>3. StepInv' /\ CoverInv'
  BY DEF StepInv, CoverInv, AddRule
<1>4. Planned' = Planned
  BY DEF Planned, AddRule
<1>5. RulesInv'
  BY <1>1, <1>4 DEF RulesInv, AddRule, TypeOK
<1> QED
  BY <1>2, <1>3, <1>5

LEMMA ContainerDoneInd ==
    ASSUME IndInv, ContainerDone PROVE IndInv'
<1> USE DEF IndInv
<1>1. TypeOK'
  BY DEF TypeOK, ContainerDone
<1>2. StepInv' /\ CoverInv'
  BY DEF StepInv, CoverInv, ContainerDone
<1>3. Planned' = Planned
  BY DEF Planned, ContainerDone
<1>4. \A c \in Container : rules[c] \o <<>> = rules[c]
  BY ConcatEmptySeq DEF TypeOK
<1>5. RulesInv'
  BY <1>3, <1>4 DEF RulesInv, ContainerDone, TypeOK
<1> QED
  BY <1>1, <1>2, <1>5

LEMMA FailInd ==
    ASSUME IndInv, Fail PROVE IndInv'
<1> USE DEF IndInv
<1>1. TypeOK'
  BY DEF TypeOK, Fail
<1>2. StepInv' /\ CoverInv'
  BY DEF StepInv, CoverInv, Fail
<1>3. Planned' = Planned
  BY DEF Planned, Fail
<1>4. <<>> \in Seq(Rule) /\ \A c \in Container : rules[c] \o <<>> = rules[c]
  BY ConcatEmptySeq DEF TypeOK
<1>5. ASSUME NEW c \in flushed
      PROVE  \E t \in Seq(Rule) : rules[c] \o t = Planned
  <2>1. c \in Container /\ todo \in Seq(Rule)
    BY DEF TypeOK
  <2>2. CASE step = "add" /\ c \in current
    <3>1. rules[c] \o todo = Planned
      BY <2>2 DEF RulesInv
    <3> QED
      BY <2>1, <3>1
  <2>3. CASE ~(step = "add" /\ c \in current)
    <3>1. rules[c] = Planned
      BY <2>3 DEF RulesInv, Fail, Idle
    <3> QED
      BY <1>4, <2>1, <3>1
  <2> QED
    BY <2>2, <2>3
<1>6. RulesInv'
  BY <1>3, <1>5 DEF RulesInv, Fail
<1> QED
  BY <1>1, <1>2, <1>6

LEMMA ReturnInd ==
    ASSUME IndInv, Return PROVE IndInv'
<1> USE DEF IndInv
<1>1. TypeOK'
  BY DEF TypeOK, Return
<1>2. StepInv' /\ CoverInv'
  BY DEF StepInv, CoverInv, Return
<1>3. Planned' = Planned
  BY DEF Planned, Return
<1>4. RulesInv'
  BY <1>3 DEF RulesInv, Return
<1> QED
  BY <1>1, <1>2, <1>4

LEMMA NextInd == IndInv /\ [Next]_vars => IndInv'
<1> SUFFICES ASSUME IndInv, [Next]_vars PROVE IndInv'
  OBVIOUS
<1>1. CASE BlockNodeTraffic \/ AllowNodeTraffic \/ PartitionNodeTraffic
                \/ PauseNode \/ UnpauseNode
  <2>1. \E cmd \in Command : Start(cmd)
    <3>1. CASE BlockNodeTraffic
      BY <3>1 DEF BlockNodeTraffic, Command, CommandType
    <3>2. CASE AllowNodeTraffic \/ PauseNode \/ UnpauseNode
      BY <3>2 DEF AllowNodeTraffic, PauseNode, UnpauseNode, StartOnNodes,
                  Command, CommandType, RejectType
    <3>3. CASE PartitionNodeTraffic
      BY <3>3 DEF PartitionNodeTraffic, Command, CommandType
    <3> QED
      BY <1>1, <3>1, <3>2, <3>3
  <2> QED
    BY <2>1, StartInd
<1>2. CASE NextContainer
  BY <1>2, NextContainerInd
<1>3. CASE ContainerPause \/ ContainerUnpause
  BY <1>3, PauseInd
<1>4. CASE AllowAll
  BY <1>4, AllowAllInd
<1>5. CASE Flush
  BY <1>5, FlushInd
<1>6. CASE AddRule
  BY <1>6, AddRuleInd
<1>7. CASE ContainerDone
  BY <1>7, ContainerDoneInd
<1>8. CASE Fail
  BY <1>8, FailInd
<1>9. CASE Return
  BY <1>9, ReturnInd
<1>10. CASE UNCHANGED vars
  <2>1. Planned' = Planned
    BY <1>10 DEF vars, Planned
  <2> QED
    BY <1>10, <2>1 DEF vars, IndInv, TypeOK, StepInv, CoverInv, RulesInv
<1> QED
  BY <1>1, <1>2, <1>3, <1>4, <1>5, <1>6, <1>7, <1>8, <1>9, <1>10 DEF Next

-----------------------------------------------------------------------------
(* The theorems.                                                           *)

\* The rules of every container, flushed by the last command, are its plan or a
\* beginning of it.
THEOREM Invariance == Spec => []IndInv
<1> QED
  BY InitInd, NextInd, PTL DEF Spec

\* Every variable has its type.
THEOREM TypeCorrect == Spec => []TypeOK
<1>1. IndInv => TypeOK
  BY DEF IndInv
<1> QED
  BY <1>1, Invariance, PTL

\* The order of the rules never cuts off, not even half way through a command
\* that fails, what the command spares.
THEOREM SparesAlways == Spec => []SparesThroughout
<1>1. IndInv => SparesThroughout
  <2> SUFFICES ASSUME IndInv, NEW c \in flushed, NEW p \in Packet,
                      p.from \in Spared(command)
               PROVE  Passes(rules[c], "INPUT", p)
    BY DEF SparesThroughout, Passing
  <2>1. /\ rules[c] \in Seq(Rule) /\ todo \in Seq(Rule) /\ command \in Command
        /\ Planned \in Seq(Rule)
    BY PlannedIsList DEF IndInv, TypeOK
  <2>2. PICK t \in Seq(Rule) : rules[c] \o t = Planned
    <3>1. rules[c] \o <<>> = rules[c] /\ <<>> \in Seq(Rule)
      BY <2>1, ConcatEmptySeq
    <3> QED
      BY <2>1, <3>1 DEF IndInv, RulesInv
  <2>3. Passes(Planned, "INPUT", p)
    <3>1. CASE command.type \in Blocking
      BY <2>1, <3>1, PlanFacts DEF Planned
    <3>2. CASE command.type \notin Blocking
      BY <3>2 DEF Planned, Passes
    <3> QED
      BY <3>1, <3>2
  <2> QED
    BY <2>1, <2>2, <2>3, PassesConcat
<1> QED
  BY <1>1, Invariance, PTL

\* A block or partition that returns without an error takes effect on every
\* container it is for, and blocks nothing else.
THEOREM BlockEffective == Spec => []BlockTakesEffect
<1>1. IndInv => BlockTakesEffect
  <2> SUFFICES ASSUME IndInv, step = "ok", command.type \in Blocking,
                      NEW c \in command.nodes
               PROVE  Passing(c) = {p \in Packet : p.from \in Spared(command)}
    BY DEF BlockTakesEffect
  <2>1. rules[c] = Plan(command)
    BY DEF IndInv, CoverInv, RulesInv, Planned
  <2>2. \A p \in Packet :
           Passes(Plan(command), "INPUT", p) <=> p.from \in Spared(command)
    BY PlanFacts DEF IndInv, TypeOK
  <2> QED
    BY <2>1, <2>2 DEF Passing
<1> QED
  BY <1>1, Invariance, PTL

\* A partition cuts every conversation across it, in both directions and from
\* the rules on its own side alone, and no other.
THEOREM PartitionCuts == Spec => []PartitionSeparates
<1>1. IndInv => PartitionSeparates
  <2> SUFFICES ASSUME IndInv, step = "ok", command.type = "partition",
                      \A c \in Container \ command.nodes : rules[c] = <<>>
               PROVE  \A x, y \in Container : \A kind \in Kind :
                        Arrives(x, y, kind) <=>
                            \/ y \notin command.nodes
                            \/ x \in command.nodes \/ x \in Proxy
    <3>1. Kind # {}
      BY DEF Kind
    <3> QED
      BY <3>1 DEF PartitionSeparates, Talk
  <2> TAKE x, y \in Container
  <2> TAKE kind \in Kind
  <2> DEFINE p == [from |-> x, kind |-> kind]
  <2>1. p \in Packet /\ p.from = x
    BY SourceSets DEF Packet
  <2>2. command \in Command /\ command.type \in Blocking
    BY DEF IndInv, TypeOK, Blocking
  <2>3. \A c \in command.nodes : rules[c] = Plan(command)
    BY <2>2 DEF IndInv, CoverInv, RulesInv, Planned
  <2>4. Passes(<<>>, "INPUT", p) /\ Passes(<<>>, "OUTPUT", p)
    BY DEF Passes
  <2>5. Passes(rules[x], "OUTPUT", p)
    BY <2>1, <2>2, <2>3, <2>4, PlanFacts
  <2>6. x \in Spared(command) <=> x \in command.nodes \/ x \in Proxy
    BY SourceAssumption DEF Spared, IslandAllowed
  <2>7. CASE y \in command.nodes
    <3>1. Passes(rules[y], "INPUT", p) <=> x \in Spared(command)
      BY <2>1, <2>2, <2>3, <2>7, PlanFacts
    <3> QED
      BY <2>5, <2>6, <2>7, <3>1 DEF Arrives
  <2>8. CASE y \notin command.nodes
    BY <2>4, <2>5, <2>8 DEF Arrives
  <2> QED
    BY <2>7, <2>8
<1> QED
  BY <1>1, Invariance, PTL
=============================================================================
