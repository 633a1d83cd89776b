----------------------------- MODULE VerdictProofs -----------------------------
(***************************************************************************)
(* Proofs about the checks whose verdict something else relies on: each    *)
(* sees a little of the world at a time, and what it concludes is true of  *)
(* all of it.                                                              *)
(***************************************************************************)
EXTENDS AcceptanceCheck, IngressChain, SshAccess, SshdPolicy,
        SequenceTheorems, TLAPS

-----------------------------------------------------------------------------
(* check-server.sh                                                         *)

First == Targets[1]
Second == Targets[2]

CheckTypeInv ==
    /\ gateway \in Gateways /\ domain \in {"own", First} /\ up \subseteq {First, Second}
    /\ check \in {"container", "site", "tls", "proxy", "probe", "health", "logs", "passed", "failed"}
    /\ todo \in {Targets, <<Second>>, <<>>}
    /\ broken \in BOOLEAN

\* What the checks that are over have shown of the gateway.
ShownInv ==
    /\ check \notin {"container", "failed"} => gateway.present
    /\ check \notin {"container", "site", "failed"} => gateway.site
    /\ check \notin {"container", "site", "tls", "failed"} => gateway.tls
    /\ check \in {"probe", "health", "logs", "passed"} =>
        /\ used \in up
        /\ gateway.pair \/ gateway.anonymous = "serves"
        /\ gateway.logs => used \in log
    /\ check \in {"health", "logs", "passed"} => gateway.anonymous = "hides"
    /\ check \in {"logs", "passed"} => gateway.healthy
    /\ check = "passed" => used \notin log

\* Why a sound gateway has not got further.
TriedInv ==
    /\ check \in {"container", "site", "tls"} => todo = Targets
    /\ ~gateway.logs => log = {}
    /\ check = "proxy" /\ Sound /\ ~broken =>
        /\ First \in up => todo = Targets \/ First = domain
        /\ Second \in up => todo # <<>>

CheckIInv == CheckTypeInv /\ ShownInv /\ TriedInv /\ SoundPasses

LEMMA TargetFacts ==
  /\ Head(Targets) = First /\ Tail(Targets) = <<Second>>
  /\ Head(<<Second>>) = Second /\ Tail(<<Second>>) = <<>>
  /\ Targets # <<>> /\ <<Second>> # <<>> /\ Targets # <<Second>>
  /\ First # Second /\ First # "own" /\ Second # "own"
  /\ TargetNames = {First, Second}
<1>1. Targets \in Seq({"example.com", "www.cloudflare.com"}) /\ Len(Targets) = 2
  BY DEF Targets
<1>2. Tail(Targets) = <<Second>>
  BY DEF Targets, Second
<1>3. TargetNames = {First, Second}
  BY DEF TargetNames, Targets, First, Second
<1> QED
  BY <1>1, <1>2, <1>3 DEF Targets, First, Second

LEMMA NotRejections == ~Rejects(NoAnswer) /\ ~Rejects(Answer(0, 200))
<1>1. 0 \notin 300..499 /\ 200 \notin 300..499
  OBVIOUS
<1> QED
  BY <1>1 DEF Rejects, NoAnswer, Answer

LEMMA CheckKeeps == CheckIInv /\ [CheckNext]_checkVars => CheckIInv'
<1> SUFFICES ASSUME CheckIInv, [CheckNext]_checkVars PROVE CheckIInv'
  OBVIOUS
<1> USE TargetFacts
        DEF CheckIInv, CheckTypeInv, ShownInv, TriedInv, SoundPasses, Sound, Gateways, world, checkVars, Check, Connects, Answers, Service, Refusal, Answer,
            NoAnswer
<1>1. CASE Container
  BY <1>1 DEF Container
<1>2. CASE Site
  BY <1>2 DEF Site
<1>3. CASE Tls
  BY <1>3 DEF Tls
<1>4. CASE SkipDomain
  BY <1>4 DEF SkipDomain
<1>5. CASE Proxy
  <2>1. PICK answer \in Answers(Head(todo), gateway.pair) :
          /\ Connects(Head(todo), answer)
          /\ IF answer = Answer(0, 200)
             THEN used' = Head(todo) /\ check' = "probe" /\ UNCHANGED todo
             ELSE todo' = Tail(todo) /\ UNCHANGED <<used, check>>
    BY <1>5 DEF Proxy
  <2>2. Head(todo) \in {First, Second} /\ check = "proxy" /\ Head(todo) # domain
        /\ UNCHANGED world /\ broken' \in BOOLEAN
    BY <1>5, <2>1 DEF Proxy
  <2>3. CASE answer = Answer(0, 200)
    <3>1. Head(todo) \in up /\ answer # NoAnswer
          /\ (gateway.pair \/ gateway.anonymous = "serves")
      BY <2>1, <2>3
    <3>2. gateway.logs => Head(todo) \in log'
      BY <2>1, <3>1
    <3>3. ~gateway.logs => log' = {}
      BY <2>1
    <3> QED
      BY <2>1, <2>2, <2>3, <3>1, <3>2, <3>3
  <2>4. CASE answer # Answer(0, 200)
    <3>1. Sound /\ ~broken' => Head(todo) \notin up
      BY <2>1, <2>4
    <3>2. ~gateway.logs => log' = {}
      BY <2>1
    <3>3. todo' = Tail(todo) /\ used' = used /\ check' = check
      BY <2>1, <2>4
    <3>4. ~broken' => ~broken
      BY <2>1
    <3> QED
      BY <1>5, <2>2, <3>1, <3>2, <3>3, <3>4 DEF Proxy
  <2> QED
    BY <2>3, <2>4
<1>6. CASE Probe
  <2>1. PICK answer \in Answers(used, FALSE) :
          /\ Connects(used, answer)
          /\ check' = IF Rejects(answer) THEN "health" ELSE "failed"
    BY <1>6 DEF Probe
  <2>2. check = "probe" /\ UNCHANGED <<world, todo, used>> /\ broken' \in BOOLEAN
    BY <1>6, <2>1 DEF Probe
  <2>3. (gateway.logs => used \in log') /\ (~gateway.logs => log' = {})
    BY <2>1, <2>2
  <2>4. CASE Rejects(answer)
    <3>1. answer # NoAnswer /\ answer # Answer(0, 200)
      BY <2>4, NotRejections
    <3>2. gateway.anonymous # "serves"
      BY <2>1, <2>2, <3>1
    <3>3. answer = Refusal /\ gateway.anonymous # "challenges"
      BY <2>1, <2>4, <3>1, <3>2 DEF Rejects
    <3>4. gateway.anonymous = "hides"
      BY <3>2, <3>3
    <3> QED
      BY <2>1, <2>2, <2>3, <2>4, <3>4
  <2>5. CASE ~Rejects(answer)
    <3>1. Sound => broken'
      BY <2>1, <2>2, <2>5 DEF Rejects
    <3> QED
      BY <2>1, <2>2, <2>3, <2>5, <3>1
  <2> QED
    BY <2>4, <2>5
<1>7. CASE Health
  BY <1>7 DEF Health
<1>8. CASE Logs
  BY <1>8 DEF Logs
<1>9. CASE Dies
  BY <1>9 DEF Dies
<1>10. CASE Degrades
  BY <1>10 DEF Degrades
<1>11. CASE UNCHANGED checkVars
  BY <1>11
<1> QED
  BY <1>1, <1>2, <1>3, <1>4, <1>5, <1>6, <1>7, <1>8, <1>9, <1>10, <1>11 DEF CheckNext

\* What each check has shown stays so, for every gateway, network and log.
THEOREM CheckInvariance == CheckSpec => []CheckIInv
<1>1. CheckInit => CheckIInv
  BY TargetFacts DEF CheckInit, CheckIInv, CheckTypeInv, ShownInv, TriedInv, SoundPasses, First
<1> QED
  BY <1>1, CheckKeeps, PTL DEF CheckSpec

\* A gateway that passes is sound, although no single request shows it
\* (check-server.sh).
THEOREM PassingIsSound == CheckSpec => []PassedIsSound
<1>1. CheckIInv => PassedIsSound
  BY DEF CheckIInv, CheckTypeInv, ShownInv, PassedIsSound, Sound, Gateways
<1> QED
  BY <1>1, CheckInvariance, PTL

\* A sound gateway fails only through the network or for want of a target.
THEOREM SoundIsPassing == CheckSpec => []SoundPasses
<1>1. CheckIInv => SoundPasses
  BY DEF CheckIInv
<1> QED
  BY <1>1, CheckInvariance, PTL

-----------------------------------------------------------------------------
(* docker_ingress.yml                                                      *)

\* The first rule of the managed chain that matches a packet decides.
LEMMA ManagedRules ==
  ASSUME packet \in Packets
  PROVE  /\ Matches(ManagedChain[1]) <=> Reply
         /\ Matches(ManagedChain[2]) <=> packet.out = "docker0" /\ ToGateway /\ packet.published = 80
         /\ Matches(ManagedChain[3]) <=> packet.out = "docker0" /\ ToGateway /\ packet.published = 443
         /\ Matches(ManagedChain[4]) <=> packet.out = "br-naive" /\ ToGateway /\ packet.published = 80
         /\ Matches(ManagedChain[5]) <=> packet.out = "br-naive" /\ ToGateway /\ packet.published = 443
         /\ Matches(ManagedChain[6]) <=> packet.out = "docker0"
         /\ Matches(ManagedChain[7]) <=> packet.out = "br-naive"
         /\ Matches(ManagedChain[8])
  BY DEF Packets, Interfaces, Bridges, Protocols, States, Ports, Matches, ManagedChain, Rule, Opens,
         Drops, Always, Reply, ToGateway

\* Where a packet may be: in the first chain, or in the second one, called by its rule 1.
InUser(n) == <<[chain |-> "DOCKER-USER", at |-> n]>>
InManaged(n) ==
    <<[chain |-> "DOCKER-USER", at |-> 2], [chain |-> "NAIVE-GATEWAY-DOCKER", at |-> n]>>

TraversalInv ==
    /\ packet \in Packets /\ fate \in {"none", "pass", "drop"}
    /\ fate = "none" =>
        \/ visits = InUser(1)
        \/ visits = InUser(2) /\ (ToContainer => Reply \/ ToGateway)
        \/ \E n \in 1..8 : /\ visits = InManaged(n)
                           /\ \A m \in 1..(n - 1) : ~Matches(ManagedChain[m])
    /\ OnlyGatewayReached /\ NothingElseDropped

LEMMA RuleTargets ==
  /\ UserChain[1].target = "NAIVE-GATEWAY-DOCKER" /\ UserChain[2].target = "RETURN"
  /\ \A n \in {1, 2, 3, 4, 5, 8} : ManagedChain[n].target = "RETURN"
  /\ \A n \in {6, 7} : ManagedChain[n].target = "DROP"
  /\ packet \in Packets => Matches(UserChain[1]) /\ Matches(UserChain[2])
  BY DEF UserChain, ManagedChain, Rule, Opens, Drops, Always, Matches, Packets

\* Calls that are one or two deep.
LEMMA Stacks ==
  ASSUME NEW S, NEW x \in S, NEW y \in S
  PROVE  /\ Len(<<x>>) = 1 /\ <<x>>[1] = x /\ SubSeq(<<x>>, 1, 0) = <<>>
         /\ Len(<<x, y>>) = 2 /\ <<x, y>>[2] = y /\ SubSeq(<<x, y>>, 1, 1) = <<x>>
         /\ Append(<<>>, x) = <<x>> /\ Append(<<x>>, y) = <<x, y>> /\ <<>> \o <<x, y>> = <<x, y>>
<1>1. <<x>> \in Seq(S) /\ <<x, y>> \in Seq(S)
  OBVIOUS
<1>2. SubSeq(<<x>>, 1, 0) = <<>>
  BY <1>1
<1>3. SubSeq(<<x, y>>, 1, 1) = <<x>>
  <2>1. /\ SubSeq(<<x, y>>, 1, 1) \in Seq(S) /\ Len(SubSeq(<<x, y>>, 1, 1)) = 1
        /\ SubSeq(<<x, y>>, 1, 1)[1] = x
    BY <1>1, SubSeqProperties
  <2>2. <<x>> \in Seq(S) /\ Len(<<x>>) = 1 /\ <<x>>[1] = x
    OBVIOUS
  <2>3. \A i \in 1..Len(<<x>>) : SubSeq(<<x, y>>, 1, 1)[i] = <<x>>[i]
    BY <2>1, <2>2
  <2> QED
    BY <2>1, <2>2, <2>3, SeqEqual
<1>4. Append(<<>>, x) = <<x>>
  OBVIOUS
<1>5. Append(<<x>>, y) = <<x, y>>
  <2> DEFINE a == Append(<<x>>, y)
             b == <<x, y>>
  <2>1. a \in Seq(S) /\ Len(a) = 2 /\ a[1] = x /\ a[2] = y
    BY <1>1, AppendProperties
  <2>2. b \in Seq(S) /\ Len(b) = 2 /\ b[1] = x /\ b[2] = y
    BY <1>1
  <2> HIDE DEF a, b
  <2>3. \A i \in 1..2 : a[i] = b[i]
    BY <2>1, <2>2
  <2>4. a = b
    BY <2>1, <2>2, <2>3, SeqEqual
  <2> QED
    BY <2>4 DEF a, b
<1>6. <<>> \o <<x, y>> = <<x, y>>
  BY <1>1, ConcatEmptySeq
<1> QED
  BY <1>2, <1>3, <1>4, <1>5, <1>6

\* The rule a packet is at, and the chains around it.
LEMMA Positions ==
  /\ \A n \in {1, 2} : visits = InUser(n) =>
        /\ Len(visits) = 1 /\ Visit.at = n /\ Current = UserChain[n] /\ Outer = <<>>
        /\ Append(Outer, NextRule(Visit)) = InUser(n + 1)
  /\ visits = InUser(1) =>
        Outer \o <<NextRule(Visit), [chain |-> "NAIVE-GATEWAY-DOCKER", at |-> 1]>> = InManaged(1)
  /\ \A n \in 1..8 : visits = InManaged(n) =>
        /\ Len(visits) = 2 /\ Visit.at = n /\ Current = ManagedChain[n] /\ Outer = InUser(2)
        /\ Append(Outer, NextRule(Visit)) = InManaged(n + 1)
  /\ DOMAIN Chain = {"DOCKER-USER", "NAIVE-GATEWAY-DOCKER"}
<1> DEFINE Visits == [chain : {"DOCKER-USER", "NAIVE-GATEWAY-DOCKER"}, at : 1..9]
           u(n) == [chain |-> "DOCKER-USER", at |-> n]
           m(n) == [chain |-> "NAIVE-GATEWAY-DOCKER", at |-> n]
<1>0. /\ \A n \in {1, 2, 3} : u(n) \in Visits
      /\ \A n \in 1..9 : m(n) \in Visits
      /\ \A n \in {1, 2} : NextRule(u(n)) = u(n + 1)
      /\ \A n \in 1..8 : NextRule(m(n)) = m(n + 1)
  BY DEF NextRule
<1>1. ASSUME NEW n \in {1, 2}, visits = InUser(n)
      PROVE  /\ Len(visits) = 1 /\ Visit.at = n /\ Current = UserChain[n] /\ Outer = <<>>
             /\ Append(Outer, NextRule(Visit)) = InUser(n + 1)
  <2>1. visits = <<u(n)>> /\ u(n) \in Visits /\ u(n + 1) \in Visits /\ NextRule(u(n)) = u(n + 1)
    BY <1>0, <1>1 DEF InUser
  <2>2. Visit = u(n) /\ Len(visits) = 1 /\ Outer = <<>>
    BY <2>1, Stacks DEF Visit, Outer
  <2>3. Append(Outer, NextRule(Visit)) = <<u(n + 1)>>
    BY <2>1, <2>2, Stacks
  <2> QED
    BY <2>2, <2>3 DEF InUser, Current, Chain
<1>2. ASSUME visits = InUser(1)
      PROVE  Outer \o <<NextRule(Visit), m(1)>> = InManaged(1)
  <2>1. visits = <<u(1)>> /\ u(1) \in Visits /\ u(2) \in Visits /\ m(1) \in Visits
        /\ NextRule(u(1)) = u(2)
    BY <1>0, <1>2 DEF InUser
  <2>2. Visit = u(1) /\ Outer = <<>>
    BY <2>1, Stacks DEF Visit, Outer
  <2> QED
    BY <2>1, <2>2, Stacks DEF InManaged
<1>3. ASSUME NEW n \in 1..8, visits = InManaged(n)
      PROVE  /\ Len(visits) = 2 /\ Visit.at = n /\ Current = ManagedChain[n] /\ Outer = InUser(2)
             /\ Append(Outer, NextRule(Visit)) = InManaged(n + 1)
  <2>1. visits = <<u(2), m(n)>> /\ u(2) \in Visits /\ m(n) \in Visits /\ m(n + 1) \in Visits
        /\ NextRule(m(n)) = m(n + 1)
    BY <1>0, <1>3 DEF InManaged
  <2>4. \A x, y, z \in Visits :
          /\ Len(<<x, y>>) = 2 /\ <<x, y>>[2] = y /\ SubSeq(<<x, y>>, 1, 1) = <<x>>
          /\ Append(<<x>>, z) = <<x, z>>
    <3> HIDE DEF Visits
    <3> TAKE x, y, z \in Visits
    <3>1. Len(<<x, y>>) = 2 /\ <<x, y>>[2] = y /\ SubSeq(<<x, y>>, 1, 1) = <<x>>
      BY Stacks
    <3>2. Append(<<x>>, z) = <<x, z>>
      BY Stacks
    <3> QED
      BY <3>1, <3>2
  <2> HIDE DEF u, m, Visits
  <2>2. Visit = m(n) /\ Len(visits) = 2 /\ Outer = <<u(2)>>
    <3>1. Len(visits) = 2
      BY <2>1, <2>4
    <3>2. Visit = m(n)
      BY <2>1, <2>4, <3>1 DEF Visit
    <3>3. Outer = SubSeq(visits, 1, 1)
      BY <3>1 DEF Outer
    <3> QED
      BY <2>1, <2>4, <3>1, <3>2, <3>3
  <2>3. Append(Outer, NextRule(Visit)) = <<u(2), m(n + 1)>>
    BY <2>1, <2>2, <2>4
  <2> USE DEF u, m, Visits
  <2> QED
    BY <2>2, <2>3 DEF InUser, InManaged, Current, Chain
<1>4. DOMAIN Chain = {"DOCKER-USER", "NAIVE-GATEWAY-DOCKER"}
  BY DEF Chain
<1> QED
  BY <1>1, <1>2, <1>3, <1>4

\* What a packet that has left the managed chain, or is dropped by it, has matched.
LEMMA Verdicts ==
  ASSUME packet \in Packets, NEW n \in 1..8,
         Matches(ManagedChain[n]), \A m \in 1..(n - 1) : ~Matches(ManagedChain[m])
  PROVE  /\ ManagedChain[n].target = "RETURN" => (ToContainer => Reply \/ ToGateway)
         /\ ManagedChain[n].target = "DROP" => ToContainer /\ ~Reply /\ ~ToGateway
         /\ ManagedChain[n].target \in {"RETURN", "DROP"}
<1>1. CASE n \in {1, 2, 3, 4, 5}
  <2>1. Reply \/ ToGateway
    BY <1>1, ManagedRules
  <2> QED
    BY <1>1, <2>1, RuleTargets
<1>2. CASE n = 6
  <2>1. packet.out = "docker0"
    BY <1>2, ManagedRules
  <2>2. ~Matches(ManagedChain[1]) /\ ~Matches(ManagedChain[2]) /\ ~Matches(ManagedChain[3])
    BY <1>2
  <2>3. ~Reply /\ ~ToGateway
    BY <2>1, <2>2, ManagedRules DEF ToGateway
  <2> QED
    BY <1>2, <2>1, <2>3, RuleTargets DEF ToContainer, Bridges
<1>3. CASE n = 7
  <2>1. packet.out = "br-naive"
    BY <1>3, ManagedRules
  <2>2. ~Matches(ManagedChain[1]) /\ ~Matches(ManagedChain[4]) /\ ~Matches(ManagedChain[5])
    BY <1>3
  <2>3. ~Reply /\ ~ToGateway
    BY <2>1, <2>2, ManagedRules DEF ToGateway
  <2> QED
    BY <1>3, <2>1, <2>3, RuleTargets DEF ToContainer, Bridges
<1>4. CASE n = 8
  <2>1. ~Matches(ManagedChain[6]) /\ ~Matches(ManagedChain[7])
    BY <1>4
  <2>2. ~ToContainer
    BY <2>1, ManagedRules DEF ToContainer, Bridges
  <2> QED
    BY <1>4, <2>2, RuleTargets
<1> QED
  BY <1>1, <1>2, <1>3, <1>4

LEMMA TraversalKeeps == TraversalInv /\ [ChainNext]_chainVars => TraversalInv'
<1> SUFFICES ASSUME TraversalInv, [ChainNext]_chainVars PROVE TraversalInv'
  OBVIOUS
<1> USE DEF TraversalInv
<1>1. CASE UNCHANGED chainVars
  BY <1>1 DEF chainVars, OnlyGatewayReached, NothingElseDropped, ToContainer, Reply, ToGateway,
              InUser, InManaged, Matches
<1>2. ASSUME ChainNext PROVE TraversalInv'
  <2>1. fate = "none" /\ UNCHANGED packet /\ packet \in Packets
    BY <1>2 DEF ChainNext, Skip, Jump, FallBack, Drop
  <2>2. /\ ToContainer' = ToContainer /\ Reply' = Reply /\ ToGateway' = ToGateway
        /\ \A n \in 1..8 : Matches(ManagedChain[n])' = Matches(ManagedChain[n])
    BY <2>1 DEF ToContainer, Reply, ToGateway, Matches
  <2>3. CASE visits = InUser(1)
    <3>1. Current = UserChain[1]
      BY <2>3, Positions
    <3>2. Jump
      BY <1>2, <2>1, <3>1, RuleTargets DEF ChainNext, Skip, FallBack, Drop
    <3>3. visits' = InManaged(1)
      BY <2>3, <3>1, <3>2, Positions, RuleTargets DEF Jump
    <3>4. 1 \in 1..8 /\ \A m \in 1..(1 - 1) : ~Matches(ManagedChain[m])'
      OBVIOUS
    <3>5. (\E j \in 1..8 : /\ visits = InManaged(j)
                           /\ \A m \in 1..(j - 1) : ~Matches(ManagedChain[m]))'
      BY <3>3, <3>4 DEF InManaged
    <3> QED
      BY <2>1, <3>2, <3>5 DEF Jump, OnlyGatewayReached, NothingElseDropped
  <2>4. CASE visits = InUser(2) /\ (ToContainer => Reply \/ ToGateway)
    <3>1. Current = UserChain[2] /\ Len(visits) = 1
      BY <2>4, Positions
    <3>2. FallBack
      BY <1>2, <2>1, <3>1, Positions, RuleTargets DEF ChainNext, Skip, Jump, Drop
    <3> QED
      BY <2>1, <2>2, <2>4, <3>1, <3>2 DEF FallBack, OnlyGatewayReached, NothingElseDropped
  <2>5. ASSUME NEW n \in 1..8, visits = InManaged(n),
               \A m \in 1..(n - 1) : ~Matches(ManagedChain[m])
        PROVE  TraversalInv'
    <3>1. Current = ManagedChain[n] /\ Len(visits) = 2 /\ Outer = InUser(2)
      BY <2>5, Positions
    <3>2. CASE Skip
      <4>1. ~Matches(ManagedChain[n]) /\ fate' = "none"
        BY <2>1, <3>1, <3>2 DEF Skip
      <4>2. n + 1 \in 1..8 /\ visits' = InManaged(n + 1)
        BY <2>1, <2>5, <3>2, <4>1, ManagedRules, Positions DEF Skip
      <4>3. \A m \in 1..n : ~Matches(ManagedChain[m])'
        BY <2>2, <2>5, <4>1
      <4> DEFINE k == n + 1
      <4>4. k \in 1..8 /\ visits' = InManaged(k) /\ \A m \in 1..(k - 1) : ~Matches(ManagedChain[m])'
        BY <4>2, <4>3
      <4>5. (\E j \in 1..8 : /\ visits = InManaged(j)
                             /\ \A m \in 1..(j - 1) : ~Matches(ManagedChain[m]))'
        BY <4>4 DEF InManaged
      <4> QED
        BY <2>1, <4>1, <4>5 DEF OnlyGatewayReached, NothingElseDropped
    <3>3. CASE ~Skip
      <4>1. Matches(ManagedChain[n])
        BY <1>2, <3>1, <3>3 DEF ChainNext, Jump, FallBack, Drop
      <4>2. /\ Current.target = "RETURN" => (ToContainer => Reply \/ ToGateway)
            /\ Current.target = "DROP" => ToContainer /\ ~Reply /\ ~ToGateway
            /\ Current.target \in {"RETURN", "DROP"}
        BY <2>1, <2>5, <3>1, <4>1, Verdicts
      <4>3. ~Jump
        BY <4>2, Positions DEF Jump
      <4>4. CASE FallBack
        BY <2>1, <2>2, <3>1, <4>2, <4>4 DEF FallBack, InUser, OnlyGatewayReached, NothingElseDropped
      <4>5. CASE Drop
        BY <2>1, <2>2, <4>2, <4>5 DEF Drop, OnlyGatewayReached, NothingElseDropped
      <4> QED
        BY <1>2, <3>3, <4>3, <4>4, <4>5 DEF ChainNext
    <3> QED
      BY <3>2, <3>3
  <2> QED
    BY <2>1, <2>3, <2>4, <2>5
<1> QED
  BY <1>1, <1>2

\* A packet is always in the first chain or in the second one called from it, past the
\* rules that did not match it, and what has been decided of it is right.
THEOREM TraversalInvariance == ChainSpec => []TraversalInv
<1>1. ChainInit => TraversalInv
  BY DEF ChainInit, TraversalInv, InUser, OnlyGatewayReached, NothingElseDropped
<1> QED
  BY <1>1, TraversalKeeps, PTL DEF ChainSpec

\* Nothing but replies and new connections to the gateway's public ports reaches a
\* container (docker_ingress.yml).
THEOREM IngressIsTheGateway == ChainSpec => []OnlyGatewayReached
<1>1. TraversalInv => OnlyGatewayReached
  BY DEF TraversalInv
<1> QED
  BY <1>1, TraversalInvariance, PTL

\* The chains drop nothing that does not go to a container, and of that neither
\* replies nor the gateway's own connections.
THEOREM IngressDropsNothingElse == ChainSpec => []NothingElseDropped
<1>1. TraversalInv => NothingElseDropped
  BY DEF TraversalInv
<1> QED
  BY <1>1, TraversalInvariance, PTL

-----------------------------------------------------------------------------
(* ssh.py, preflight.py                                                    *)

AccessTypeInv ==
    /\ machine \in Nat \ {0} /\ known \in 0..machine /\ policy \in Policies
    /\ mode \in {"none", "managed", "bootstrap"}
    /\ pc \in Questions \cup {"idle", "network", "play", "safe", "stop"}
    /\ ssh \in {"none", "kex", "auth", "closed"}

\* Which answers the step of a command rests on: a login or a refusal is always of a
\* host whose key is known, and only the operator makes it unknown, between commands.
StepInv ==
    /\ pc \in {"network", "p_managed", "p_boot"} => mode = "none"
    /\ pc \in {"b_boot", "play"} => kind = "bootstrap" /\ mode # "none"
    /\ pc \in {"p_boot", "b_boot", "play", "c_managed", "c_root", "c_methods", "safe"} => known # 0
    /\ pc \notin Questions => ssh = "none"

SessionInv ==
    /\ ssh = "none" => err = {} /\ rc = 0
    /\ ssh \in {"kex", "auth"} => err \subseteq {"local"} /\ rc = 0
    /\ ssh = "auth" \/ (ssh = "closed" /\ rc = 0) \/ "denied" \in err => known # 0
    /\ "denied" \in err => ssh = "closed" /\ rc = 255

\* What a session that is over has shown of the machine, if that is the known one.
AnswerInv ==
    Same =>
        /\ ssh = "closed" /\ rc = 0 => Asked \in policy.accepts
        /\ "denied" \in err /\ "local" \notin err => Asked \notin policy.accepts
        /\ "denied" \in err /\ Asked = "methods" => policy.offers \subseteq err

\* What the answers before this step have shown.
LearntInv ==
    Same =>
        /\ pc = "p_boot" => "managed" \notin policy.accepts
        /\ pc = "c_methods" => "root" \notin policy.accepts

AccessIInv ==
    /\ AccessTypeInv /\ StepInv /\ SessionInv /\ AnswerInv /\ LearntInv
    /\ ChoiceIsTrue /\ SafeIsTrue

\* Only a login is "ok", and only a refusal with a usable key is "auth_failed".
LEMMA Verdicted ==
  /\ Verdict = "ok" => rc = 0
  /\ Verdict = "auth_failed" => "denied" \in err /\ "local" \notin err
  BY DEF Verdict

\* A step that asks the next question has an answer that holds of the machine.
LEMMA Answered ==
  ASSUME AccessIInv, Same, ssh = "closed"
  PROVE  /\ Verdict = "ok" => Asked \in policy.accepts
         /\ Verdict = "auth_failed" => Asked \notin policy.accepts
         /\ PasswordMethodsDisabled /\ Asked = "methods" => Passwords \cap policy.offers = {}
  BY Verdicted DEF AccessIInv, AnswerInv, PasswordMethodsDisabled

LEMMA AnswerIsOfKnown ==
  ASSUME AccessIInv, ssh = "closed", Verdict \in {"ok", "auth_failed"}
  PROVE  known # 0
  BY Verdicted DEF AccessIInv, SessionInv

LEMMA AccessKeeps == AccessIInv /\ [AccessNext]_accessVars => AccessIInv'
<1> SUFFICES ASSUME AccessIInv, [AccessNext]_accessVars PROVE AccessIInv'
  OBVIOUS
<1>1. CASE UNCHANGED accessVars
  BY <1>1 DEF accessVars, server, command, session, AccessIInv, AccessTypeInv, StepInv, SessionInv,
              AnswerInv, LearntInv, ChoiceIsTrue, SafeIsTrue, Same, Asked
\* A session asks of the machine, and changes nothing but what is known of it.
<1>2. CASE ContractFails \/ Connect \/ HostKey \/ LoggedIn \/ Denied \/ Disconnects
  <2>1. UNCHANGED <<server, command, pc>> /\ pc \in Questions
    BY <1>2 DEF ContractFails, Connect, HostKey, LoggedIn, Denied, Disconnects,
                AccessIInv, AccessTypeInv, StepInv
  <2>2. AccessTypeInv' /\ StepInv'
    BY <1>2, <2>1 DEF ContractFails, Connect, HostKey, LoggedIn, Denied, Disconnects,
                AccessIInv, AccessTypeInv, StepInv, server, command
  <2>3. SessionInv'
    BY <1>2, <2>1 DEF ContractFails, Connect, HostKey, LoggedIn, Denied, Disconnects,
                AccessIInv, AccessTypeInv, SessionInv, server, command
  <2>4. CASE known' = known
    <3>1. Same' = Same /\ Asked' = Asked
      BY <2>1, <2>4 DEF Same, Asked, server
    <3>2. AnswerInv'
      BY <1>2, <2>1, <3>1 DEF ContractFails, Connect, HostKey, LoggedIn, Denied, Disconnects,
                AccessIInv, AnswerInv, SessionInv, server
    <3> QED
      BY <2>1, <2>2, <2>3, <3>1, <3>2 DEF AccessIInv, LearntInv, ChoiceIsTrue, SafeIsTrue,
                server, command
  <2>5. CASE known' # known
    <3>1. HostKey /\ known = 0 /\ ssh' = "auth" /\ err' = err
      BY <1>2, <2>5 DEF ContractFails, Connect, HostKey, LoggedIn, Denied, Disconnects
    <3>2. pc = "p_managed" /\ mode = "none"
      BY <2>1, <3>1 DEF AccessIInv, StepInv, Questions, HostKey, Asked
    <3>3. "denied" \notin err
      BY <3>1 DEF AccessIInv, SessionInv
    <3> QED
      BY <2>1, <2>2, <2>3, <3>1, <3>2, <3>3 DEF AccessIInv, AnswerInv, LearntInv, ChoiceIsTrue,
                SafeIsTrue, command
  <2> QED
    BY <2>4, <2>5
\* A step of a command leaves the machine alone, and has no session of its own yet.
<1>3. CASE Start \/ Network \/ ManagedHost \/ NotManaged \/ BootstrapHost \/ AskBootstrapUser
           \/ Reconnected \/ RootRejected \/ DeclareSafe \/ GiveUp \/ End
  <2>1. /\ UNCHANGED <<machine, policy, boot, known>>
        /\ ssh' = "none" /\ err' = {} /\ rc' = 0
    BY <1>3 DEF Start, Network, ManagedHost, NotManaged, BootstrapHost, AskBootstrapUser,
                Reconnected, RootRejected, DeclareSafe, GiveUp, End, Ask, server, command
  <2>2. Same' = Same
    BY <2>1 DEF Same
  <2>3. SessionInv' /\ AnswerInv'
    BY <2>1 DEF SessionInv, AnswerInv
  <2> USE DEF AccessIInv
  <2>4. CASE Start
    BY <2>1, <2>2, <2>3, <2>4 DEF Start, Ask, server, AccessTypeInv, StepInv, LearntInv,
       ChoiceIsTrue, SafeIsTrue, Questions
  <2>5. CASE Network
    BY <2>1, <2>2, <2>3, <2>5 DEF Network, Ask, server, command, AccessTypeInv, StepInv, LearntInv,
       ChoiceIsTrue, SafeIsTrue, Questions
  <2>6. CASE ManagedHost
    <3>1. pc = "p_managed" /\ Asked = "managed" /\ ssh = "closed" /\ Verdict = "ok"
      BY <2>6 DEF ManagedHost, Ask, Asked
    <3>2. known # 0 /\ (Same => "managed" \in policy.accepts)
      BY <3>1, Answered, AnswerIsOfKnown
    <3> QED
      BY <2>1, <2>2, <2>3, <2>6, <3>2 DEF ManagedHost, Ask, AfterPreflight, server, AccessTypeInv,
         StepInv, LearntInv, ChoiceIsTrue, SafeIsTrue, Questions
  <2>7. CASE NotManaged
    <3>1. pc = "p_managed" /\ Asked = "managed" /\ ssh = "closed" /\ Verdict = "auth_failed"
      BY <2>7 DEF NotManaged, Ask, Asked
    <3>2. known # 0 /\ (Same => "managed" \notin policy.accepts)
      BY <3>1, Answered, AnswerIsOfKnown
    <3> QED
      BY <2>1, <2>2, <2>3, <2>7, <3>1, <3>2 DEF NotManaged, Ask, server, command, AccessTypeInv,
         StepInv, LearntInv, ChoiceIsTrue, SafeIsTrue, Questions
  <2>8. CASE BootstrapHost
    <3>1. pc = "p_boot" /\ Asked = boot /\ ssh = "closed" /\ Verdict = "ok"
      BY <2>8 DEF BootstrapHost, Ask, Asked
    <3>2. Same => boot \in policy.accepts /\ "managed" \notin policy.accepts
      BY <3>1, Answered DEF LearntInv
    <3> QED
      BY <2>1, <2>2, <2>3, <2>8, <3>1, <3>2 DEF BootstrapHost, Ask, AfterPreflight, server,
         AccessTypeInv, StepInv, LearntInv, ChoiceIsTrue, SafeIsTrue, Questions
  <2>9. CASE AskBootstrapUser
    <3>1. pc = "b_boot" /\ Asked = boot /\ ssh = "closed" /\ Verdict \in {"ok", "auth_failed"}
          /\ skip' = (Verdict = "auth_failed")
      BY <2>9 DEF AskBootstrapUser, Ask, Asked
    <3>2. Same => (skip' <=> boot \notin policy.accepts)
      BY <3>1, Answered
    <3> QED
      BY <2>1, <2>2, <2>3, <2>9, <3>1, <3>2 DEF AskBootstrapUser, Ask, server, AccessTypeInv,
         StepInv, LearntInv, ChoiceIsTrue, SafeIsTrue, Questions
  <2>10. CASE Reconnected
    BY <2>1, <2>2, <2>3, <2>10 DEF Reconnected, Ask, server, command, AccessTypeInv, StepInv,
       LearntInv, ChoiceIsTrue, SafeIsTrue, Questions
  <2>11. CASE RootRejected
    <3>1. pc = "c_root" /\ Asked = "root" /\ ssh = "closed" /\ Verdict = "auth_failed"
      BY <2>11 DEF RootRejected, Ask, Asked
    <3>2. Same => "root" \notin policy.accepts
      BY <3>1, Answered
    <3> QED
      BY <2>1, <2>2, <2>3, <2>11, <3>1, <3>2 DEF RootRejected, Ask, server, command, AccessTypeInv,
         StepInv, LearntInv, ChoiceIsTrue, SafeIsTrue, Questions
  <2>12. CASE DeclareSafe
    <3>1. pc = "c_methods" /\ Asked = "methods" /\ ssh = "closed" /\ PasswordMethodsDisabled
      BY <2>12 DEF DeclareSafe, Ask, Asked
    <3>2. Same => Passwords \cap policy.offers = {} /\ "root" \notin policy.accepts
      BY <3>1, Answered DEF LearntInv
    <3> QED
      BY <2>1, <2>2, <2>3, <2>12, <3>1, <3>2 DEF DeclareSafe, Ask, server, command, AccessTypeInv,
         StepInv, LearntInv, ChoiceIsTrue, SafeIsTrue, Questions
  <2>13. CASE GiveUp \/ End
    BY <2>1, <2>2, <2>3, <2>13 DEF GiveUp, End, Ask, server, command, AccessTypeInv, StepInv,
       LearntInv, ChoiceIsTrue, SafeIsTrue, Questions
  <2> QED
    BY <1>3, <2>4, <2>5, <2>6, <2>7, <2>8, <2>9, <2>10, <2>11, <2>12, <2>13
<1>4. CASE Play
  BY <1>4 DEF Play, Ask, command, AccessIInv, AccessTypeInv, StepInv, SessionInv, AnswerInv,
              LearntInv, ChoiceIsTrue, SafeIsTrue, Questions
\* Whoever answers from now on is not known.
<1>5. CASE Reinstall \/ ForgetHost
  <2>1. ~Same'
    BY <1>5 DEF Reinstall, ForgetHost, AccessIInv, AccessTypeInv, Same, server
  <2>2. AccessTypeInv' /\ StepInv' /\ SessionInv'
    BY <1>5 DEF Reinstall, ForgetHost, server, command, session, AccessIInv, AccessTypeInv, StepInv,
                SessionInv, Questions
  <2> QED
    BY <2>1, <2>2 DEF AccessIInv, AnswerInv, LearntInv, ChoiceIsTrue, SafeIsTrue
<1>6. CASE KeyFileChanges
  BY <1>6 DEF KeyFileChanges, command, session, AccessIInv, AccessTypeInv, StepInv, SessionInv,
              AnswerInv, LearntInv, ChoiceIsTrue, SafeIsTrue, Same, Asked
<1> QED
  BY <1>1, <1>2, <1>3, <1>4, <1>5, <1>6 DEF AccessNext

\* What a command has learnt from the sessions so far holds of the machine, as long as
\* it is the one whose host key is known.
THEOREM AccessInvariance == AccessSpec => []AccessIInv
<1>1. AccessInit => AccessIInv
  BY DEF AccessInit, AccessIInv, AccessTypeInv, StepInv, SessionInv, AnswerInv, LearntInv,
         ChoiceIsTrue, SafeIsTrue, Questions
<1> QED
  BY <1>1, AccessKeeps, PTL DEF AccessSpec

\* Neither a broken connection nor a useless key file nor another host makes the
\* controller choose the wrong user or leave plays out (preflight.py, run_bootstrap).
THEOREM TheChoiceIsTrue == AccessSpec => []ChoiceIsTrue
<1>1. AccessIInv => ChoiceIsTrue
  BY DEF AccessIInv
<1> QED
  BY <1>1, AccessInvariance, PTL

\* What is declared safe is safe: an answer that was not seen proves nothing (ssh.py).
THEOREM DeclaredSafeIsSafe == AccessSpec => []SafeIsTrue
<1>1. AccessIInv => SafeIsTrue
  BY DEF AccessIInv
<1> QED
  BY <1>1, AccessInvariance, PTL

-----------------------------------------------------------------------------
(* sshd_policy.py                                                          *)

Frames == [file : Files, ancestors : SUBSET Files, todo : SUBSET Files]

\* The files from which no Match block can be reached.
Harmless(files) == Complete(files) /\ \A f \in files : content[f].matches = {}
Clean == UNION {files \in SUBSET Files : Harmless(files)}

PolicyTypeInv ==
    /\ content \in [Files -> Contents] /\ stack \in Seq(Frames)
    /\ verdict \in {"none", "walked", "passed", "refused"}

\* The calls of check_config are the inclusions that lead to the file being read.
CallsInv ==
    \A i \in 1..Len(stack) :
        /\ stack[i].file \in Reads /\ stack[i].todo \subseteq content[stack[i].file].includes
        /\ \A a \in stack[i].ancestors : a \in Reads /\ stack[i].file \in ReachedFrom(a)

\* What is behind an open call is clean: all that it included, but for the call it waits for.
BehindInv ==
    /\ stack # <<>> => stack[1].file = Main
    /\ \A i \in 1..Len(stack) : \A g \in content[stack[i].file].includes \ stack[i].todo :
          g \in Clean \/ (i < Len(stack) /\ g = stack[i + 1].file)
    /\ verdict \in {"walked", "passed"} => Main \in Clean

PolicyIInv ==
    PolicyTypeInv /\ CallsInv /\ BehindInv /\ HoldsForAll /\ RefusedForReason

LEMMA Inclusion ==
  ASSUME content \in [Files -> Contents], NEW files \in SUBSET Files
  PROVE  /\ files \subseteq WithIncluded(files) /\ WithIncluded(files) \subseteq Files
         /\ \A f \in WithIncluded(files) : content[f].includes \subseteq WithIncluded(files)
  BY DEF WithIncluded, Complete, Contents

\* What a file that sshd reads includes is read too.
LEMMA ReadsIncluded ==
  ASSUME content \in [Files -> Contents]
  PROVE  /\ Main \in Reads /\ Reads \subseteq Files
         /\ \A f \in Reads : content[f].includes \subseteq Reads
         /\ \A f \in Files : /\ content[f].includes \subseteq ReachedFrom(f)
                             /\ \A h \in ReachedFrom(f) : content[h].includes \subseteq ReachedFrom(f)
<1>1. {Main} \in SUBSET Files /\ \A f \in Files : content[f].includes \in SUBSET Files
  BY MainAssumption DEF Contents
<1> QED
  BY <1>1, Inclusion DEF Reads, ReachedFrom

\* A file without a Match block that includes clean files only is clean.
LEMMA CleanFile ==
  ASSUME content \in [Files -> Contents], NEW f \in Files,
         content[f].matches = {}, content[f].includes \subseteq Clean
  PROVE  f \in Clean
<1> DEFINE files == Clean \cup {f}
<1>1. files \in SUBSET Files
  BY DEF Clean
<1>2. Harmless(Clean)
  BY DEF Clean, Harmless, Complete
<1>3. Harmless(files)
  BY <1>2 DEF Harmless, Complete
<1> HIDE DEF files
<1>4. files \subseteq Clean
  BY <1>1, <1>3 DEF Clean
<1> QED
  BY <1>4 DEF files

\* If the main file is clean, so is all that sshd reads.
LEMMA CleanReads ==
  ASSUME content \in [Files -> Contents], Main \in Clean
  PROVE  \A f \in Reads : content[f].matches = {}
<1>1. PICK files \in SUBSET Files : Harmless(files) /\ Main \in files
  BY DEF Clean
<1>2. Reads \subseteq files
  BY <1>1 DEF Reads, WithIncluded, Harmless
<1> QED
  BY <1>1, <1>2 DEF Harmless

\* The stack after a call, and after the end of one.
LEMMA CallStack ==
  ASSUME NEW S, NEW s \in Seq(S), s # <<>>, NEW x \in S, NEW y \in S
  PROVE  LET t == [s EXCEPT ![Len(s)] = x] \o <<y>> IN
         /\ Len(s) \in Nat \ {0}
         /\ t \in Seq(S) /\ Len(t) = Len(s) + 1
         /\ \A i \in 1..(Len(s) - 1) : t[i] = s[i]
         /\ t[Len(s)] = x /\ t[Len(s) + 1] = y
<1> DEFINE e == [s EXCEPT ![Len(s)] = x]
<1>1. Len(s) \in Nat \ {0}
  BY EmptySeq
<1>2. /\ e \in Seq(S) /\ Len(e) = Len(s) /\ e[Len(s)] = x
      /\ \A i \in 1..(Len(s) - 1) : e[i] = s[i]
  BY <1>1, ExceptSeq
<1>3. <<y>> \in Seq(S) /\ Len(<<y>>) = 1 /\ <<y>>[1] = y
  OBVIOUS
<1> HIDE DEF e
<1>4. e \o <<y>> \in Seq(S) /\ Len(e \o <<y>>) = Len(e) + 1
      /\ \A i \in 1..(Len(e) + 1) : (e \o <<y>>)[i] = IF i <= Len(e) THEN e[i] ELSE <<y>>[i - Len(e)]
  BY <1>2, <1>3, ConcatProperties
<1>5. \A i \in 1..(Len(s) - 1) : (e \o <<y>>)[i] = s[i]
  BY <1>1, <1>2, <1>4
<1>6. (e \o <<y>>)[Len(s)] = x /\ (e \o <<y>>)[Len(s) + 1] = y
  BY <1>1, <1>2, <1>3, <1>4
<1> QED
  BY <1>1, <1>2, <1>4, <1>5, <1>6 DEF e

LEMMA ReturnStack ==
  ASSUME NEW S, NEW s \in Seq(S), s # <<>>
  PROVE  LET t == SubSeq(s, 1, Len(s) - 1) IN
         /\ Len(s) \in Nat \ {0}
         /\ t \in Seq(S) /\ Len(t) = Len(s) - 1
         /\ \A i \in 1..(Len(s) - 1) : t[i] = s[i]
<1>1. Len(s) \in Nat \ {0} /\ \A i \in 1..(Len(s) - 1) : s[i] \in S
  BY EmptySeq
<1> DEFINE n == Len(s) - 1
           t == SubSeq(s, 1, n)
<1>2. n \in Nat /\ \A i \in 1..n : s[i] \in S
  BY <1>1
<1> HIDE DEF n
<1>3. t \in Seq(S) /\ Len(t) = (IF 1 <= n THEN n ELSE 0) /\ \A i \in 1..n : t[i] = s[i]
  BY <1>2, SubSeqProperties
<1>4. t \in Seq(S) /\ Len(t) = n /\ \A i \in 1..n : t[i] = s[i]
  BY <1>2, <1>3
<1> QED
  BY <1>1, <1>4 DEF n

LEMMA WalkStarts == PolicyInit => PolicyTypeInv /\ CallsInv /\ BehindInv
<1> SUFFICES ASSUME PolicyInit PROVE PolicyTypeInv /\ CallsInv /\ BehindInv
  OBVIOUS
<1> DEFINE c == [file |-> Main, ancestors |-> {}, todo |-> content[Main].includes]
<1>1. content \in [Files -> Contents] /\ stack = <<c>> /\ c \in Frames
  BY MainAssumption DEF PolicyInit, Frames, Contents
<1>2. c.file = Main /\ c.ancestors = {} /\ c.todo = content[Main].includes
  OBVIOUS
<1> HIDE DEF c
<1>3. stack \in Seq(Frames) /\ Len(stack) = 1 /\ stack[1] = c
  BY <1>1
<1>4. CallsInv
  BY <1>1, <1>2, <1>3, ReadsIncluded DEF CallsInv
<1>5. BehindInv
  BY <1>1, <1>2, <1>3 DEF BehindInv, PolicyInit
<1> QED
  BY <1>1, <1>3, <1>4, <1>5 DEF PolicyTypeInv, PolicyInit

LEMMA WalkKeeps == PolicyIInv /\ [PolicyNext]_policyVars => PolicyIInv'
<1> SUFFICES ASSUME PolicyIInv, [PolicyNext]_policyVars PROVE PolicyIInv'
  OBVIOUS
<1> USE DEF PolicyIInv
<1>1. CASE UNCHANGED policyVars
  BY <1>1 DEF policyVars, PolicyTypeInv, CallsInv, BehindInv, HoldsForAll, RefusedForReason, Reads,
              ReachedFrom, WithIncluded, Complete, Clean, Harmless, Permits
<1>2. ASSUME PolicyNext PROVE PolicyIInv'
  <2>1. content' = content /\ content \in [Files -> Contents]
    BY <1>2 DEF PolicyNext, Include, Return, Raise, Refuse, Effective, PolicyTypeInv
  <2>2. /\ Reads' = Reads /\ Clean' = Clean
        /\ \A f \in Files : ReachedFrom(f)' = ReachedFrom(f)
        /\ \A c \in Contexts : Permits(c)' = Permits(c)
    BY <2>1 DEF Reads, ReachedFrom, WithIncluded, Complete, Clean, Harmless, Permits
  <2>3. Reads \subseteq Files
    BY <2>1, ReadsIncluded
  <2> DEFINE n == Len(stack)
  \* The call that is running.
  <2>4. ASSUME stack # <<>>
        PROVE  /\ n \in Nat \ {0} /\ Top \in Frames /\ Top = stack[n]
               /\ Top.file \in Reads /\ Top.todo \subseteq content[Top.file].includes
               /\ \A a \in Top.ancestors : a \in Reads /\ Top.file \in ReachedFrom(a)
               /\ \A g \in content[Top.file].includes \ Top.todo : g \in Clean
    <3>1. n \in Nat \ {0} /\ n \in 1..n /\ stack[n] \in Frames
      BY <2>4, EmptySeq DEF PolicyTypeInv
    <3> QED
      BY <3>1 DEF Top, CallsInv, BehindInv
  <2>5. CASE Include
    <3>1. PICK f \in Top.todo :
              stack' = [stack EXCEPT ![n] = [Top EXCEPT !.todo = @ \ {f}]]
                          \o <<Frame(f, Below([Top EXCEPT !.todo = @ \ {f}]))>>
      BY <2>5 DEF Include
    <3> DEFINE call == [Top EXCEPT !.todo = @ \ {f}]
               below == Frame(f, Below(call))
    <3>2. stack # <<>> /\ verdict' = verdict
      BY <2>5 DEF Include
    <3>3. /\ f \in Files /\ f \in Reads /\ f \in content[Top.file].includes
          /\ \A a \in Below(Top) : a \in Reads /\ f \in ReachedFrom(a)
      BY <2>1, <2>3, <2>4, <3>2, ReadsIncluded DEF Below
    <3>4. /\ call \in Frames /\ call.file = Top.file /\ call.ancestors = Top.ancestors
          /\ call.todo = Top.todo \ {f} /\ Below(call) = Below(Top)
      BY <2>4, <3>2 DEF Frames, Below
    <3>5. /\ below \in Frames /\ below.file = f /\ below.ancestors = Below(Top)
          /\ below.todo = content[f].includes
      BY <2>1, <2>4, <3>2, <3>3, <3>4 DEF Frames, Frame, Below, Contents
    <3> HIDE DEF call, below
    <3>6. /\ stack' \in Seq(Frames) /\ Len(stack') = n + 1
          /\ \A i \in 1..(n - 1) : stack'[i] = stack[i]
          /\ stack'[n] = call /\ stack'[n + 1] = below
      <4>1. stack' = [stack EXCEPT ![n] = call] \o <<below>>
        BY <3>1 DEF call, below
      <4>2. stack \in Seq(Frames) /\ stack # <<>> /\ call \in Frames /\ below \in Frames
        BY <3>2, <3>4, <3>5 DEF PolicyTypeInv
      <4> QED
        BY <4>1, <4>2, CallStack
    <3>7. CallsInv'
      <4> SUFFICES ASSUME NEW i \in 1..(n + 1)
                   PROVE  /\ stack'[i].file \in Reads
                          /\ stack'[i].todo \subseteq content[stack'[i].file].includes
                          /\ \A a \in stack'[i].ancestors :
                                a \in Reads /\ stack'[i].file \in ReachedFrom(a)
        BY <2>1, <2>2, <2>3, <3>6 DEF CallsInv
      <4>1. CASE i \in 1..(n - 1)
        BY <2>4, <3>2, <3>6, <4>1 DEF CallsInv
      <4>2. CASE i = n
        BY <2>4, <3>2, <3>4, <3>6, <4>2
      <4>3. CASE i = n + 1
        BY <3>3, <3>5, <3>6, <4>3
      <4> QED
        BY <2>4, <3>2, <4>1, <4>2, <4>3
    <3>8. BehindInv'
      <4>1. stack'[1].file = Main
        BY <2>4, <3>2, <3>4, <3>6 DEF BehindInv
      <4>2. ASSUME NEW i \in 1..(n + 1), NEW g \in content[stack'[i].file].includes \ stack'[i].todo
            PROVE  g \in Clean \/ (i < n + 1 /\ g = stack'[i + 1].file)
        <5>1. CASE i \in 1..(n - 2)
          BY <2>4, <3>2, <3>6, <5>1, <4>2 DEF BehindInv
        <5>2. CASE i = n - 1
          BY <2>4, <3>2, <3>4, <3>6, <5>2, <4>2 DEF BehindInv
        <5>3. CASE i = n
          BY <2>4, <3>2, <3>4, <3>5, <3>6, <5>3, <4>2
        <5>4. CASE i = n + 1
          BY <3>5, <3>6, <5>4, <4>2
        <5> QED
          BY <2>4, <3>2, <5>1, <5>2, <5>3, <5>4
      <4> QED
        BY <2>1, <2>2, <3>2, <3>6, <4>1, <4>2 DEF BehindInv
    <3>9. PolicyTypeInv'
      BY <2>1, <3>2, <3>6 DEF PolicyTypeInv
    <3>10. HoldsForAll' /\ RefusedForReason'
      BY <2>1, <2>2, <2>3, <3>2 DEF HoldsForAll, RefusedForReason
    <3> QED
      BY <3>7, <3>8, <3>9, <3>10
  <2>6. CASE Return
    <3>1. /\ stack # <<>> /\ stack' = SubSeq(stack, 1, n - 1)
          /\ verdict' = (IF n = 1 THEN "walked" ELSE "none")
          /\ content[Top.file].matches = {} /\ Top.todo = {}
      BY <2>6 DEF Return
    <3>2. /\ stack' \in Seq(Frames) /\ Len(stack') = n - 1
          /\ \A i \in 1..(n - 1) : stack'[i] = stack[i]
      BY <3>1, ReturnStack DEF PolicyTypeInv
    <3>3. Top.file \in Clean
      BY <2>1, <2>3, <2>4, <3>1, CleanFile
    <3>4. CallsInv'
      BY <2>1, <2>2, <2>3, <2>4, <3>1, <3>2 DEF CallsInv
    <3>5. BehindInv'
      <4>1. stack' # <<>> => stack'[1].file = Main
        <5>1. stack' # <<>> => n - 1 >= 1
          BY <2>4, <3>1, <3>2, EmptySeq
        <5> QED
          BY <2>4, <3>1, <3>2, <5>1 DEF BehindInv
      <4>2. ASSUME NEW i \in 1..(n - 1), NEW g \in content[stack'[i].file].includes \ stack'[i].todo
            PROVE  g \in Clean \/ (i < n - 1 /\ g = stack'[i + 1].file)
        <5>1. CASE i < n - 1
          BY <2>4, <3>1, <3>2, <5>1, <4>2 DEF BehindInv
        <5>2. CASE i = n - 1
          BY <2>4, <3>1, <3>2, <3>3, <5>2, <4>2 DEF BehindInv
        <5> QED
          BY <2>4, <3>1, <5>1, <5>2
      <4>3. verdict' \in {"walked", "passed"} => Main \in Clean
        BY <2>4, <3>1, <3>3 DEF BehindInv
      <4> QED
        BY <2>1, <2>2, <3>2, <4>1, <4>2, <4>3 DEF BehindInv
    <3> QED
      BY <2>1, <3>1, <3>2, <3>4, <3>5 DEF PolicyTypeInv, HoldsForAll, RefusedForReason
  <2>7. CASE Raise
    <3>1. stack # <<>> /\ stack' = <<>> /\ verdict' = "refused"
      BY <2>7 DEF Raise, Refuse
    <3>2. \/ ~content[Top.file].legible \/ content[Top.file].matches # {}
          \/ Top.file \in ReachedFrom(Top.file)
      BY <2>4, <2>7, <3>1 DEF Raise
    <3>3. RefusedForReason'
      BY <2>1, <2>2, <2>3, <2>4, <3>1, <3>2 DEF RefusedForReason
    <3> QED
      BY <2>1, <3>1, <3>3 DEF PolicyTypeInv, CallsInv, BehindInv, HoldsForAll
  <2>8. CASE Effective
    <3>1. /\ verdict = "walked" /\ stack' = stack
          /\ verdict' = IF Permits("asked") THEN "refused" ELSE "passed"
      BY <2>8 DEF Effective
    <3>2. \A f \in Reads : content[f].matches = {}
      BY <2>1, <3>1, CleanReads DEF BehindInv
    <3>3. HoldsForAll'
      BY <2>2, <3>1, <3>2 DEF HoldsForAll, Permits, Contexts
    <3>4. RefusedForReason'
      BY <2>1, <2>2, <3>1, <3>2 DEF RefusedForReason, Permits
    <3> QED
      BY <2>1, <2>2, <2>3, <3>1, <3>3, <3>4 DEF PolicyTypeInv, CallsInv, BehindInv
  <2> QED
    BY <1>2, <2>5, <2>6, <2>7, <2>8 DEF PolicyNext
<1> QED
  BY <1>1, <1>2

\* The calls of check_config are a path of inclusions from the main file, and what they
\* have behind them reaches no Match block; for any number of files and inclusions.
THEOREM WalkInvariance == PolicySpec => []PolicyIInv
<1>1. PolicyInit => HoldsForAll /\ RefusedForReason
  BY DEF PolicyInit, HoldsForAll, RefusedForReason
<1> QED
  BY <1>1, WalkStarts, WalkKeeps, PTL DEF PolicySpec, PolicyIInv

\* What the role accepts holds for every connection, although it asks about two only
\* (sshd_policy.py, ssh_policy/tasks/main.yml).
THEOREM AcceptedPolicyHoldsForAll == PolicySpec => []HoldsForAll
<1>1. PolicyIInv => HoldsForAll
  BY DEF PolicyIInv
<1> QED
  BY <1>1, WalkInvariance, PTL

\* A configuration is refused for a reason, and a file included twice is none.
THEOREM PolicyRefusedForReason == PolicySpec => []RefusedForReason
<1>1. PolicyIInv => RefusedForReason
  BY DEF PolicyIInv
<1> QED
  BY <1>1, WalkInvariance, PTL
=============================================================================
