----------------------- MODULE OrchestratorSerialProofs -----------------------
(***************************************************************************)
(* When a task arrives only while no handler runs (Serial), for every      *)
(* number of pipelines, coroutines, slots and scores and every set of      *)
(* tasks: what holds of the visits, the timers and the requests between    *)
(* two tasks.                                                              *)
(***************************************************************************)
EXTENDS OrchestratorProofs

---------------------------------------------------------------------------
(* Sequences of operations. *)

\* Nothing left is well formed.
LEMMA FormedNil == <<>> \in Seq(Op) /\ WellFormed(<<>>) /\ Light(<<>>)
<1>1. <<>> \in Seq(Op) /\ DOMAIN <<>> = {}
  BY EmptySeq
<1> QED BY <1>1 DEF WellFormed, Light

\* What is left after the first operation is well formed.
LEMMA FormedTail ==
  ASSUME NEW ops \in Seq(Op), ops # <<>>, WellFormed(ops)
  PROVE  WellFormed(Tail(ops))
<1> HIDE DEF Op
<1> DEFINE y == Tail(ops)
<1>1. /\ Len(ops) \in Nat \ {0} /\ DOMAIN ops = 1..Len(ops)
      /\ Len(y) = Len(ops) - 1 /\ DOMAIN y = 1..(Len(ops) - 1)
      /\ \A i \in 1..(Len(ops) - 1) : y[i] = ops[i + 1]
  BY TailParts
<1> HIDE DEF y
<1> SUFFICES ASSUME NEW i \in 1..(Len(ops) - 1)
             PROVE  LET o == y[i]
                    IN  /\ i = Len(y) => MayEnd(o)
                        /\ i < Len(y) => Precedes(o, y[i + 1])
                        /\ Move(o) =>
                             /\ (o.slot # NoSlot) <=> (o.to = "SLOT_HELD")
                             /\ o.to = "SLOT_HELD" =>
                                  i + 2 \in DOMAIN y /\ y[i + 2].slot = o.slot
  BY <1>1 DEF WellFormed, y
<1>2. i + 1 \in DOMAIN ops /\ y[i] = ops[i + 1]
  BY <1>1
<1>3. i = Len(y) => i + 1 = Len(ops)
  BY <1>1
<1>4. i < Len(y) => i + 1 < Len(ops) /\ y[i + 1] = ops[(i + 1) + 1]
  BY <1>1
<1>5. (i + 1) + 2 \in DOMAIN ops =>
        i + 2 \in DOMAIN y /\ y[i + 2] = ops[(i + 1) + 2]
  BY <1>1
<1> QED BY <1>2, <1>3, <1>4, <1>5 DEF WellFormed

\* An operation in front of a well-formed sequence that may follow it.
LEMMA FormedCons ==
  ASSUME NEW o \in Op, NEW y \in Seq(Op), WellFormed(y),
         y = <<>> => MayEnd(o),
         y # <<>> => Precedes(o, y[1]),
         Move(o) => /\ (o.slot # NoSlot) <=> (o.to = "SLOT_HELD")
                    /\ o.to = "SLOT_HELD" => Len(y) >= 2 /\ y[2].slot = o.slot
  PROVE  <<o>> \o y \in Seq(Op) /\ WellFormed(<<o>> \o y)
<1> HIDE DEF Op
<1> DEFINE x == <<o>> \o y
<1>1. /\ Len(y) \in Nat /\ DOMAIN y = 1..Len(y)
      /\ x \in Seq(Op) /\ Len(x) = Len(y) + 1
      /\ DOMAIN x = 1..(Len(y) + 1) /\ x[1] = o
      /\ \A i \in 1..Len(y) : x[i + 1] = y[i]
      /\ y = <<>> <=> Len(y) = 0
  BY ConsParts
<1> HIDE DEF x
<1>2. ASSUME NEW i \in 1..(Len(y) + 1)
      PROVE  LET n == x[i]
             IN  /\ i = Len(x) => MayEnd(n)
                 /\ i < Len(x) => Precedes(n, x[i + 1])
                 /\ Move(n) =>
                      /\ (n.slot # NoSlot) <=> (n.to = "SLOT_HELD")
                      /\ n.to = "SLOT_HELD" =>
                           i + 2 \in DOMAIN x /\ x[i + 2].slot = n.slot
  <2>1. CASE i = 1
    <3>1. 1 = Len(x) => y = <<>>
      BY <1>1
    <3>2. 1 < Len(x) => y # <<>> /\ x[2] = y[1]
      BY <1>1
    <3>3. Len(y) >= 2 => 3 \in DOMAIN x /\ x[3] = y[2]
      BY <1>1
    <3> QED BY <1>1, <2>1, <3>1, <3>2, <3>3
  <2>2. CASE i # 1
    <3> DEFINE j == i - 1
    <3>1. j \in DOMAIN y /\ j \in 1..Len(y) /\ i = j + 1 /\ x[i] = y[j]
      BY <1>1, <2>2
    <3>2. i = Len(x) => j = Len(y)
      BY <1>1, <2>2
    <3>3. i < Len(x) => j < Len(y) /\ x[i + 1] = y[j + 1]
      BY <1>1, <2>2
    <3>4. j + 2 \in DOMAIN y => i + 2 \in DOMAIN x /\ x[i + 2] = y[j + 2]
      BY <1>1, <2>2
    <3> HIDE DEF j
    <3> QED BY <3>1, <3>2, <3>3, <3>4 DEF WellFormed
  <2>3. i = 1 \/ i # 1
    OBVIOUS
  <2> QED BY <2>1, <2>2, <2>3
<1>3. WellFormed(x)
  BY <1>1, <1>2 DEF WellFormed
<1> QED BY <1>1, <1>3 DEF x

\* The first operations of a well-formed sequence.
LEMMA FormedHead ==
  ASSUME NEW ops \in Seq(Op), ops # <<>>, WellFormed(ops)
  PROVE  /\ Tail(ops) = <<>> => MayEnd(ops[1])
         /\ Tail(ops) # <<>> => /\ Precedes(ops[1], Tail(ops)[1])
                                /\ Tail(ops)[1] = ops[2] /\ ops[2] \in Op
         /\ Move(ops[1]) =>
              /\ (ops[1].slot # NoSlot) <=> (ops[1].to = "SLOT_HELD")
              /\ ops[1].to = "SLOT_HELD" =>
                   /\ Len(Tail(ops)) >= 2 /\ Tail(ops)[2] = ops[3]
                   /\ ops[3].slot = ops[1].slot
<1> HIDE DEF Op
<1>1. /\ Len(ops) \in Nat \ {0} /\ DOMAIN ops = 1..Len(ops)
      /\ Tail(ops) \in Seq(Op) /\ Len(Tail(ops)) = Len(ops) - 1
      /\ DOMAIN Tail(ops) = 1..(Len(ops) - 1)
      /\ \A i \in 1..(Len(ops) - 1) : Tail(ops)[i] = ops[i + 1]
      /\ Tail(ops) = <<>> <=> Len(ops) = 1
  BY TailParts
<1>2. 1 \in DOMAIN ops /\ (1 = Len(ops) <=> Tail(ops) = <<>>)
  BY <1>1
<1>3. Tail(ops) # <<>> => 1 < Len(ops) /\ Tail(ops)[1] = ops[2] /\ ops[2] \in Op
  <2>1. Tail(ops) # <<>> => 1 < Len(ops) /\ 1 \in 1..(Len(ops) - 1) /\ 2 \in DOMAIN ops
    BY <1>1
  <2> QED BY <1>1, <2>1, ElementOfSeq
<1>4. 3 \in DOMAIN ops => Len(Tail(ops)) >= 2 /\ Tail(ops)[2] = ops[3]
  <2>1. 3 \in DOMAIN ops => 2 \in 1..(Len(ops) - 1) /\ Len(Tail(ops)) >= 2
    BY <1>1
  <2> QED BY <1>1, <2>1
<1>5. LET o == ops[1]
      IN  /\ 1 = Len(ops) => MayEnd(o)
          /\ 1 < Len(ops) => Precedes(o, ops[1 + 1])
          /\ Move(o) =>
               /\ (o.slot # NoSlot) <=> (o.to = "SLOT_HELD")
               /\ o.to = "SLOT_HELD" =>
                    1 + 2 \in DOMAIN ops /\ ops[1 + 2].slot = o.slot
  BY <1>2 DEF WellFormed
<1> QED BY <1>2, <1>3, <1>4, <1>5

---------------------------------------------------------------------------
(* What a coroutine comes to next. *)

\* The first operation is at the front, and alone if it is not quick.
LEMMA FrontFirst ==
  ASSUME NEW ops \in Seq(Op), ops # <<>>
  PROVE  /\ 1 \in DOMAIN ops /\ Front(ops, 1)
         /\ ~Quick(ops[1]) => \A i \in DOMAIN ops : Front(ops, i) => i = 1
<1>1. Len(ops) \in Nat \ {0} /\ DOMAIN ops = 1..Len(ops)
  BY TailParts
<1>2. 1 \in DOMAIN ops /\ \A k \in DOMAIN ops : ~(k < 1)
  BY <1>1
<1>3. \A i \in DOMAIN ops : i = 1 \/ 1 < i
  BY <1>1
<1> QED BY <1>2, <1>3 DEF Front

\* Behind a quick operation the rest is at the front as it will be.
LEMMA FrontRest ==
  ASSUME NEW o \in Op, NEW y \in Seq(Op), Quick(o)
  PROVE  \A i \in DOMAIN y : Front(<<o>> \o y, i + 1) <=> Front(y, i)
<1> HIDE DEF Op
<1> DEFINE x == <<o>> \o y
<1>1. /\ Len(y) \in Nat /\ DOMAIN y = 1..Len(y)
      /\ DOMAIN x = 1..(Len(y) + 1) /\ x[1] = o
      /\ \A i \in 1..Len(y) : x[i + 1] = y[i]
  BY ConsParts
<1> HIDE DEF x
<1> SUFFICES ASSUME NEW i \in DOMAIN y
             PROVE  Front(x, i + 1) <=> Front(y, i)
  BY DEF x
<1>2. i \in 1..Len(y) /\ i + 1 \in DOMAIN x
  BY <1>1
<1>3. ASSUME Front(x, i + 1)
      PROVE  Front(y, i)
  <2>1. ASSUME NEW k \in DOMAIN y, k < i
        PROVE  Quick(y[k])
    <3>1. k + 1 \in DOMAIN x /\ k + 1 < i + 1 /\ x[k + 1] = y[k]
      BY <1>1, <1>2, <2>1
    <3> QED BY <1>3, <3>1 DEF Front
  <2> QED BY <2>1 DEF Front
<1>4. ASSUME Front(y, i)
      PROVE  Front(x, i + 1)
  <2>1. ASSUME NEW k \in DOMAIN x, k < i + 1
        PROVE  Quick(x[k])
    <3>1. CASE k = 1
      BY <1>1, <3>1
    <3>2. CASE k # 1
      <4>1. k - 1 \in DOMAIN y /\ k - 1 < i /\ x[k] = y[k - 1]
        BY <1>1, <1>2, <2>1, <3>2
      <4> QED BY <1>4, <4>1 DEF Front
    <3>3. k = 1 \/ k # 1
      OBVIOUS
    <3> QED BY <3>1, <3>2, <3>3
  <2> QED BY <1>2, <2>1 DEF Front
<1> QED BY <1>3, <1>4

\* A sequence is its first operation and the rest.
LEMMA Split ==
  ASSUME NEW ops \in Seq(Op), ops # <<>>
  PROVE  ops = <<ops[1]>> \o Tail(ops) /\ ops[1] \in Op /\ Tail(ops) \in Seq(Op)
<1> HIDE DEF Op
<1>1. /\ Len(ops) \in Nat \ {0} /\ DOMAIN ops = 1..Len(ops)
      /\ ops[1] \in Op /\ Tail(ops) \in Seq(Op)
      /\ Len(Tail(ops)) = Len(ops) - 1
      /\ \A i \in 1..(Len(ops) - 1) : Tail(ops)[i] = ops[i + 1]
  BY TailParts
<1> DEFINE x == <<ops[1]>> \o Tail(ops)
<1>2. /\ x \in Seq(Op) /\ Len(x) = Len(ops) /\ x[1] = ops[1]
      /\ \A i \in 1..Len(Tail(ops)) : x[i + 1] = Tail(ops)[i]
  BY <1>1, ConsParts
<1> HIDE DEF x
<1>3. ASSUME NEW i \in 1..Len(ops)
      PROVE  x[i] = ops[i]
  <2>1. CASE i = 1
    BY <1>2, <2>1
  <2>2. CASE i # 1
    <3>1. i - 1 \in 1..Len(Tail(ops)) /\ i - 1 \in 1..(Len(ops) - 1)
          /\ (i - 1) + 1 = i
      BY <1>1, <2>2
    <3> QED BY <1>1, <1>2, <3>1
  <2> QED BY <2>1, <2>2
<1>4. x = ops
  BY <1>2, <1>3, SeqEqual
<1> QED BY <1>1, <1>4 DEF x

\* What comes next in a sequence, by its first operation.
LEMMA HeadsCons ==
  ASSUME NEW o \in Op, NEW y \in Seq(Op)
  PROVE  Heads(<<o>> \o y) = {o} \cup (IF Quick(o) THEN Heads(y) ELSE {})
<1> HIDE DEF Op
<1> DEFINE x == <<o>> \o y
<1>1. /\ Len(y) \in Nat /\ DOMAIN y = 1..Len(y)
      /\ x \in Seq(Op) /\ x # <<>>
      /\ DOMAIN x = 1..(Len(y) + 1) /\ x[1] = o
      /\ \A i \in 1..Len(y) : x[i + 1] = y[i]
  BY ConsParts
<1>2. /\ 1 \in DOMAIN x /\ Front(x, 1)
      /\ ~Quick(o) => \A i \in DOMAIN x : Front(x, i) => i = 1
  BY <1>1, FrontFirst
<1>3. Quick(o) => \A i \in DOMAIN y : Front(x, i + 1) <=> Front(y, i)
  BY FrontRest
<1> HIDE DEF x
<1>4. o \in Heads(x)
  BY <1>1, <1>2 DEF Heads
<1>5. ASSUME Quick(o), NEW n \in Heads(y)
      PROVE  n \in Heads(x)
  <2>1. PICK i \in DOMAIN y : Front(y, i) /\ n = y[i]
    BY <1>5 DEF Heads
  <2>2. i + 1 \in DOMAIN x /\ x[i + 1] = n /\ Front(x, i + 1)
    BY <1>1, <1>3, <1>5, <2>1
  <2> QED BY <2>2 DEF Heads
<1>6. ASSUME NEW n \in Heads(x), n # o
      PROVE  Quick(o) /\ n \in Heads(y)
  <2>1. PICK i \in DOMAIN x : Front(x, i) /\ n = x[i]
    BY <1>6 DEF Heads
  <2>2. i # 1 /\ Quick(o)
    BY <1>1, <1>2, <1>6, <2>1
  <2>3. i - 1 \in DOMAIN y /\ (i - 1) + 1 = i
    BY <1>1, <2>2
  <2>4. x[i] = y[i - 1]
    BY <1>1, <2>3
  <2>5. Front(y, i - 1)
    BY <1>3, <2>1, <2>2, <2>3
  <2> QED BY <2>1, <2>2, <2>3, <2>4, <2>5 DEF Heads
<1> QED BY <1>4, <1>5, <1>6 DEF x

\* The same for a sequence taken apart.
LEMMA HeadsSplit ==
  ASSUME NEW ops \in Seq(Op), ops # <<>>
  PROVE  Heads(ops) =
           {ops[1]} \cup (IF Quick(ops[1]) THEN Heads(Tail(ops)) ELSE {})
<1> HIDE DEF Op
<1> QED BY Split, HeadsCons

\* Nothing comes next when nothing is left.
LEMMA HeadsNil == Heads(<<>>) = {}
<1>1. DOMAIN <<>> = {}
  BY EmptySeq
<1> QED BY <1>1 DEF Heads

---------------------------------------------------------------------------
(* The tables and the operation that comes next. *)

\* A first operation that is not quick is all there is to link.
LEMMA LinkedSlow ==
  ASSUME NEW ops \in Seq(Op), ops # <<>>, ~Quick(ops[1])
  PROVE  (Linked(ops) <=> Ready(ops, 1)) /\ (Linked(ops)' <=> Ready(ops, 1)')
BY FrontFirst DEF Linked

\* A light coroutine asks nothing of the tables, nor does an idle one.
LEMMA LinkedLight ==
  ASSUME NEW ops \in Seq(Op), Light(ops)
  PROVE  Linked(ops) /\ Linked(ops)'
<1> HIDE DEF Op
<1>1. CASE ops = <<>>
  <2>1. DOMAIN ops = {}
    BY <1>1, EmptySeq
  <2> QED BY <2>1 DEF Linked
<1>2. CASE ops # <<>>
  <2>1. \/ ops[1].op = "ack"
        \/ ops[1].op = "read" /\ ops[1].to = "AGENT_UNREACHABLE"
    BY <1>2 DEF Light
  <2>2. ~Quick(ops[1]) /\ Ready(ops, 1) /\ Ready(ops, 1)'
    BY <2>1 DEF Quick, Ready, Move
  <2> QED BY <1>2, <2>2, LinkedSlow
<1> QED BY <1>1, <1>2

\* What follows an operation on another table asks nothing of the tables.
LEMMA LinkedBegins ==
  ASSUME NEW ops \in Seq(Op), ops # <<>>, WellFormed(ops),
         First(ops[1]), ~Move(ops[1])
  PROVE  Linked(Tail(ops)) /\ Linked(Tail(ops))'
<1> HIDE DEF Op
<1> DEFINE y == Tail(ops)
<1>1. y \in Seq(Op) /\ (y # <<>> => Precedes(ops[1], y[1]))
  BY TailParts, FormedHead
<1> HIDE DEF y
<1>2. CASE y = <<>>
  BY <1>1, <1>2, LinkedLight DEF Light, y
<1>3. CASE y # <<>>
  <2>1. \/ y[1].op = "resume"
        \/ y[1].op = "read" /\ y[1].to # "PA_PENDING"
    BY <1>1, <1>3 DEF Precedes
  <2>2. ~Quick(y[1]) /\ Ready(y, 1) /\ Ready(y, 1)'
    BY <2>1 DEF Quick, Ready, Move
  <2> QED BY <1>1, <1>3, <2>2, LinkedSlow DEF y
<1> QED BY <1>2, <1>3

\* A move to PA_PENDING is never the last operation.
LEMMA PendingGoesOn ==
  ASSUME NEW o, Move(o), o.to = "PA_PENDING"
  PROVE  ~MayEnd(o)
BY DEF MayEnd, Resting, Terminal, VALID_TRANSITIONS

\* An operation after a commit in front of one that is linked.
LEMMA LinkedCons ==
  ASSUME NEW o \in Op, Quick(o), row'[o.p].state = o.to,
         NEW y \in Seq(Op), WellFormed(y), Linked(y)'
  PROVE  Linked(<<o>> \o y)'
<1> HIDE DEF Op
<1> DEFINE x == <<o>> \o y
<1>1. /\ Len(y) \in Nat /\ DOMAIN y = 1..Len(y)
      /\ DOMAIN x = 1..(Len(y) + 1) /\ x[1] = o
      /\ \A i \in 1..Len(y) : x[i + 1] = y[i]
  BY ConsParts
<1>2. \A i \in DOMAIN y : Front(x, i + 1) <=> Front(y, i)
  BY FrontRest
<1> HIDE DEF x
<1>3. ASSUME NEW i \in DOMAIN x, Front(x, i)
      PROVE  Ready(x, i)'
  <2>1. CASE i = 1
    BY <1>1, <2>1 DEF Ready, Quick, Move
  <2>2. CASE i # 1
    <3> DEFINE j == i - 1
    <3>1. j \in DOMAIN y /\ j \in 1..Len(y) /\ i = j + 1 /\ x[i] = y[j]
      BY <1>1, <2>2
    <3>2. j < Len(y) => x[i + 1] = y[j + 1]
      <4>1. j < Len(y) => j + 1 \in 1..Len(y) /\ i + 1 = (j + 1) + 1
        BY <1>1, <3>1
      <4> QED BY <1>1, <4>1
    <3>3. j = Len(y) \/ j < Len(y)
      BY <1>1, <3>1
    <3> HIDE DEF j
    <3>4. Move(y[j]) /\ y[j].to = "PA_PENDING" => x[i + 1] = y[j + 1]
      BY <3>1, <3>2, <3>3, PendingGoesOn DEF WellFormed
    <3>5. Ready(y, j)'
      BY <1>2, <1>3, <3>1 DEF Linked
    <3> QED BY <3>1, <3>4, <3>5 DEF Ready
  <2> QED BY <2>1, <2>2
<1> QED BY <1>3 DEF Linked, x

\* What is left after an operation that follows a commit.
LEMMA LinkedRest ==
  ASSUME NEW ops \in Seq(Op), ops # <<>>, WellFormed(ops), Quick(ops[1]),
         Linked(ops), UNCHANGED <<row, queue, appts>>
  PROVE  Linked(Tail(ops))'
<1> HIDE DEF Op
<1> DEFINE y == Tail(ops)
           o == ops[1]
<1>1. /\ o \in Op /\ y \in Seq(Op) /\ ops = <<o>> \o y
      /\ Len(ops) \in Nat \ {0} /\ DOMAIN ops = 1..Len(ops)
      /\ Len(y) = Len(ops) - 1 /\ DOMAIN y = 1..(Len(ops) - 1)
      /\ \A i \in 1..(Len(ops) - 1) : y[i] = ops[i + 1]
  BY TailParts, Split
<1>2. \A i \in DOMAIN y : Front(<<o>> \o y, i + 1) <=> Front(y, i)
  BY <1>1, FrontRest
<1> HIDE DEF y, o
<1>3. ASSUME NEW i \in DOMAIN y, Front(y, i)
      PROVE  Ready(y, i)'
  <2>1. Front(ops, i + 1) /\ i + 1 \in DOMAIN ops /\ y[i] = ops[i + 1]
    BY <1>1, <1>2, <1>3
  <2>2. Ready(ops, i + 1)
    BY <2>1 DEF Linked
  <2>3. Move(ops[i + 1]) /\ ops[i + 1].to = "PA_PENDING" => i + 1 # Len(ops)
    BY <2>1, PendingGoesOn DEF WellFormed
  <2>4. i + 1 # Len(ops) => y[i + 1] = ops[(i + 1) + 1]
    BY <1>1, <2>1
  <2>5. Waiting' = Waiting
    BY DEF Waiting
  <2> QED BY <2>1, <2>2, <2>3, <2>4, <2>5 DEF Ready
<1> QED BY <1>3 DEF Linked, y

---------------------------------------------------------------------------
(* The handlers are well formed. *)

\* The well-formed sequences.
Formed == {x \in Seq(Op) : WellFormed(x)}

\* A handler that starts with o asks nothing of the tables.
Opens(o) ==
  \/ o.op \in {"create", "droplog", "queue_select", "mark"}
  \/ o.op = "read" /\ o.to # "PA_PENDING"
  \/ o.op = "post" /\ o.slot = NoSlot

\* What such a handler has left is linked, whatever a step does.
LEMMA LinkedOpens ==
  ASSUME NEW x \in Seq(Op), x # <<>> => Opens(x[1])
  PROVE  Linked(x) /\ Linked(x)'
<1> HIDE DEF Op
<1>1. CASE x = <<>>
  BY <1>1, LinkedLight DEF Light
<1>2. CASE x # <<>>
  <2>1. ~Quick(x[1]) /\ Ready(x, 1) /\ Ready(x, 1)'
    BY <1>2 DEF Opens, Quick, Ready, Move
  <2> QED BY <1>2, <2>1, LinkedSlow
<1> QED BY <1>1, <1>2

\* The operation of a transition.
ReadOf(p, s, slot) == [op |-> "read", p |-> p, to |-> s, slot |-> slot]

\* It is an operation.
LEMMA ReadOfType ==
  ASSUME NEW p \in Pipeline, NEW s \in Target, NEW slot \in Slot \cup {NoSlot}
  PROVE  ReadOf(p, s, slot) \in Op
BY DEF ReadOf, ReadOp, ScriptOp, Op

\* What follows a move is not first, and no move to AGENT_UNREACHABLE.
LEMMA FollowsPrecedes ==
  ASSUME NEW o, Move(o), NEW n, Follows(n, o.p, o.to)
  PROVE  Precedes(o, n)
<1>1. n.op \in {"read", "post", "book", "top"}
  BY DEF Follows
<1>2. ~Quick(n) /\ ~First(n) /\ ~Last(o) /\ n.op # "resume"
      /\ o.op \notin {"create", "insert"}
  BY <1>1 DEF Quick, First, Last, Move
<1>3. ~(Move(n) /\ n.to = "AGENT_UNREACHABLE")
  BY <1>1 DEF Follows, Move, VALID_TRANSITIONS
<1> QED BY <1>2, <1>3 DEF Precedes

\* A transition in front of what follows it.
LEMMA FormedMove ==
  ASSUME NEW p \in Pipeline, NEW s \in Target, NEW slot \in Slot \cup {NoSlot},
         NEW y \in Formed,
         y = <<>> => s \in Resting \ {"BOOKED"},
         y # <<>> => Follows(y[1], p, s),
         (slot # NoSlot) <=> (s = "SLOT_HELD"),
         s = "SLOT_HELD" => Len(y) >= 2 /\ y[2].slot = slot
  PROVE  /\ TransitionWith(p, s, slot) \o y \in Formed
         /\ TransitionWith(p, s, slot) \o y # <<>>
         /\ Len(TransitionWith(p, s, slot) \o y) = Len(y) + 1
         /\ (TransitionWith(p, s, slot) \o y)[1] = ReadOf(p, s, slot)
         /\ y # <<>> => (TransitionWith(p, s, slot) \o y)[2] = y[1]
<1> DEFINE o == ReadOf(p, s, slot)
<1>1. o \in Op
  BY ReadOfType
<1>2. o.op = "read" /\ o.p = p /\ o.to = s /\ o.slot = slot
  BY DEF ReadOf
<1>3. TransitionWith(p, s, slot) = <<o>>
  BY DEF TransitionWith, ReadOf
<1> HIDE DEF o, Op
<1>4. y \in Seq(Op) /\ WellFormed(y)
  BY DEF Formed
<1>5. y = <<>> => MayEnd(o)
  BY <1>2 DEF MayEnd
<1>6. y # <<>> => Precedes(o, y[1])
  BY <1>2, FollowsPrecedes DEF Move
<1>7. <<o>> \o y \in Seq(Op) /\ WellFormed(<<o>> \o y)
  BY <1>1, <1>2, <1>4, <1>5, <1>6, FormedCons
<1>8. /\ <<o>> \o y # <<>> /\ Len(<<o>> \o y) = Len(y) + 1
      /\ (<<o>> \o y)[1] = o
      /\ y # <<>> => (<<o>> \o y)[2] = y[1]
  <2>1. /\ <<o>> \o y # <<>> /\ Len(<<o>> \o y) = Len(y) + 1 /\ Len(y) \in Nat
        /\ (<<o>> \o y)[1] = o
        /\ \A i \in 1..Len(y) : (<<o>> \o y)[i + 1] = y[i]
        /\ y = <<>> <=> Len(y) = 0
    BY <1>1, <1>4, ConsParts
  <2>2. y # <<>> => 1 \in 1..Len(y)
    BY <2>1
  <2> QED BY <2>1, <2>2
<1> QED BY <1>3, <1>7, <1>8 DEF Formed, o

\* So is nothing at all.
LEMMA FormedEmpty == <<>> \in Formed
BY FormedNil DEF Formed

\* A single operation that may come last is well formed.
LEMMA FormedOne ==
  ASSUME NEW o \in Op, MayEnd(o), ~Move(o)
  PROVE  /\ <<o>> \in Formed /\ <<o>> # <<>> /\ <<o>>[1] = o /\ Len(<<o>>) = 1
<1> HIDE DEF Op
<1>1. <<o>> \o <<>> \in Seq(Op) /\ WellFormed(<<o>> \o <<>>)
  BY FormedNil, FormedCons
<1>2. <<o>> \in Seq(Op) /\ <<o>> \o <<>> = <<o>>
  BY ConcatEmptySeq
<1> QED BY <1>1, <1>2 DEF Formed

\* So is a dispatch.
LEMMA FormedPost ==
  ASSUME NEW g \in Agent, NEW p \in Pipeline, NEW slot \in Slot \cup {NoSlot},
         NEW owner \in Pipeline \cup {NoPipeline}
  PROVE  LET y == DispatchWith(g, p, slot, owner)
         IN  /\ y \in Formed /\ y # <<>> /\ Len(y) = 1
             /\ y[1].op = "post" /\ y[1].p = p /\ y[1].agent = g
             /\ y[1].slot = slot
<1> DEFINE o == [op |-> "post", agent |-> g, p |-> p, slot |-> slot,
                 owner |-> owner]
<1>1. o \in Op
  BY DEF CallOp, ScriptOp, Op
<1>2. MayEnd(o) /\ ~Move(o)
  BY DEF MayEnd, Move
<1>3. o.op = "post" /\ o.p = p /\ o.agent = g /\ o.slot = slot
  OBVIOUS
<1>4. DispatchWith(g, p, slot, owner) = <<o>>
  BY DEF DispatchWith
<1> HIDE DEF o
<1> QED BY <1>1, <1>2, <1>3, <1>4, FormedOne

\* A transition and the call that follows it.
LEMMA FormedAsk ==
  ASSUME NEW p \in Pipeline, NEW s \in Target \ {"SLOT_HELD"},
         NEW g \in Awaited(s), g \in Agent,
         NEW slot \in Slot \cup {NoSlot},
         NEW owner \in Pipeline \cup {NoPipeline},
         (slot # NoSlot) <=> (s = "PA_PENDING")
  PROVE  LET x == Transition(p, s) \o DispatchWith(g, p, slot, owner)
         IN  /\ x \in Formed /\ x # <<>> /\ Len(x) = 2
             /\ x[1] = ReadOf(p, s, NoSlot)
             /\ x[2].slot = slot
<1> DEFINE y == DispatchWith(g, p, slot, owner)
<1>1. /\ y \in Formed /\ y # <<>> /\ Len(y) = 1
      /\ y[1].op = "post" /\ y[1].p = p /\ y[1].agent = g /\ y[1].slot = slot
  BY FormedPost
<1>2. Follows(y[1], p, s)
  BY <1>1 DEF Follows
<1> HIDE DEF y
<1>3. s \in Target /\ s # "SLOT_HELD" /\ NoSlot \in Slot \cup {NoSlot}
  OBVIOUS
<1> DEFINE x == TransitionWith(p, s, NoSlot) \o y
<1>4. /\ x \in Formed /\ x # <<>> /\ Len(x) = Len(y) + 1
      /\ x[1] = ReadOf(p, s, NoSlot)
      /\ y # <<>> => x[2] = y[1]
  <2>1. y \in Formed /\ y # <<>>
    BY <1>1
  <2> HIDE DEF x
  <2> QED BY <1>2, <1>3, <2>1, FormedMove, Zenon DEF x
<1> QED BY <1>1, <1>4 DEF Transition, y

\* The transitions that are followed by another one.
LEMMA FormedThen ==
  ASSUME NEW p \in Pipeline, NEW s \in Target \ {"SLOT_HELD", "PA_PENDING"},
         NEW n \in VALID_TRANSITIONS(s), NEW y \in Formed, y # <<>>,
         y[1] = ReadOf(p, n, NoSlot)
  PROVE  LET x == Transition(p, s) \o y
         IN  x \in Formed /\ x # <<>> /\ x[1] = ReadOf(p, s, NoSlot)
<1>1. Follows(y[1], p, s)
  BY DEF Follows, ReadOf
<1> QED BY <1>1, FormedMove DEF Transition

\* Three parts in a row, from the right.
LEMMA Regroup ==
  ASSUME NEW x \in Seq(Op), NEW y \in Seq(Op), NEW z \in Seq(Op)
  PROVE  (x \o y) \o z = x \o (y \o z)
<1> HIDE DEF Op
<1> QED BY ConcatAssociative

\* The parts are sequences of operations.
LEMMA PartsType ==
  /\ \A p \in Pipeline, s \in Target : Transition(p, s) \in Seq(Op)
  /\ \A p \in Pipeline, s \in Target, slot \in Slot \cup {NoSlot} :
       TransitionWith(p, s, slot) \in Seq(Op)
  /\ \A g \in Agent, p \in Pipeline, slot \in Slot \cup {NoSlot},
        owner \in Pipeline \cup {NoPipeline} :
       DispatchWith(g, p, slot, owner) \in Seq(Op)
<1>1. Seq(ScriptOp) \subseteq Seq(Op)
  <2>1. ScriptOp \subseteq Op
    BY DEF Op
  <2> QED BY <2>1, SeqMonotonic
<1> HIDE DEF Op
<1>2. ASSUME NEW p \in Pipeline, NEW s \in Target,
             NEW slot \in Slot \cup {NoSlot}
      PROVE  TransitionWith(p, s, slot) \in Seq(Op)
  BY <1>1, TransitionType
<1>3. ASSUME NEW g \in Agent, NEW p \in Pipeline,
             NEW slot \in Slot \cup {NoSlot},
             NEW owner \in Pipeline \cup {NoPipeline}
      PROVE  DispatchWith(g, p, slot, owner) \in Seq(Op)
  BY <1>1, DispatchType
<1> QED BY <1>2, <1>3 DEF Transition

\* The same for four.
LEMMA RegroupFour ==
  ASSUME NEW w \in Seq(Op), NEW x \in Seq(Op), NEW y \in Seq(Op),
         NEW z \in Seq(Op)
  PROVE  ((w \o x) \o y) \o z = w \o (x \o (y \o z))
<1> HIDE DEF Op
<1>1. \A a, b, c \in Seq(Op) : (a \o b) \o c = a \o (b \o c)
  BY Regroup, Zenon
<1>2. w \o x \in Seq(Op)
  BY ConcatProperties
<1>3. y \o z \in Seq(Op)
  BY ConcatProperties
<1>4. ((w \o x) \o y) \o z = (w \o x) \o (y \o z)
  BY <1>1, <1>2, Zenon
<1>5. (w \o x) \o (y \o z) = w \o (x \o (y \o z))
  BY <1>1, <1>3, Zenon
<1> QED BY <1>4, <1>5, Zenon

\* An operation of its own in front of three.
LEMMA FourParts ==
  ASSUME NEW o \in Op, NEW x \in Seq(Op), NEW y \in Seq(Op), NEW z \in Seq(Op)
  PROVE  ((<<o>> \o x) \o y) \o z = <<o>> \o (x \o (y \o z))
<1> DEFINE w == <<o>>
<1>1. w \in Seq(Op)
  OBVIOUS
<1> HIDE DEF w
<1>2. \A a, b, c \in Seq(Op) : ((w \o a) \o b) \o c = w \o (a \o (b \o c))
  BY <1>1, RegroupFour, Zenon
<1> QED BY <1>2 DEF w

\* A last transition.
LEMMA FormedEnd ==
  ASSUME NEW p \in Pipeline,
         NEW s \in {"DROPPED_DUPLICATE", "DROPPED_NOT_VERIFIED",
                    "DROPPED_WITHIN_90_DAYS", "NO_SLOTS_REQUEUE",
                    "PA_REJECTED", "AGENT_UNREACHABLE"}
  PROVE  LET x == Transition(p, s)
         IN  x \in Formed /\ x # <<>> /\ x[1] = ReadOf(p, s, NoSlot)
             /\ Len(x) = 1
<1>1. s \in Target /\ s \in Resting \ {"BOOKED"}
  BY DEF Target, State, Resting, Terminal, VALID_TRANSITIONS
<1> DEFINE o == ReadOf(p, s, NoSlot)
<1>2. o \in Op
  BY <1>1, ReadOfType
<1>3. o.op = "read" /\ o.to = s /\ o.slot = NoSlot
  BY DEF ReadOf
<1>4. Transition(p, s) = <<o>>
  BY DEF Transition, TransitionWith, ReadOf
<1> HIDE DEF o, Op
<1>5. MayEnd(o)
  BY <1>1, <1>3 DEF MayEnd, Move
<1>6. <<o>> \o <<>> \in Seq(Op) /\ WellFormed(<<o>> \o <<>>)
  BY <1>2, <1>3, <1>5, FormedNil, FormedCons
<1>7. <<o>> \in Seq(Op) /\ <<o>> \o <<>> = <<o>> /\ <<o>> # <<>>
      /\ <<o>>[1] = o /\ Len(<<o>>) = 1
  BY <1>2, ConcatEmptySeq
<1> QED BY <1>4, <1>6, <1>7 DEF Formed, o

\* The calls and the states they follow.
LEMMA FormedAsks ==
  ASSUME NEW p \in Pipeline, NEW owner \in Pipeline \cup {NoPipeline}
  PROVE  \A c \in {<<"DEDUP_CHECK", "dedup_guard">>,
                   <<"VERIFYING", "charity_verifier">>,
                   <<"ELIGIBILITY_CHECK", "eligibility">>,
                   <<"SCORING", "prioritizer">>,
                   <<"FINDING_SLOT", "calendar">>,
                   <<"CONFIRMATION_SENT", "email_composer">>,
                   <<"RSVP_PENDING", "rsvp_monitor">>} :
           LET x == Transition(p, c[1]) \o DispatchWith(c[2], p, NoSlot, owner)
           IN  x \in Formed /\ x # <<>> /\ x[1] = ReadOf(p, c[1], NoSlot)
<1>1. ASSUME NEW s \in Target \ {"SLOT_HELD", "PA_PENDING",
                                 "URGENT_ESCALATED_TO_PA"},
             NEW g \in Agent, g \in Awaited(s)
      PROVE  LET x == Transition(p, s) \o DispatchWith(g, p, NoSlot, owner)
             IN  x \in Formed /\ x # <<>> /\ x[1] = ReadOf(p, s, NoSlot)
  BY <1>1, FormedAsk
<1>2. /\ {"DEDUP_CHECK", "VERIFYING", "ELIGIBILITY_CHECK", "SCORING",
          "FINDING_SLOT", "CONFIRMATION_SENT", "RSVP_PENDING"}
           \subseteq Target \ {"SLOT_HELD", "PA_PENDING",
                               "URGENT_ESCALATED_TO_PA"}
      /\ {"dedup_guard", "charity_verifier", "eligibility", "prioritizer",
          "calendar", "email_composer", "rsvp_monitor"} \subseteq Agent
      /\ "dedup_guard" \in Awaited("DEDUP_CHECK")
      /\ "charity_verifier" \in Awaited("VERIFYING")
      /\ "eligibility" \in Awaited("ELIGIBILITY_CHECK")
      /\ "prioritizer" \in Awaited("SCORING")
      /\ "calendar" \in Awaited("FINDING_SLOT")
      /\ "email_composer" \in Awaited("CONFIRMATION_SENT")
      /\ "rsvp_monitor" \in Awaited("RSVP_PENDING")
  BY Targets DEF Awaited, Agent
<1> QED BY <1>1, <1>2

\* Reads that open a handler.
LEMMA ReadOpens ==
  ASSUME NEW p, NEW s, s # "PA_PENDING", NEW slot
  PROVE  Opens(ReadOf(p, s, slot)) /\ ~Quick(ReadOf(p, s, slot))
BY DEF Opens, ReadOf, Quick

\* What is left of handle_email_classified after the read.
LEMMA ResumeFormed ==
  ASSUME NEW p \in Pipeline, NEW s
  PROVE  LET x == Resume(p, s)
         IN  /\ x \in Formed /\ (x # <<>> => Opens(x[1]))
             /\ s = "EMAIL_RECEIVED" =>
                  x # <<>> /\ x[1] = ReadOf(p, "CLASSIFYING", NoSlot)
<1> DEFINE a == Transition(p, "CLASSIFYING")
           b == Transition(p, "DEDUP_CHECK")
           c == DispatchWith("dedup_guard", p, NoSlot, NoPipeline)
<1>1. a \in Seq(Op) /\ b \in Seq(Op) /\ c \in Seq(Op) /\ <<>> \in Seq(Op)
  BY PartsType, Targets, EmptySeq DEF Agent
<1>2. b \o c \in Formed /\ b \o c # <<>>
      /\ (b \o c)[1] = ReadOf(p, "DEDUP_CHECK", NoSlot)
  <2>1. <<"DEDUP_CHECK", "dedup_guard">>[1] = "DEDUP_CHECK"
        /\ <<"DEDUP_CHECK", "dedup_guard">>[2] = "dedup_guard"
    OBVIOUS
  <2> QED BY <2>1, FormedAsks
<1>3. c \in Formed /\ c # <<>> /\ c[1].op = "post" /\ c[1].slot = NoSlot
  BY FormedPost DEF Agent
<1>4. a \o (b \o c) \in Formed /\ a \o (b \o c) # <<>>
      /\ (a \o (b \o c))[1] = ReadOf(p, "CLASSIFYING", NoSlot)
  <2>1. "CLASSIFYING" \in Target \ {"SLOT_HELD", "PA_PENDING"}
        /\ "DEDUP_CHECK" \in VALID_TRANSITIONS("CLASSIFYING")
    BY Targets DEF VALID_TRANSITIONS
  <2> HIDE DEF b, c
  <2> QED BY <1>2, <2>1, FormedThen
<1> HIDE DEF a, b, c, Op
<1>5. CASE s = "EMAIL_RECEIVED"
  <2>1. Resume(p, s) = (a \o b) \o c
    BY <1>5 DEF Resume, a, b, c
  <2>2. Resume(p, s) = a \o (b \o c)
    BY <1>1, <2>1, Regroup
  <2> QED BY <1>4, <2>2, ReadOpens
<1>6. CASE s = "CLASSIFYING"
  <2>1. Resume(p, s) = (<<>> \o b) \o c
    BY <1>6 DEF Resume, a, b, c
  <2>2. Resume(p, s) = b \o c
    BY <1>1, <2>1, ConcatEmptySeq
  <2> QED BY <1>2, <1>6, <2>2, ReadOpens
<1>7. CASE s = "DEDUP_CHECK"
  <2>1. Resume(p, s) = (<<>> \o <<>>) \o c
    BY <1>7 DEF Resume, a, b, c
  <2>2. Resume(p, s) = c
    BY <1>1, <2>1, ConcatEmptySeq
  <2> QED BY <1>3, <1>7, <2>2 DEF Opens
<1>8. CASE s \notin {"EMAIL_RECEIVED", "CLASSIFYING", "DEDUP_CHECK"}
  <2>1. Resume(p, s) = (<<>> \o <<>>) \o <<>>
    BY <1>8 DEF Resume
  <2>2. Resume(p, s) = <<>>
    BY <1>1, <2>1, ConcatEmptySeq
  <2> QED BY <1>8, <2>2, FormedEmpty
<1> QED BY <1>5, <1>6, <1>7, <1>8

\* A first operation of its own in front of a transition.
LEMMA FormedBegin ==
  ASSUME NEW o \in Op, o.op \in {"queue_select", "mark"},
         NEW y \in Formed, y # <<>>, NEW p, NEW s,
         y[1] = ReadOf(p, s, NoSlot),
         s \notin {"PA_PENDING", "AGENT_UNREACHABLE"}
  PROVE  /\ <<o>> \o y \in Formed /\ <<o>> \o y # <<>>
         /\ (<<o>> \o y)[1] = o /\ Opens(o)
<1> HIDE DEF Op
<1>1. y \in Seq(Op) /\ WellFormed(y)
  BY DEF Formed
<1>2. ~Move(o) /\ Opens(o)
  BY DEF Move, Opens
<1>3. y[1].op = "read" /\ y[1].to = s
  BY DEF ReadOf
<1>4. Precedes(o, y[1])
  BY <1>3 DEF Precedes, First, Last, Quick, Move
<1>5. <<o>> \o y \in Seq(Op) /\ WellFormed(<<o>> \o y)
  BY <1>1, <1>2, <1>4, FormedCons
<1>6. <<o>> \o y # <<>> /\ (<<o>> \o y)[1] = o
  BY <1>1, ConsParts
<1> QED BY <1>2, <1>5, <1>6 DEF Formed

\* What is left of handle_rsvp_outcome after get_top_queue.
LEMMA PullFormed ==
  ASSUME NEW i \in Nat \ {0}, NEW p \in Pipeline, NEW owner \in Pipeline
  PROVE  LET x == PullNext(i, p, owner)
         IN  x \in Formed /\ x # <<>> /\ Opens(x[1])
<1> DEFINE o == [op |-> "mark", entry |-> i]
           a == Transition(p, "NEXT_IN_QUEUE_INVITED")
           b == Transition(p, "FINDING_SLOT")
           c == DispatchWith("calendar", p, NoSlot, owner)
<1>1. a \in Seq(Op) /\ b \in Seq(Op) /\ c \in Seq(Op)
  BY PartsType, Targets DEF Agent
<1>2. o \in Op /\ o.op = "mark" /\ <<o>> \in Seq(Op)
  <2>1. o \in MarkOp /\ o.op = "mark"
    BY DEF MarkOp
  <2> HIDE DEF o
  <2> QED BY <2>1 DEF ScriptOp, Op
<1>3. b \o c \in Formed /\ b \o c # <<>>
      /\ (b \o c)[1] = ReadOf(p, "FINDING_SLOT", NoSlot)
  <2>1. <<"FINDING_SLOT", "calendar">>[1] = "FINDING_SLOT"
        /\ <<"FINDING_SLOT", "calendar">>[2] = "calendar"
    OBVIOUS
  <2> QED BY <2>1, FormedAsks
<1>4. PullNext(i, p, owner) = ((<<o>> \o a) \o b) \o c
  BY DEF PullNext
<1> HIDE DEF b, c, o
<1>5. a \o (b \o c) \in Formed /\ a \o (b \o c) # <<>>
      /\ (a \o (b \o c))[1] = ReadOf(p, "NEXT_IN_QUEUE_INVITED", NoSlot)
  <2>1. "NEXT_IN_QUEUE_INVITED" \in Target \ {"SLOT_HELD", "PA_PENDING"}
        /\ "FINDING_SLOT" \in VALID_TRANSITIONS("NEXT_IN_QUEUE_INVITED")
    BY Targets DEF VALID_TRANSITIONS
  <2> QED BY <1>3, <2>1, FormedThen
<1> HIDE DEF a, Op
<1>6. ((<<o>> \o a) \o b) \o c = <<o>> \o (a \o (b \o c))
  <2>1. \A x, y, z \in Seq(Op) :
          ((<<o>> \o x) \o y) \o z = <<o>> \o (x \o (y \o z))
    BY <1>2, FourParts, Zenon
  <2> QED BY <1>1, <2>1, Zenon
<1> DEFINE y == a \o (b \o c)
<1>7. y \in Formed /\ y # <<>>
      /\ y[1] = ReadOf(p, "NEXT_IN_QUEUE_INVITED", NoSlot)
  BY <1>5
<1> HIDE DEF y
<1>8. <<o>> \o y \in Formed /\ <<o>> \o y # <<>>
      /\ (<<o>> \o y)[1] = o /\ Opens(o)
  BY <1>2, <1>7, FormedBegin
<1> QED BY <1>4, <1>6, <1>8 DEF y

\* What every handler is.
Script(x) == x \in Formed /\ (x # <<>> => Opens(x[1]))

\* The handlers with a single transition, or a transition and a call.
LEMMA ShortScripts ==
  ASSUME NEW p \in Pipeline
  PROVE  /\ \A s \in {"DROPPED_DUPLICATE", "DROPPED_NOT_VERIFIED",
                      "DROPPED_WITHIN_90_DAYS", "NO_SLOTS_REQUEUE",
                      "PA_REJECTED"} : Script(Transition(p, s))
         /\ Script(Transition(p, "VERIFYING") \o Dispatch("charity_verifier", p))
         /\ Script(Transition(p, "ELIGIBILITY_CHECK") \o Dispatch("eligibility", p))
         /\ Script(Transition(p, "SCORING") \o Dispatch("prioritizer", p))
         /\ Script(Transition(p, "RSVP_PENDING") \o Dispatch("rsvp_monitor", p))
         /\ Script(Transition(p, "URGENT_ESCALATED_TO_PA")
                     \o Dispatch("pa_notification", p))
<1>1. ASSUME NEW s \in {"DROPPED_DUPLICATE", "DROPPED_NOT_VERIFIED",
                        "DROPPED_WITHIN_90_DAYS", "NO_SLOTS_REQUEUE",
                        "PA_REJECTED"}
      PROVE  Script(Transition(p, s))
  <2>1. Transition(p, s) \in Formed
        /\ Transition(p, s)[1] = ReadOf(p, s, NoSlot)
    BY FormedEnd
  <2> QED BY <2>1, ReadOpens DEF Script
<1>2. ASSUME NEW s \in Target \ {"SLOT_HELD", "PA_PENDING"},
             NEW g \in Agent, g \in Awaited(s)
      PROVE  Script(Transition(p, s) \o Dispatch(g, p))
  <2> DEFINE x == Transition(p, s) \o DispatchWith(g, p, NoSlot, p)
  <2>1. x \in Formed /\ x[1] = ReadOf(p, s, NoSlot)
    BY <1>2, FormedAsk
  <2>2. x = Transition(p, s) \o Dispatch(g, p)
    BY DEF Dispatch
  <2> HIDE DEF x
  <2>3. Script(x)
    BY <2>1, ReadOpens DEF Script
  <2> QED BY <2>2, <2>3
<1>3. /\ {"VERIFYING", "ELIGIBILITY_CHECK", "SCORING", "RSVP_PENDING",
          "URGENT_ESCALATED_TO_PA"} \subseteq Target \ {"SLOT_HELD", "PA_PENDING"}
      /\ {"charity_verifier", "eligibility", "prioritizer", "rsvp_monitor",
          "pa_notification"} \subseteq Agent
      /\ "charity_verifier" \in Awaited("VERIFYING")
      /\ "eligibility" \in Awaited("ELIGIBILITY_CHECK")
      /\ "prioritizer" \in Awaited("SCORING")
      /\ "rsvp_monitor" \in Awaited("RSVP_PENDING")
      /\ "pa_notification" \in Awaited("URGENT_ESCALATED_TO_PA")
  BY Targets DEF Awaited, Agent
<1> QED BY <1>1, <1>2, <1>3

\* handle_pa_decision, and the end of handle_org_scored.
LEMMA LongScripts ==
  ASSUME NEW p \in Pipeline
  PROVE  /\ \A s \in {"PA_APPROVED", "AUTO_APPROVED"} :
              Script(Transition(p, s) \o Transition(p, "CONFIRMATION_SENT")
                       \o Dispatch("email_composer", p))
         /\ \A o \in Op : o.op = "queue_select" =>
              Script(<<o>> \o Transition(p, "IN_PRIORITY_QUEUE")
                       \o Transition(p, "FINDING_SLOT")
                       \o Dispatch("calendar", p))
<1>1. ASSUME NEW s \in {"PA_APPROVED", "AUTO_APPROVED"}
      PROVE  Script(Transition(p, s) \o Transition(p, "CONFIRMATION_SENT")
                      \o Dispatch("email_composer", p))
  <2> DEFINE a == Transition(p, s)
             b == Transition(p, "CONFIRMATION_SENT")
             c == DispatchWith("email_composer", p, NoSlot, p)
  <2>1. a \in Seq(Op) /\ b \in Seq(Op) /\ c \in Seq(Op)
        /\ c = Dispatch("email_composer", p)
    BY PartsType, Targets DEF Agent, Dispatch
  <2>2. b \o c \in Formed /\ b \o c # <<>>
        /\ (b \o c)[1] = ReadOf(p, "CONFIRMATION_SENT", NoSlot)
    <3>1. <<"CONFIRMATION_SENT", "email_composer">>[1] = "CONFIRMATION_SENT"
          /\ <<"CONFIRMATION_SENT", "email_composer">>[2] = "email_composer"
      OBVIOUS
    <3> QED BY <3>1, FormedAsks
  <2>3. s \in Target \ {"SLOT_HELD", "PA_PENDING"}
        /\ "CONFIRMATION_SENT" \in VALID_TRANSITIONS(s)
        /\ s # "URGENT_ESCALATED_TO_PA"
    BY Targets DEF VALID_TRANSITIONS
  <2> HIDE DEF b, c
  <2> DEFINE y == b \o c
  <2>4. y \in Formed /\ y # <<>> /\ y[1] = ReadOf(p, "CONFIRMATION_SENT", NoSlot)
    BY <2>2
  <2> HIDE DEF y
  <2>5. Transition(p, s) \o y \in Formed
        /\ (Transition(p, s) \o y)[1] = ReadOf(p, s, NoSlot)
    BY <2>3, <2>4, FormedThen
  <2>6. (a \o b) \o c = a \o (b \o c)
    <3> HIDE DEF a
    <3>1. \A x, z, w \in Seq(Op) : (x \o z) \o w = x \o (z \o w)
      BY Regroup, Zenon
    <3> QED BY <2>1, <3>1, Zenon
  <2>7. Script(a \o y)
    BY <2>3, <2>5, ReadOpens DEF Script
  <2>8. Script((a \o b) \o c)
    BY <2>6, <2>7 DEF y
  <2> QED BY <2>1, <2>8 DEF b
<1>2. ASSUME NEW o \in Op, o.op = "queue_select"
      PROVE  Script(<<o>> \o Transition(p, "IN_PRIORITY_QUEUE")
                      \o Transition(p, "FINDING_SLOT")
                      \o Dispatch("calendar", p))
  <2> DEFINE a == Transition(p, "IN_PRIORITY_QUEUE")
             b == Transition(p, "FINDING_SLOT")
             c == DispatchWith("calendar", p, NoSlot, p)
  <2>1. a \in Seq(Op) /\ b \in Seq(Op) /\ c \in Seq(Op)
        /\ c = Dispatch("calendar", p)
    BY PartsType, Targets DEF Agent, Dispatch
  <2>2. b \o c \in Formed /\ b \o c # <<>>
        /\ (b \o c)[1] = ReadOf(p, "FINDING_SLOT", NoSlot)
    <3>1. <<"FINDING_SLOT", "calendar">>[1] = "FINDING_SLOT"
          /\ <<"FINDING_SLOT", "calendar">>[2] = "calendar"
      OBVIOUS
    <3> QED BY <3>1, FormedAsks
  <2>3. "IN_PRIORITY_QUEUE" \in Target \ {"SLOT_HELD", "PA_PENDING"}
        /\ "FINDING_SLOT" \in VALID_TRANSITIONS("IN_PRIORITY_QUEUE")
    BY Targets DEF VALID_TRANSITIONS
  <2> HIDE DEF b, c
  <2>4. a \o (b \o c) \in Formed /\ a \o (b \o c) # <<>>
        /\ (a \o (b \o c))[1] = ReadOf(p, "IN_PRIORITY_QUEUE", NoSlot)
    BY <2>2, <2>3, FormedThen
  <2> HIDE DEF a
  <2> DEFINE y == a \o (b \o c)
  <2>5. y \in Formed /\ y # <<>> /\ y[1] = ReadOf(p, "IN_PRIORITY_QUEUE", NoSlot)
    BY <2>4
  <2> HIDE DEF y
  <2>6. /\ <<o>> \o y \in Formed /\ (<<o>> \o y)[1] = o /\ Opens(o)
    BY <1>2, <2>5, FormedBegin
  <2>7. ((<<o>> \o a) \o b) \o c = <<o>> \o (a \o (b \o c))
    <3>1. \A x, w, z \in Seq(Op) :
            ((<<o>> \o x) \o w) \o z = <<o>> \o (x \o (w \o z))
      BY FourParts, Zenon
    <3> QED BY <2>1, <3>1, Zenon
  <2>8. Script(<<o>> \o y)
    BY <2>6 DEF Script
  <2>9. Script(((<<o>> \o a) \o b) \o c)
    BY <2>7, <2>8 DEF y
  <2> QED BY <2>1, <2>9 DEF a, b
<1> QED BY <1>1, <1>2

\* handle_slot_found.
LEMMA SlotScript ==
  ASSUME NEW p \in Pipeline, NEW slot \in Slot
  PROVE  Script(TransitionWith(p, "SLOT_HELD", slot)
                  \o Transition(p, "PA_PENDING")
                  \o DispatchWith("pa_notification", p, slot, p))
<1> DEFINE a == TransitionWith(p, "SLOT_HELD", slot)
           b == Transition(p, "PA_PENDING")
           c == DispatchWith("pa_notification", p, slot, p)
<1>1. slot # NoSlot
  BY SlotAssumption
<1>2. a \in Seq(Op) /\ b \in Seq(Op) /\ c \in Seq(Op)
  BY PartsType, Targets DEF Agent
<1>3. /\ b \o c \in Formed /\ b \o c # <<>> /\ Len(b \o c) = 2
      /\ (b \o c)[1] = ReadOf(p, "PA_PENDING", NoSlot)
      /\ (b \o c)[2].slot = slot
  <2>1. "PA_PENDING" \in Target \ {"SLOT_HELD"}
        /\ "pa_notification" \in Awaited("PA_PENDING")
        /\ "pa_notification" \in Agent
    BY Targets DEF Awaited, Agent
  <2> QED BY <1>1, <2>1, FormedAsk
<1> HIDE DEF b, c
<1> DEFINE y == b \o c
<1>4. /\ y \in Formed /\ y # <<>> /\ Len(y) = 2
      /\ y[1] = ReadOf(p, "PA_PENDING", NoSlot)
      /\ y[2].slot = slot
  BY <1>3
<1> HIDE DEF y
<1>5. Follows(y[1], p, "SLOT_HELD")
  BY <1>4 DEF Follows, ReadOf, VALID_TRANSITIONS
<1>6. "SLOT_HELD" \in Target /\ Len(y) >= 2 /\ slot \in Slot \cup {NoSlot}
  BY <1>4, Targets
<1>7. TransitionWith(p, "SLOT_HELD", slot) \o y \in Formed
      /\ (TransitionWith(p, "SLOT_HELD", slot) \o y)[1]
           = ReadOf(p, "SLOT_HELD", slot)
  BY <1>1, <1>4, <1>5, <1>6, FormedMove
<1>8. (a \o b) \o c = a \o (b \o c)
  <2> HIDE DEF a
  <2>1. \A x, z, w \in Seq(Op) : (x \o z) \o w = x \o (z \o w)
    BY Regroup, Zenon
  <2> QED BY <1>2, <2>1, Zenon
<1>9. Script(a \o y)
  BY <1>7, ReadOpens DEF Script
<1> QED BY <1>8, <1>9 DEF y, b, c

\* handle_rsvp_outcome.
LEMMA RsvpScripts ==
  ASSUME NEW p \in Pipeline
  PROVE  /\ Script(Transition(p, "RSVP_CONFIRMED") \o Transition(p, "BOOKED")
                     \o <<[op |-> "book", p |-> p]>>)
         /\ Script(Transition(p, "RSVP_TIMEOUT_CANCELLED")
                     \o <<[op |-> "top", owner |-> p]>>)
<1> DEFINE a == Transition(p, "RSVP_CONFIRMED")
           b == Transition(p, "BOOKED")
           o == [op |-> "book", p |-> p]
           n == [op |-> "top", owner |-> p]
<1>1. o \in Op /\ n \in Op
  BY DEF RowOp, PullOp, ScriptOp, Op
<1>2. o.op = "book" /\ o.p = p /\ n.op = "top"
  OBVIOUS
<1> HIDE DEF o, n
<1> DEFINE c == <<o>>
           d == <<n>>
<1>3. /\ c \in Formed /\ c # <<>> /\ c[1] = o /\ c \in Seq(Op)
      /\ d \in Formed /\ d # <<>> /\ d[1] = n
  <2>1. MayEnd(o) /\ ~Move(o) /\ MayEnd(n) /\ ~Move(n)
    BY <1>2 DEF MayEnd, Move
  <2> QED BY <1>1, <2>1, FormedOne DEF Formed
<1> HIDE DEF c, d
<1>4. Follows(c[1], p, "BOOKED") /\ Follows(d[1], p, "RSVP_TIMEOUT_CANCELLED")
  BY <1>2, <1>3 DEF Follows
<1>5. {"BOOKED", "RSVP_TIMEOUT_CANCELLED"} \subseteq Target
      /\ NoSlot \in Slot \cup {NoSlot}
  BY Targets
<1>6. /\ TransitionWith(p, "BOOKED", NoSlot) \o c \in Formed
      /\ TransitionWith(p, "BOOKED", NoSlot) \o c # <<>>
      /\ (TransitionWith(p, "BOOKED", NoSlot) \o c)[1]
           = ReadOf(p, "BOOKED", NoSlot)
  BY <1>3, <1>4, <1>5, FormedMove
<1>7. /\ TransitionWith(p, "RSVP_TIMEOUT_CANCELLED", NoSlot) \o d \in Formed
      /\ (TransitionWith(p, "RSVP_TIMEOUT_CANCELLED", NoSlot) \o d)[1]
           = ReadOf(p, "RSVP_TIMEOUT_CANCELLED", NoSlot)
  BY <1>3, <1>4, <1>5, FormedMove
<1>8. Script(Transition(p, "RSVP_TIMEOUT_CANCELLED") \o d)
  BY <1>7, ReadOpens DEF Script, Transition
<1> DEFINE y == b \o c
<1>9. y \in Formed /\ y # <<>> /\ y[1] = ReadOf(p, "BOOKED", NoSlot)
  BY <1>6 DEF Transition
<1>10. "RSVP_CONFIRMED" \in Target \ {"SLOT_HELD", "PA_PENDING"}
       /\ "BOOKED" \in VALID_TRANSITIONS("RSVP_CONFIRMED")
  BY Targets DEF VALID_TRANSITIONS
<1> HIDE DEF y
<1>11. Transition(p, "RSVP_CONFIRMED") \o y \in Formed
       /\ (Transition(p, "RSVP_CONFIRMED") \o y)[1]
            = ReadOf(p, "RSVP_CONFIRMED", NoSlot)
  BY <1>9, <1>10, FormedThen
<1>12. Script(a \o y)
  BY <1>11, ReadOpens DEF Script
<1>13. (a \o b) \o c = a \o (b \o c)
  <2>1. a \in Seq(Op) /\ b \in Seq(Op)
    BY PartsType, Targets
  <2> HIDE DEF a, b
  <2>2. \A x, z, w \in Seq(Op) : (x \o z) \o w = x \o (z \o w)
    BY Regroup, Zenon
  <2> QED BY <1>3, <2>1, <2>2, Zenon
<1> QED BY <1>8, <1>12, <1>13 DEF y, c, d, o, n

\* handle_email_classified and handle_email_dropped.
LEMMA EmailScripts ==
  ASSUME NEW p \in Pipeline
  PROVE  /\ Script(<<[op |-> "create", p |-> p], [op |-> "resume", p |-> p]>>)
         /\ Script(<<[op |-> "droplog", p |-> p]>>)
<1> DEFINE o == [op |-> "create", p |-> p]
           n == [op |-> "resume", p |-> p]
           d == [op |-> "droplog", p |-> p]
<1>1. o \in Op /\ n \in Op /\ d \in Op
  BY DEF RowOp, ScriptOp, Op
<1>2. /\ o.op = "create" /\ o.p = p /\ n.op = "resume" /\ n.p = p
      /\ d.op = "droplog"
  OBVIOUS
<1> HIDE DEF o, n, d
<1>3. /\ MayEnd(n) /\ ~Move(n) /\ MayEnd(d) /\ ~Move(d) /\ ~Move(o)
      /\ Precedes(o, n) /\ Opens(o) /\ Opens(d)
  BY <1>2 DEF MayEnd, Move, Precedes, First, Last, Quick, Opens
<1>4. /\ <<n>> \in Formed /\ <<n>> # <<>> /\ <<n>>[1] = n
      /\ <<d>> \in Formed /\ <<d>>[1] = d
  BY <1>1, <1>3, FormedOne
<1> DEFINE y == <<n>>
<1>5. y \in Seq(Op) /\ WellFormed(y) /\ y # <<>> /\ y[1] = n
  BY <1>4 DEF Formed
<1> HIDE DEF y
<1>6. <<o>> \o y \in Seq(Op) /\ WellFormed(<<o>> \o y)
  BY <1>1, <1>3, <1>5, FormedCons
<1>7. (<<o>> \o y)[1] = o
  BY <1>1, <1>5, ConsParts
<1>8. Script(<<o>> \o y)
  BY <1>3, <1>6, <1>7 DEF Script, Formed
<1>9. Script(<<o>> \o <<n>>) /\ Script(<<d>>)
  BY <1>3, <1>4, <1>8 DEF Script, y
<1>10. Script(<<o, n>>) /\ Script(<<d>>)
  <2> DEFINE x == <<o>> \o <<n>>
             z == <<o, n>>
  <2>1. /\ <<n>> \in Seq(Op) /\ Len(<<n>>) = 1 /\ <<n>>[1] = n
        /\ z \in Seq(Op) /\ Len(z) = 2 /\ z[1] = o /\ z[2] = n
    BY <1>1
  <2>2. x \in Seq(Op) /\ Len(x) = 2 /\ x[1] = o /\ x[1 + 1] = n
    BY <1>1, <2>1, ConsParts
  <2> HIDE DEF x, z
  <2>3. \A i \in 1..Len(x) : x[i] = z[i]
    <3>1. \A i \in 1..2 : i = 1 \/ i = 1 + 1
      OBVIOUS
    <3> QED BY <2>1, <2>2, <3>1
  <2>4. x = z
    BY <2>1, <2>2, <2>3, SeqEqual
  <2> QED BY <1>9, <2>4 DEF x, z
<1> QED BY <1>10 DEF o, n, d

\* Every handler of a task is well formed and asks nothing of the tables.
LEMMA HandlerScript ==
  ASSUME NEW t \in Task
  PROVE  Script(Handler(t))
<1>0. t \in AnyTask
  BY TaskAssumption
<1>1. CASE t \in EmailTask
  <2>1. t.p \in Pipeline /\ t.type \in {"email.classified", "email.dropped"}
    BY <1>1 DEF EmailTask
  <2>2. CASE t.type = "email.classified"
    <3>1. Handler(t) = HandleEmailClassified(t)
      BY <2>2 DEF Handler
    <3> QED BY <2>1, <3>1, EmailScripts DEF HandleEmailClassified
  <2>3. CASE t.type = "email.dropped"
    <3>1. Handler(t) = HandleEmailDropped(t)
      BY <2>3 DEF Handler
    <3> QED BY <2>1, <3>1, EmailScripts DEF HandleEmailDropped
  <2> QED BY <2>1, <2>2, <2>3
<1>2. CASE t \in DedupTask
  <2>1. t.p \in Pipeline /\ t.type = "dedup.result"
    BY <1>2 DEF DedupTask
  <2>2. Handler(t) = HandleDedupResult(t)
    BY <2>1 DEF Handler
  <2> QED BY <2>1, <2>2, ShortScripts DEF HandleDedupResult
<1>3. CASE t \in VerifiedTask
  <2>1. t.p \in Pipeline /\ t.type = "org.verified"
    BY <1>3 DEF VerifiedTask
  <2>2. Handler(t) = HandleOrgVerified(t)
    BY <2>1 DEF Handler
  <2> QED BY <2>1, <2>2, ShortScripts DEF HandleOrgVerified
<1>4. CASE t \in EligibleTask
  <2>1. t.p \in Pipeline /\ t.type = "eligibility.result"
    BY <1>4 DEF EligibleTask
  <2>2. Handler(t) = HandleEligibilityResult(t)
    BY <2>1 DEF Handler
  <2>4. CASE t.eligible
    <3>1. Handler(t) = Transition(t.p, "SCORING") \o Dispatch("prioritizer", t.p)
      BY <2>2, <2>4 DEF HandleEligibilityResult
    <3> QED BY <2>1, <3>1, ShortScripts
  <2>5. CASE ~t.eligible /\ t.escalate
    <3>1. Handler(t) = Transition(t.p, "URGENT_ESCALATED_TO_PA")
                         \o Dispatch("pa_notification", t.p)
      BY <2>2, <2>5 DEF HandleEligibilityResult
    <3> QED BY <2>1, <2>5, <3>1, ShortScripts
  <2>6. CASE ~t.eligible /\ ~t.escalate
    <3>1. Handler(t) = Transition(t.p, "DROPPED_WITHIN_90_DAYS")
      BY <2>2, <2>6 DEF HandleEligibilityResult
    <3> QED BY <2>1, <3>1, ShortScripts
  <2> QED BY <2>4, <2>5, <2>6
<1>5. CASE t \in ScoredTask
  <2>1. t.p \in Pipeline /\ t.type = "org.scored" /\ t.score \in Score
    BY <1>5 DEF ScoredTask
  <2>2. Handler(t) = HandleOrgScored(t)
    BY <2>1 DEF Handler
  <2> DEFINE o == [op |-> "queue_select", p |-> t.p, score |-> t.score]
  <2>3. o \in QueueOp /\ o.op = "queue_select"
    BY <2>1 DEF QueueOp
  <2>4. Handler(t) = <<o>> \o Transition(t.p, "IN_PRIORITY_QUEUE")
                       \o Transition(t.p, "FINDING_SLOT")
                       \o Dispatch("calendar", t.p)
    BY <2>2 DEF HandleOrgScored
  <2> HIDE DEF o
  <2>5. o \in Op
    BY <2>3 DEF ScriptOp, Op
  <2> QED BY <2>1, <2>3, <2>4, <2>5, LongScripts
<1>6. CASE t \in SlotTask
  <2>1. t.p \in Pipeline /\ t.type = "calendar.slot_found" /\ t.slot \in Slot
    BY <1>6 DEF SlotTask
  <2>2. Handler(t) = HandleSlotFound(t)
    BY <2>1 DEF Handler
  <2> QED BY <2>1, <2>2, SlotScript DEF HandleSlotFound
<1>7. CASE t \in NoSlotsTask
  <2>1. t.p \in Pipeline /\ t.type = "calendar.no_slots"
    BY <1>7 DEF NoSlotsTask
  <2>2. Handler(t) = HandleNoSlots(t)
    BY <2>1 DEF Handler
  <2> QED BY <2>1, <2>2, ShortScripts DEF HandleNoSlots
<1>8. CASE t \in DecisionTask
  <2>1. t.p \in Pipeline /\ t.type = "pa.decision"
    BY <1>8 DEF DecisionTask
  <2>2. Handler(t) = HandlePaDecision(t)
    BY <2>1 DEF Handler
  <2>3. CASE t.decision = "REJECTED"
    <3>1. Handler(t) = Transition(t.p, "PA_REJECTED")
      BY <2>2, <2>3 DEF HandlePaDecision
    <3> QED BY <2>1, <3>1, ShortScripts
  <2>4. CASE t.decision # "REJECTED"
    <3> DEFINE s == IF t.decision = "AUTO_APPROVED" THEN "AUTO_APPROVED"
                    ELSE "PA_APPROVED"
    <3>1. Handler(t) = Transition(t.p, s) \o Transition(t.p, "CONFIRMATION_SENT")
                         \o Dispatch("email_composer", t.p)
      BY <2>2, <2>4 DEF HandlePaDecision
    <3>2. s \in {"PA_APPROVED", "AUTO_APPROVED"}
      OBVIOUS
    <3> HIDE DEF s
    <3> QED BY <2>1, <3>1, <3>2, LongScripts
  <2> QED BY <2>3, <2>4
<1>9. CASE t \in SentTask
  <2>1. t.p \in Pipeline /\ t.type = "email.sent"
    BY <1>9 DEF SentTask
  <2>2. Handler(t) = HandleEmailSent(t)
    BY <2>1 DEF Handler
  <2>3. Script(<<>>)
    BY FormedEmpty DEF Script
  <2> QED BY <2>1, <2>2, <2>3, ShortScripts DEF HandleEmailSent
<1>10. CASE t \in RsvpTask
  <2>1. t.p \in Pipeline /\ t.type = "rsvp.outcome"
    BY <1>10 DEF RsvpTask
  <2>2. Handler(t) = HandleRsvpOutcome(t)
    BY <2>1 DEF Handler
  <2> QED BY <2>1, <2>2, RsvpScripts DEF HandleRsvpOutcome
<1> QED BY <1>0, <1>1, <1>2, <1>3, <1>4, <1>5, <1>6, <1>7, <1>8, <1>9, <1>10
        DEF AnyTask

---------------------------------------------------------------------------
(* Steps of one coroutine. *)

\* What a coroutine has left, when it awaits an operation of kind k.
LEMMA Now ==
  ASSUME GateInv, NEW w \in Worker, NEW k, At(w, k)
  PROVE  /\ todo[w] \in Seq(Op) /\ todo[w] # <<>>
         /\ Head(todo[w]) = todo[w][1] /\ todo[w][1] \in Op
         /\ todo[w][1].op = k
         /\ Rest(w) = Tail(todo[w]) /\ Rest(w) \in Seq(Op)
<1>1. todo[w] \in Seq(Op) /\ todo[w] # <<>>
  <2>1. LoggedOp \subseteq Op
    BY DEF LoggedOp, Op
  <2>2. Seq(LoggedOp) \subseteq Seq(Op)
    BY <2>1, SeqMonotonic
  <2>3. todo[w] \in Seq(LoggedOp)
    BY DEF GateInv, TodoLogged
  <2> QED BY <2>2, <2>3 DEF At
<1>2. Head(todo[w]).op = k
  BY DEF At
<1> QED BY <1>1, <1>2, TailParts DEF Rest

\* What the coroutines have left are sequences of operations.
LEMMA TodoType ==
  ASSUME GateInv
  PROVE  todo \in [Worker -> Seq(Op)]
<1>1. LoggedOp \subseteq Op
  BY DEF LoggedOp, Op
<1>2. Seq(LoggedOp) \subseteq Seq(Op)
  BY <1>1, SeqMonotonic
<1> QED BY <1>2 DEF GateInv, TodoLogged

\* What another coroutine has left stays linked: it is light, or the step
\* leaves the tables alone.
LEMMA OthersLinked ==
  ASSUME NEW y \in Seq(Op), Linked(y),
         Light(y) \/ UNCHANGED <<row, queue, appts>>
  PROVE  Linked(y)'
<1>1. CASE Light(y)
  BY <1>1, LinkedLight
<1>2. CASE UNCHANGED <<row, queue, appts>>
  <2>1. Waiting' = Waiting
    BY <1>2 DEF Waiting
  <2> QED BY <1>2, <2>1 DEF Linked, Ready
<1> QED BY <1>1, <1>2

\* A coroutine goes on with x.
LEMMA SerialGoto ==
  ASSUME GateInv, SerialInv, NEW w \in Worker, NEW x, Goto(w, x),
         WellFormed(x), Linked(x)',
         Light(todo[w]) => Light(x) /\ UNCHANGED <<row, queue, appts>>,
         OneWaitingEntry', VisitsAreBooked'
  PROVE  SerialInv'
<1>1. /\ todo \in [Worker -> Seq(Op)]
      /\ todo'[w] = x
      /\ \A v \in Worker \ {w} : todo'[v] = todo[v]
  BY TodoType DEF Goto
<1>2. ASSUME NEW v \in Worker
      PROVE  WellFormed(todo[v])' /\ Linked(todo[v])'
  <2>1. CASE v = w
    BY <1>1, <2>1 DEF Linked, Ready
  <2>2. CASE v # w
    <3>1. PICK y \in Seq(Op) : y = todo[v]
      BY <1>1
    <3>2. WellFormed(y) /\ Linked(y)
      BY <3>1 DEF SerialInv
    <3>3. Light(y) \/ UNCHANGED <<row, queue, appts>>
      BY <2>2, <3>1 DEF SerialInv, OneBusy
    <3>4. Linked(y)'
      BY <3>2, <3>3, OthersLinked
    <3>5. todo'[v] = y
      BY <1>1, <2>2, <3>1
    <3> QED BY <3>2, <3>4, <3>5 DEF Linked, Ready
  <2> QED BY <2>1, <2>2
<1>3. OneBusy'
  <2> SUFFICES ASSUME NEW u \in Worker, NEW v \in Worker, u # v
               PROVE  Light(todo'[u]) \/ Light(todo'[v])
    BY DEF OneBusy
  <2>1. Light(todo[u]) \/ Light(todo[v])
    BY DEF SerialInv, OneBusy
  <2> QED BY <1>1, <2>1
<1> QED BY <1>2, <1>3 DEF SerialInv

\* An operation that only comes last is the only one when it comes first.
LEMMA LastAlone ==
  ASSUME NEW ops \in Seq(Op), ops # <<>>, WellFormed(ops), Last(ops[1])
  PROVE  Tail(ops) = <<>> /\ Len(ops) = 1
<1>1. Tail(ops) = <<>>
  BY FormedHead DEF Precedes
<1> QED BY <1>1, TailParts

\* A coroutine between two tasks is light.
LEMMA ParkedLight ==
  ASSUME GateInv, SerialInv, NEW w \in Worker, Parked(w)
  PROVE  Light(todo[w])
<1>1. CASE Idle(w)
  BY <1>1 DEF Idle, Light
<1>2. CASE At(w, "ack")
  <2>1. todo[w] \in Seq(Op) /\ todo[w] # <<>> /\ todo[w][1].op = "ack"
    BY <1>2, Now
  <2>2. WellFormed(todo[w]) /\ Last(todo[w][1])
    BY <2>1 DEF SerialInv, Last
  <2> QED BY <2>1, <2>2, LastAlone DEF Light
<1> QED BY <1>1, <1>2 DEF Parked

\* The coroutine that awaits anything else is the busy one.
LEMMA SlowBusy ==
  ASSUME GateInv, NEW w \in Worker, NEW k, At(w, k), k \notin {"ack", "read"}
  PROVE  ~Light(todo[w])
BY Now DEF Light

\* What leaves the tables of the queue and the visits alone.
LEMMA TablesKept ==
  ASSUME SerialInv, UNCHANGED <<row, queue, appts>>
  PROVE  OneWaitingEntry' /\ VisitsAreBooked'
<1>1. Waiting' = Waiting
  BY DEF Waiting
<1> QED BY <1>1 DEF SerialInv, OneWaitingEntry, VisitsAreBooked

\* A first operation that takes the place of another.
LEMMA FormedReplace ==
  ASSUME NEW ops \in Seq(Op), ops # <<>>, WellFormed(ops), NEW o \in Op,
         \A n : Precedes(ops[1], n) => Precedes(o, n),
         MayEnd(ops[1]) => MayEnd(o),
         Move(o) => Move(ops[1]) /\ o.to = ops[1].to /\ o.slot = ops[1].slot
  PROVE  WellFormed(<<o>> \o Tail(ops))
<1> DEFINE y == Tail(ops)
<1>1. /\ y \in Seq(Op) /\ WellFormed(y)
      /\ y = <<>> => MayEnd(ops[1])
      /\ y # <<>> => Precedes(ops[1], y[1])
      /\ Move(ops[1]) =>
           /\ (ops[1].slot # NoSlot) <=> (ops[1].to = "SLOT_HELD")
           /\ ops[1].to = "SLOT_HELD" => Len(y) >= 2 /\ y[2].slot = ops[1].slot
  BY FormedHead, FormedTail, TailParts
<1> HIDE DEF y
<1>2. WellFormed(<<o>> \o y)
  BY <1>1, FormedCons
<1> QED BY <1>2 DEF y

\* The busy coroutine goes on with what it has left, after an operation
\* that is neither a move nor follows one.
LEMMA GoRest ==
  ASSUME GateInv, SerialInv, NEW w \in Worker, NEW k, At(w, k),
         k \in {"create", "insert", "droplog", "queue_insert",
                "queue_update", "mark", "appoint"},
         Goto(w, Rest(w)), OneWaitingEntry', VisitsAreBooked'
  PROVE  SerialInv'
<1> DEFINE ops == todo[w]
<1>1. PICK y : y = Rest(w)
  OBVIOUS
<1>2. /\ ops \in Seq(Op) /\ ops # <<>> /\ ops[1].op = k /\ y = Tail(ops)
      /\ WellFormed(ops)
  BY <1>1, Now DEF SerialInv
<1>3. First(ops[1]) /\ ~Move(ops[1])
  BY <1>2 DEF First, Move, Quick
<1>4. ~Light(ops)
  BY SlowBusy
<1> HIDE DEF ops
<1>5. PICK ops2 \in Seq(Op) : ops2 = ops
  BY <1>2
<1>6. WellFormed(y) /\ Linked(y)'
  BY <1>2, <1>3, <1>5, FormedTail, LinkedBegins
<1> QED BY <1>1, <1>4, <1>6, SerialGoto DEF ops

\* The busy coroutine replaces its first operation.
LEMMA GoOn ==
  ASSUME GateInv, SerialInv, NEW w \in Worker, NEW k, At(w, k),
         ~Light(todo[w]), NEW o \in Op, ~Quick(o),
         \A n : Precedes(todo[w][1], n) => Precedes(o, n),
         MayEnd(todo[w][1]) => MayEnd(o),
         Move(o) => /\ Move(todo[w][1])
                    /\ o.to = todo[w][1].to /\ o.slot = todo[w][1].slot,
         NEW x, x = <<o>> \o Rest(w), Ready(x, 1)',
         Goto(w, x), OneWaitingEntry', VisitsAreBooked'
  PROVE  SerialInv'
<1>1. PICK ops \in Seq(Op) : ops = todo[w] /\ ops # <<>> /\ Rest(w) = Tail(ops)
  BY Now
<1>2. WellFormed(ops)
  BY <1>1 DEF SerialInv
<1>3. x = <<o>> \o Tail(ops)
  BY <1>1
<1>4. WellFormed(x)
  BY <1>1, <1>2, <1>3, FormedReplace
<1>5. x \in Seq(Op) /\ x # <<>> /\ x[1] = o
  BY <1>1, <1>3, TailParts, ConsParts
<1>6. Linked(x)'
  BY <1>5, LinkedSlow
<1> QED BY <1>4, <1>6, SerialGoto

\* A coroutine goes on with nothing.
LEMMA GoNowhere ==
  ASSUME GateInv, SerialInv, NEW w \in Worker, Raise(w),
         UNCHANGED <<row, queue, appts>>
  PROVE  SerialInv'
<1>1. PICK x : x = <<>>
  OBVIOUS
<1>2. WellFormed(x) /\ Light(x) /\ x \in Seq(Op)
  BY <1>1, FormedNil
<1>3. Linked(x)'
  BY <1>2, LinkedLight
<1>4. Goto(w, x)
  BY <1>1 DEF Raise
<1> QED BY <1>2, <1>3, <1>4, TablesKept, SerialGoto

\* A coroutine goes on with a script, and nothing else changes.
LEMMA GoScript ==
  ASSUME GateInv, SerialInv, NEW w \in Worker, NEW x, Script(x), Goto(w, x),
         ~Light(todo[w]) \/ Light(x), UNCHANGED <<row, queue, appts>>
  PROVE  SerialInv'
<1>1. x \in Seq(Op) /\ WellFormed(x)
  BY DEF Script, Formed
<1>2. Linked(x)'
  BY <1>1, LinkedOpens DEF Script
<1> QED BY <1>1, <1>2, TablesKept, SerialGoto

---------------------------------------------------------------------------
(* Every action preserves the invariant. *)

\* A task arrives while every coroutine is light.
LEMMA SerialReceive ==
  ASSUME GateInv, SerialInv, Serial, NEW w \in Worker, NEW t \in Task,
         Receive(w, t)
  PROVE  SerialInv'
<1>1. PICK x : x = Handler(t)
  OBVIOUS
<1>2. x \in Seq(Op) /\ WellFormed(x) /\ (x # <<>> => Opens(x[1]))
  BY <1>1, HandlerScript DEF Script, Formed
<1>3. Goto(w, x) /\ UNCHANGED <<row, queue, appts>>
  BY <1>1 DEF Receive, tables
<1>4. \A v \in Worker : Light(todo[v])
  BY ParkedLight DEF Receive
<1>5. /\ todo \in [Worker -> Seq(Op)]
      /\ todo'[w] = x
      /\ \A v \in Worker \ {w} : todo'[v] = todo[v]
  BY <1>3, TodoType DEF Goto
<1>6. Linked(x)'
  BY <1>2, LinkedOpens
<1>7. ASSUME NEW v \in Worker
      PROVE  WellFormed(todo[v])' /\ Linked(todo[v])'
  <2>1. CASE v = w
    BY <1>2, <1>5, <1>6, <2>1 DEF Linked, Ready
  <2>2. CASE v # w
    <3>1. PICK y \in Seq(Op) : y = todo[v]
      BY <1>5
    <3>2. WellFormed(y) /\ Linked(y)
      BY <3>1 DEF SerialInv
    <3>3. Linked(y)'
      BY <1>4, <3>1, <3>2, OthersLinked
    <3>4. todo'[v] = y
      BY <1>5, <2>2, <3>1
    <3> QED BY <3>2, <3>3, <3>4 DEF Linked, Ready
  <2> QED BY <2>1, <2>2
<1>8. OneBusy'
  BY <1>4, <1>5 DEF OneBusy
<1> QED BY <1>3, <1>7, <1>8, TablesKept DEF SerialInv

\* create_pipeline.
LEMMA SerialCreate ==
  ASSUME GateInv, SerialInv, NEW w \in Worker,
         LookupEmail(w) \/ InsertPipeline(w) \/ ReadForResume(w)
  PROVE  SerialInv'
<1> DEFINE p == Head(todo[w]).p
<1>1. CASE LookupEmail(w)
  <2>1. At(w, "create") /\ UNCHANGED <<row, queue, appts>>
    BY <1>1 DEF LookupEmail, tables
  <2>2. OneWaitingEntry' /\ VisitsAreBooked' /\ ~Light(todo[w])
    BY <2>1, TablesKept, SlowBusy
  <2>3. CASE Goto(w, Rest(w))
    BY <2>1, <2>2, <2>3, GoRest
  <2>4. CASE Goto(w, <<[op |-> "insert", p |-> p]>> \o Rest(w))
    <3>1. p \in Pipeline /\ todo[w][1].op = "create" /\ todo[w][1].p = p
      BY <2>1, Pending, Shapes, Now DEF GateInv, RowOp
    <3>2. PICK o : o = [op |-> "insert", p |-> p]
      OBVIOUS
    <3>3. o \in Op
      BY <3>1, <3>2 DEF RowOp, ScriptOp, Op
    <3>4. o.op = "insert" /\ o.p = p
      BY <3>2
    <3>5. ~Quick(o) /\ ~Move(o)
      BY <3>4 DEF Quick, Move
    <3>6. \A n : Precedes(todo[w][1], n) => Precedes(o, n)
      BY <3>1, <3>4 DEF Precedes, First, Last, Quick, Move
    <3>7. MayEnd(todo[w][1]) => MayEnd(o)
      BY <3>1 DEF MayEnd
    <3>8. PICK x : x = <<o>> \o Rest(w)
      OBVIOUS
    <3>9. x[1] = o
      BY <2>1, <3>3, <3>8, Now, ConsParts
    <3>10. Ready(x, 1)'
      BY <3>4, <3>5, <3>9 DEF Ready
    <3>11. Goto(w, x)
      BY <2>4, <3>2, <3>8
    <3> QED BY <2>1, <2>2, <3>3, <3>5, <3>6, <3>7, <3>8, <3>10, <3>11, GoOn
  <2> QED BY <1>1, <2>3, <2>4 DEF LookupEmail
<1>2. CASE InsertPipeline(w)
  <2>1. At(w, "insert") /\ UNCHANGED <<queue, appts>>
    BY <1>2 DEF InsertPipeline
  <2>2. CASE Exists(p)
    BY <1>2, <2>1, <2>2, GoNowhere DEF InsertPipeline
  <2>3. CASE ~Exists(p)
    <3>1. /\ row' = [row EXCEPT ![p] = [state |-> "EMAIL_RECEIVED",
                                        slot  |-> NoSlot]]
          /\ Goto(w, Rest(w))
      BY <1>2, <2>3 DEF InsertPipeline
    <3>2. OneWaitingEntry'
      BY <2>1 DEF SerialInv, OneWaitingEntry, Waiting
    <3>3. VisitsAreBooked'
      <4>1. \A a \in appts : a.p \in Pipeline /\ row[a.p].state = "BOOKED"
        BY DEF GateInv, TablesOK, Appointment, SerialInv, VisitsAreBooked
      <4>2. \A a \in appts : a.p # p
        BY <2>3, <4>1 DEF Exists
      <4> QED BY <2>1, <3>1, <4>1, <4>2 DEF VisitsAreBooked, GateInv, TablesOK
    <3> QED BY <2>1, <3>1, <3>2, <3>3, GoRest
  <2> QED BY <2>2, <2>3
<1>3. CASE ReadForResume(w)
  <2>1. At(w, "resume") /\ UNCHANGED <<row, queue, appts>>
    BY <1>3 DEF ReadForResume, tables
  <2>2. p \in Pipeline /\ ~Light(todo[w])
    BY <2>1, Pending, Shapes, SlowBusy DEF GateInv, RowOp
  <2>3. PICK x : x = Resume(p, row[p].state)
    OBVIOUS
  <2>4. Script(x)
    BY <2>2, <2>3, ResumeFormed DEF Script
  <2>5. Goto(w, x)
    BY <1>3, <2>3 DEF ReadForResume
  <2> QED BY <2>1, <2>2, <2>4, <2>5, GoScript
<1> QED BY <1>1, <1>2, <1>3

\* The first half of transition().
LEMMA SerialRead ==
  ASSUME GateInv, SerialInv, NEW w \in Worker, ReadState(w)
  PROVE  SerialInv'
<1>1. At(w, "read") /\ UNCHANGED <<row, queue, appts>>
  BY DEF ReadState, tables
<1>2. PICK ops \in Seq(Op) :
        /\ ops = todo[w] /\ ops # <<>> /\ Rest(w) = Tail(ops)
        /\ Head(todo[w]) = ops[1] /\ ops[1].op = "read"
  BY <1>1, Now
<1>3. PICK o : o = ops[1]
  OBVIOUS
<1>4. o \in ReadOp /\ o.p \in Pipeline /\ o.to \in Target
      /\ o.slot \in Slot \cup {NoSlot}
  <2>1. o \in ReadOp
    BY <1>1, <1>2, <1>3, Pending, Shapes DEF GateInv
  <2> QED BY <2>1 DEF ReadOp
<1> DEFINE s == row[o.p].state
<1>5. CASE ~(Exists(o.p) /\ o.to \in VALID_TRANSITIONS(s))
  BY <1>1, <1>2, <1>3, <1>5, GoNowhere DEF ReadState
<1>6. CASE Exists(o.p) /\ o.to \in VALID_TRANSITIONS(s)
  <2>1. PICK n : n = [op |-> "write", p |-> o.p, from |-> s, to |-> o.to,
                      slot |-> o.slot]
    OBVIOUS
  <2>2. s \in State
    BY <1>4, <1>6 DEF GateInv, TablesOK, Exists, Row, NoRow
  <2>3. n \in Op
    BY <1>4, <1>6, <2>1, <2>2 DEF WriteOp, Op
  <2>4. /\ n.op = "write" /\ n.p = o.p /\ n.from = s /\ n.to = o.to
        /\ n.slot = o.slot
    BY <2>1
  <2>5. ~Quick(n) /\ Move(n) /\ Move(o) /\ ~First(o)
    BY <1>2, <1>3, <2>4 DEF Quick, Move, First
  <2>6. \A m : Precedes(o, m) => Precedes(n, m)
    BY <1>2, <1>3, <2>4, <2>5 DEF Precedes, First, Last, Quick
  <2>7. MayEnd(o) => MayEnd(n)
    BY <1>2, <1>3, <2>4, <2>5 DEF MayEnd
  <2>8. ~Light(ops)
    BY <1>2, <1>3, <1>6 DEF Light, VALID_TRANSITIONS
  <2>9. PICK x : x = <<n>> \o Rest(w)
    OBVIOUS
  <2>10. x[1] = n
    BY <1>2, <2>3, <2>9, TailParts, ConsParts
  <2>11. WellFormed(ops) /\ Linked(ops)
    BY <1>2 DEF SerialInv
  <2>12. Ready(ops, 1)
    BY <1>2, <1>3, <2>5, <2>11, LinkedSlow DEF Quick
  <2>13. o.to = "PA_PENDING" => x[1 + 1] = ops[1 + 1]
    <3> SUFFICES ASSUME o.to = "PA_PENDING" PROVE x[1 + 1] = ops[1 + 1]
      OBVIOUS
    <3>1. ~MayEnd(o)
      BY <2>5, PendingGoesOn
    <3>2. Tail(ops) # <<>>
      BY <1>2, <1>3, <2>11, <3>1, FormedHead
    <3>3. /\ Len(ops) \in Nat \ {0} /\ Len(ops) # 1
          /\ Tail(ops) \in Seq(Op) /\ Len(Tail(ops)) = Len(ops) - 1
          /\ \A i \in 1..(Len(ops) - 1) : Tail(ops)[i] = ops[i + 1]
      BY <1>2, <3>2, TailParts
    <3>4. \A i \in 1..Len(Tail(ops)) : x[i + 1] = Tail(ops)[i]
      BY <1>2, <2>3, <2>9, <3>3, ConsParts
    <3>5. 1 \in 1..Len(Tail(ops)) /\ 1 \in 1..(Len(ops) - 1)
      BY <3>3
    <3> QED BY <3>3, <3>4, <3>5
  <2>14. Ready(x, 1)'
    BY <1>1, <1>3, <2>4, <2>5, <2>10, <2>12, <2>13 DEF Ready, Quick
  <2>15. Goto(w, x)
    BY <1>2, <1>3, <1>6, <2>1, <2>9 DEF ReadState
  <2>16. OneWaitingEntry' /\ VisitsAreBooked'
    BY <1>1, TablesKept
  <2> QED BY <1>1, <1>2, <1>3, <2>3, <2>4, <2>5, <2>6, <2>7, <2>8, <2>9,
             <2>14, <2>15, <2>16, GoOn
<1> QED BY <1>5, <1>6

\* An operation that follows a commit may come before what follows a move.
LEMMA QuickPrecedes ==
  ASSUME NEW o, Quick(o)
  PROVE  /\ MayEnd(o) /\ ~Move(o)
         /\ \A n : ~First(n) /\ n.op # "resume" => Precedes(o, n)
BY DEF Quick, MayEnd, Move, Precedes, First, Last

\* What follows the commit of a move, in front of what follows the move.
LEMMA EntryKeeps ==
  ASSUME NEW p \in Pipeline, NEW s \in Target, row'[p].state = s,
         NEW y \in Seq(Op), WellFormed(y), Linked(y)',
         y # <<>> => ~First(y[1]) /\ y[1].op # "resume"
  PROVE  /\ OnEntry(p, s) \o y \in Seq(Op) /\ WellFormed(OnEntry(p, s) \o y)
         /\ Linked(OnEntry(p, s) \o y)'
<1> DEFINE a == [op |-> "publish", p |-> p, to |-> s]
           b == [op |-> "timers", p |-> p, to |-> s]
<1>1. a \in Op /\ b \in Op
  BY DEF EnterOp, ScriptOp, Op
<1>2. /\ Quick(a) /\ a.p = p /\ a.to = s /\ a.op = "publish"
      /\ Quick(b) /\ b.p = p /\ b.to = s /\ b.op = "timers"
  BY DEF Quick
<1>3. \/ OnEntry(p, s) = <<>> \o <<>>
      \/ OnEntry(p, s) = <<a>> \o <<>>
      \/ OnEntry(p, s) = <<>> \o <<b>>
      \/ OnEntry(p, s) = <<a>> \o <<b>>
  BY DEF OnEntry
<1> HIDE DEF a, b
<1>4. ASSUME NEW o \in Op, Quick(o), o.p = p, o.to = s,
             NEW z \in Seq(Op), WellFormed(z), Linked(z)',
             z # <<>> => ~First(z[1]) /\ z[1].op # "resume"
      PROVE  /\ <<o>> \o z \in Seq(Op) /\ WellFormed(<<o>> \o z)
             /\ Linked(<<o>> \o z)'
             /\ ~First((<<o>> \o z)[1]) /\ (<<o>> \o z)[1].op # "resume"
  <2>1. /\ MayEnd(o) /\ ~Move(o)
        /\ z # <<>> => Precedes(o, z[1])
    BY <1>4, QuickPrecedes
  <2>2. <<o>> \o z \in Seq(Op) /\ WellFormed(<<o>> \o z)
    BY <1>4, <2>1, FormedCons
  <2>3. Linked(<<o>> \o z)'
    BY <1>4, LinkedCons
  <2>4. (<<o>> \o z)[1] = o
    BY <1>4, ConsParts
  <2>5. ~First(o) /\ o.op # "resume"
    BY <1>4 DEF First, Quick
  <2> QED BY <2>2, <2>3, <2>4, <2>5
<1>5. /\ <<>> \in Seq(Op) /\ <<a>> \in Seq(Op) /\ <<b>> \in Seq(Op)
      /\ <<>> \o <<>> = <<>> /\ <<a>> \o <<>> = <<a>> /\ <<>> \o <<b>> = <<b>>
      /\ <<>> \o y = y
  BY <1>1, EmptySeq, ConcatEmptySeq
<1>6. CASE OnEntry(p, s) = <<>>
  BY <1>5, <1>6
<1>7. CASE OnEntry(p, s) = <<a>>
  BY <1>1, <1>2, <1>4, <1>7
<1>8. CASE OnEntry(p, s) = <<b>>
  BY <1>1, <1>2, <1>4, <1>8
<1>9. CASE OnEntry(p, s) = <<a>> \o <<b>>
  <2>1. (<<a>> \o <<b>>) \o y = <<a>> \o (<<b>> \o y)
    <3>1. \A u, v, z \in Seq(Op) : (u \o v) \o z = u \o (v \o z)
      BY Regroup, Zenon
    <3> QED BY <1>5, <3>1, Zenon
  <2> DEFINE z == <<b>> \o y
  <2>2. /\ z \in Seq(Op) /\ WellFormed(z) /\ Linked(z)'
        /\ ~First(z[1]) /\ z[1].op # "resume"
    BY <1>1, <1>2, <1>4
  <2> HIDE DEF z
  <2>3. <<a>> \o z \in Seq(Op) /\ WellFormed(<<a>> \o z) /\ Linked(<<a>> \o z)'
    BY <1>1, <1>2, <1>4, <2>2
  <2> QED BY <1>9, <2>1, <2>3 DEF z
<1> QED BY <1>3, <1>5, <1>6, <1>7, <1>8, <1>9

\* What is known when w commits move o and has y left: the row is in the
\* state that was validated, and y follows the move.
Commits(w, o, y) ==
  /\ todo[w] = <<o>> \o y /\ todo[w] # <<>> /\ o = todo[w][1]
  /\ ~Light(todo[w]) /\ o \in Op /\ o.op = "write"
  /\ Goto(w, OnEntry(o.p, o.to) \o y)
  /\ o.p \in Pipeline /\ o.to \in Target
  /\ o.to \in VALID_TRANSITIONS(o.from)
  /\ row[o.p].state = o.from
  /\ row'[o.p].state = o.to
  /\ row'[o.p].slot = IF o.slot = NoSlot THEN row[o.p].slot ELSE o.slot
  /\ \A p \in Pipeline \ {o.p} : row'[p] = row[p]
  /\ UNCHANGED <<queue, appts, timers, dlq, asked>>
  /\ WellFormed(y)
  /\ y = <<>> => o.to \in Resting \ {"BOOKED"}
  /\ y # <<>> => Follows(y[1], o.p, o.to)
  /\ y # <<>> /\ o.to = "PA_PENDING" => row[o.p].slot = y[1].slot
  /\ (o.slot # NoSlot) <=> (o.to = "SLOT_HELD")
  /\ o.to = "SLOT_HELD" => y[2].slot = o.slot

\* The second half of transition() commits the move it comes to.
LEMMA WriteFacts ==
  ASSUME GateInv, SerialInv, NEW w \in Worker, WriteState(w)
  PROVE  \E o \in WriteOp : \E y \in Seq(Op) : Commits(w, o, y)
<1>1. At(w, "write")
  BY DEF WriteState
<1>2. PICK ops \in Seq(Op) :
        /\ ops = todo[w] /\ ops # <<>> /\ Rest(w) = Tail(ops)
        /\ Head(todo[w]) = ops[1] /\ ops[1].op = "write"
  BY <1>1, Now
<1>3. PICK o \in Op : o = ops[1]
  BY <1>2, TailParts
<1>4. PICK y \in Seq(Op) : y = Tail(ops)
  BY <1>2, TailParts
<1>5. /\ o \in WriteOp /\ o.p \in Pipeline /\ o.to \in Target /\ o.op = "write"
      /\ o.slot \in Slot \cup {NoSlot} /\ o.to \in VALID_TRANSITIONS(o.from)
  <2>1. o \in WriteOp
    BY <1>1, <1>2, <1>3, Pending, Shapes DEF GateInv
  <2> QED BY <2>1 DEF WriteOp
<1>6. ops = <<o>> \o y /\ ~Light(ops)
  BY <1>1, <1>2, <1>3, <1>4, Split, SlowBusy
<1>7. WellFormed(ops) /\ Linked(ops)
  BY <1>2 DEF SerialInv
<1>8. Move(o) /\ ~Quick(o)
  BY <1>5 DEF Move, Quick
<1>9. Ready(ops, 1)
  BY <1>2, <1>3, <1>7, <1>8, LinkedSlow
<1>10. /\ WellFormed(y)
       /\ y = <<>> => MayEnd(o)
       /\ y # <<>> => Precedes(o, y[1]) /\ y[1] = ops[2]
       /\ (o.slot # NoSlot) <=> (o.to = "SLOT_HELD")
       /\ o.to = "SLOT_HELD" => y[2].slot = o.slot
  BY <1>2, <1>3, <1>4, <1>7, <1>8, FormedHead, FormedTail
<1>11. /\ y = <<>> => o.to \in Resting \ {"BOOKED"}
       /\ y # <<>> => Follows(y[1], o.p, o.to)
  BY <1>8, <1>10 DEF MayEnd, Precedes
<1>12. /\ row[o.p].state = o.from
       /\ y # <<>> /\ o.to = "PA_PENDING" => row[o.p].slot = y[1].slot
  BY <1>3, <1>5, <1>8, <1>9, <1>10 DEF Ready
<1>13. PICK slot : slot = IF o.slot = NoSlot THEN row[o.p].slot ELSE o.slot
  OBVIOUS
<1>14. /\ row' = [row EXCEPT ![o.p] = [state |-> o.to, slot |-> slot]]
       /\ Goto(w, OnEntry(o.p, o.to) \o y)
       /\ UNCHANGED <<queue, appts, timers, dlq, asked>>
  BY <1>2, <1>3, <1>4, <1>13 DEF WriteState
<1>15. /\ row'[o.p].state = o.to /\ row'[o.p].slot = slot
       /\ \A p \in Pipeline \ {o.p} : row'[p] = row[p]
  BY <1>5, <1>14 DEF GateInv, TablesOK
<1>16. Commits(w, o, y)
  BY <1>2, <1>3, <1>5, <1>6, <1>10, <1>11, <1>12, <1>13, <1>14, <1>15
     DEF Commits
<1> QED BY <1>5, <1>16

\* The second half of transition().
LEMMA SerialWrite ==
  ASSUME GateInv, SerialInv, NEW w \in Worker, WriteState(w)
  PROVE  SerialInv'
<1>1. PICK o \in WriteOp : \E y \in Seq(Op) : Commits(w, o, y)
  BY WriteFacts
<1>2. PICK y \in Seq(Op) : Commits(w, o, y)
  BY <1>1
<1>3. /\ todo[w] = <<o>> \o y
      /\ ~Light(todo[w]) /\ o \in Op /\ o.op = "write"
      /\ Goto(w, OnEntry(o.p, o.to) \o y)
      /\ o.p \in Pipeline /\ o.to \in Target
      /\ o.to \in VALID_TRANSITIONS(o.from)
      /\ row[o.p].state = o.from
      /\ row'[o.p].state = o.to
      /\ row'[o.p].slot = IF o.slot = NoSlot THEN row[o.p].slot ELSE o.slot
      /\ \A p \in Pipeline \ {o.p} : row'[p] = row[p]
      /\ UNCHANGED <<queue, appts>>
      /\ WellFormed(y)
      /\ y # <<>> => Follows(y[1], o.p, o.to)
      /\ y # <<>> /\ o.to = "PA_PENDING" => row[o.p].slot = y[1].slot
      /\ (o.slot # NoSlot) <=> (o.to = "SLOT_HELD")
      /\ o.to = "SLOT_HELD" => y[2].slot = o.slot
  BY <1>2 DEF Commits
<1>4. o.from # "BOOKED"
  BY <1>3 DEF VALID_TRANSITIONS
<1>5. \A a \in appts : a.p \in Pipeline /\ row[a.p].state = "BOOKED"
  BY DEF GateInv, TablesOK, Appointment, SerialInv, VisitsAreBooked
<1>6. \A a \in appts : a.p # o.p
  BY <1>3, <1>4, <1>5
<1>7. OneWaitingEntry'
  BY <1>3 DEF SerialInv, OneWaitingEntry, Waiting
<1>8. VisitsAreBooked'
  BY <1>3, <1>5, <1>6 DEF VisitsAreBooked
<1>9. Linked(y)' /\ (y # <<>> => ~First(y[1]) /\ y[1].op # "resume")
  <2>1. CASE y = <<>>
    BY <2>1, LinkedLight DEF Light
  <2>2. CASE y # <<>>
    <3>1. PICK n : n = y[1]
      OBVIOUS
    <3>2. n.op \in {"read", "post", "book", "top"}
      BY <1>3, <2>2, <3>1 DEF Follows
    <3>3. ~Quick(n) /\ ~First(n) /\ n.op # "resume"
      BY <3>2 DEF Quick, First
    <3>4. CASE n.op = "read"
      <4>1. n.p = o.p /\ n.to \in VALID_TRANSITIONS(o.to)
        BY <1>3, <2>2, <3>1, <3>4 DEF Follows
      <4>2. n.to = "PA_PENDING" => o.to = "SLOT_HELD"
        BY <4>1 DEF VALID_TRANSITIONS
      <4>3. n.to = "PA_PENDING" => row'[n.p].slot = y[1 + 1].slot
        BY <1>3, <4>1, <4>2
      <4>4. Ready(y, 1)'
        BY <3>1, <3>4, <4>3 DEF Ready, Quick, Move
      <4> QED BY <2>2, <3>1, <3>3, <4>4, LinkedSlow
    <3>5. CASE n.op = "post"
      <4>1. n.p = o.p /\ ((n.slot # NoSlot) <=> (o.to = "PA_PENDING"))
        BY <1>3, <2>2, <3>1, <3>5 DEF Follows
      <4>2. n.slot # NoSlot => row'[n.p].slot = n.slot
        BY <1>3, <2>2, <3>1, <4>1
      <4>3. Ready(y, 1)'
        BY <3>1, <3>5, <4>2 DEF Ready, Quick, Move
      <4> QED BY <2>2, <3>1, <3>3, <4>3, LinkedSlow
    <3>6. CASE n.op = "book"
      <4>1. n.p = o.p /\ o.to = "BOOKED"
        BY <1>3, <2>2, <3>1, <3>6 DEF Follows
      <4>2. Ready(y, 1)'
        BY <1>3, <1>6, <3>1, <3>6, <4>1 DEF Ready, Quick, Move
      <4> QED BY <2>2, <3>1, <3>3, <4>2, LinkedSlow
    <3>7. CASE n.op = "top"
      <4>1. Ready(y, 1)'
        BY <3>1, <3>7 DEF Ready, Quick, Move
      <4> QED BY <2>2, <3>1, <3>3, <4>1, LinkedSlow
    <3> QED BY <3>2, <3>4, <3>5, <3>6, <3>7
  <2> QED BY <2>1, <2>2
<1>10. WellFormed(OnEntry(o.p, o.to) \o y) /\ Linked(OnEntry(o.p, o.to) \o y)'
  BY <1>3, <1>9, EntryKeeps
<1>11. PICK x : x = OnEntry(o.p, o.to) \o y
  OBVIOUS
<1> QED BY <1>3, <1>7, <1>8, <1>10, <1>11, SerialGoto

\* After the commit.
LEMMA SerialEnter ==
  ASSUME GateInv, SerialInv, NEW w \in Worker, Publish(w) \/ HandleTimers(w)
  PROVE  SerialInv'
<1>1. PICK k \in {"publish", "timers"} : At(w, k)
  BY DEF Publish, HandleTimers
<1>2. PICK ops \in Seq(Op) :
        ops = todo[w] /\ ops # <<>> /\ Rest(w) = Tail(ops) /\ ops[1].op = k
  BY <1>1, Now
<1>3. WellFormed(ops) /\ Linked(ops) /\ Quick(ops[1]) /\ ~Light(ops)
  BY <1>1, <1>2, SlowBusy DEF SerialInv, Quick
<1>4. UNCHANGED <<row, queue, appts>>
  BY DEF Publish, HandleTimers, tables
<1>5. PICK x : x = Tail(ops)
  OBVIOUS
<1>6. Goto(w, x)
  BY <1>2, <1>5 DEF Publish, HandleTimers
<1>7. WellFormed(x) /\ Linked(x)'
  BY <1>2, <1>3, <1>4, <1>5, FormedTail, LinkedRest
<1> QED BY <1>2, <1>3, <1>4, <1>6, <1>7, TablesKept, SerialGoto

\* db_queue_upsert.
LEMMA SerialUpsert ==
  ASSUME GateInv, SerialInv, NEW w \in Worker,
         QueueSelect(w) \/ QueueInsert(w) \/ QueueUpdate(w)
  PROVE  SerialInv'
<1>1. CASE QueueSelect(w)
  <2>1. At(w, "queue_select") /\ UNCHANGED <<row, queue, appts>>
    BY <1>1 DEF QueueSelect, tables
  <2>2. OneWaitingEntry' /\ VisitsAreBooked' /\ ~Light(todo[w])
    BY <2>1, TablesKept, SlowBusy
  <2>3. PICK ops \in Seq(Op) :
          /\ ops = todo[w] /\ ops # <<>> /\ Rest(w) = Tail(ops)
          /\ Head(todo[w]) = ops[1] /\ ops[1].op = "queue_select"
    BY <2>1, Now
  <2>4. PICK o : o = ops[1]
    OBVIOUS
  <2>5. o.p \in Pipeline /\ o.score \in Score
    <3>1. o \in QueueOp
      BY <2>1, <2>3, <2>4, Pending, Shapes DEF GateInv
    <3> QED BY <3>1 DEF QueueOp
  <2>6. ASSUME NEW n \in Op, n.op \in {"queue_insert", "queue_update"},
               n.op = "queue_insert" => \A j \in Waiting : queue[j].p # n.p,
               Goto(w, <<n>> \o Rest(w))
        PROVE  SerialInv'
    <3>1. ~Quick(n) /\ ~Move(n)
      BY <2>6 DEF Quick, Move
    <3>2. \A m : Precedes(o, m) => Precedes(n, m)
      BY <2>3, <2>4, <2>6 DEF Precedes, First, Last, Quick, Move
    <3>3. MayEnd(o) => MayEnd(n)
      BY <2>6, <3>1 DEF MayEnd
    <3>4. PICK x : x = <<n>> \o Rest(w)
      OBVIOUS
    <3>5. x[1] = n
      BY <2>3, <3>4, TailParts, ConsParts
    <3>6. Waiting' = Waiting
      BY <2>1 DEF Waiting
    <3>7. Ready(x, 1)'
      BY <2>1, <2>6, <3>1, <3>5, <3>6 DEF Ready
    <3>8. Goto(w, x)
      BY <2>6, <3>4
    <3> QED BY <2>1, <2>2, <2>3, <2>4, <3>1, <3>2, <3>3, <3>4, <3>7, <3>8, GoOn
  <2>7. CASE /\ \A i \in Waiting : queue[i].p # o.p
             /\ Goto(w, <<[op |-> "queue_insert", p |-> o.p,
                           score |-> o.score]>> \o Rest(w))
    <3>1. PICK n : n = [op |-> "queue_insert", p |-> o.p, score |-> o.score]
      OBVIOUS
    <3>2. n \in Op
      BY <2>5, <3>1 DEF QueueOp, InsertOp, Op
    <3>3. n.op = "queue_insert" /\ n.p = o.p
      BY <3>1
    <3> QED BY <2>6, <2>7, <3>1, <3>2, <3>3
  <2>8. CASE \E i \in Waiting :
               Goto(w, <<[op |-> "queue_update", entry |-> i,
                          score |-> o.score]>> \o Rest(w))
    <3>1. PICK i \in Waiting :
               Goto(w, <<[op |-> "queue_update", entry |-> i,
                          score |-> o.score]>> \o Rest(w))
      BY <2>8
    <3>2. PICK n : n = [op |-> "queue_update", entry |-> i, score |-> o.score]
      OBVIOUS
    <3>3. i \in Nat \ {0}
      BY DEF Waiting, GateInv, TablesOK
    <3>4. n \in Op
      BY <2>5, <3>2, <3>3 DEF EntryOp, ScriptOp, Op
    <3>5. n.op = "queue_update"
      BY <3>2
    <3> QED BY <2>6, <3>1, <3>2, <3>4, <3>5
  <2> QED BY <1>1, <2>3, <2>4, <2>7, <2>8 DEF QueueSelect
<1>2. CASE QueueInsert(w)
  <2>1. At(w, "queue_insert") /\ UNCHANGED <<row, appts>> /\ Goto(w, Rest(w))
    BY <1>2 DEF QueueInsert
  <2>2. PICK ops \in Seq(Op) :
          /\ ops = todo[w] /\ ops # <<>>
          /\ Head(todo[w]) = ops[1] /\ ops[1].op = "queue_insert"
    BY <2>1, Now
  <2>3. PICK o \in InsertOp : o = ops[1]
    BY <2>1, <2>2, Pending, Shapes DEF GateInv
  <2>4. Linked(ops) /\ ~Quick(ops[1])
    BY <2>2 DEF SerialInv, Quick
  <2>5. \A j \in Waiting : queue[j].p # o.p
    <3>1. Ready(ops, 1)
      BY <2>2, <2>4, LinkedSlow
    <3> QED BY <2>2, <2>3, <3>1 DEF Ready
  <2>6. PICK e : e = [p |-> o.p, score |-> o.score, status |-> "waiting"]
    OBVIOUS
  <2>7. e \in Entry /\ e.p = o.p
    BY <2>3, <2>6 DEF InsertOp, Entry
  <2>8. queue' = Append(queue, e) /\ queue \in Seq(Entry)
    BY <1>2, <2>2, <2>3, <2>6 DEF QueueInsert, GateInv, TablesOK
  <2>9. /\ DOMAIN queue' = 1..(Len(queue) + 1) /\ queue'[Len(queue) + 1] = e
        /\ Len(queue) \in Nat
        /\ \A i \in 1..Len(queue) : i \in DOMAIN queue /\ queue'[i] = queue[i]
    BY <2>7, <2>8, AppendWaits
  <2>10. ASSUME NEW i \in Waiting'
         PROVE  /\ i = Len(queue) + 1 => queue'[i].p = o.p
                /\ i # Len(queue) + 1 =>
                     i \in Waiting /\ queue'[i].p = queue[i].p
    BY <2>7, <2>9 DEF Waiting
  <2>11. OneWaitingEntry'
    BY <2>5, <2>10 DEF SerialInv, OneWaitingEntry
  <2>12. VisitsAreBooked'
    BY <2>1 DEF SerialInv, VisitsAreBooked
  <2> QED BY <2>1, <2>11, <2>12, GoRest
<1>3. CASE QueueUpdate(w)
  <2>1. At(w, "queue_update") /\ UNCHANGED <<row, appts>> /\ Goto(w, Rest(w))
    BY <1>3 DEF QueueUpdate
  <2>2. PICK i, c : queue' = [queue EXCEPT ![i].score = c]
    BY <1>3 DEF QueueUpdate
  <2>3. queue \in Seq(Entry)
    BY DEF GateInv, TablesOK
  <2>4. \A j \in DOMAIN queue : queue[j] \in Entry
    BY <2>3, ElementOfSeq
  <2>5. /\ DOMAIN queue' = DOMAIN queue
        /\ \A j \in DOMAIN queue : /\ queue'[j].p = queue[j].p
                                   /\ queue'[j].status = queue[j].status
    BY <2>2, <2>4 DEF Entry
  <2>6. OneWaitingEntry'
    BY <2>5 DEF SerialInv, OneWaitingEntry, Waiting
  <2>7. VisitsAreBooked'
    BY <2>1 DEF SerialInv, VisitsAreBooked
  <2> QED BY <2>1, <2>6, <2>7, GoRest
<1> QED BY <1>1, <1>2, <1>3

\* get_top_queue, and the entry it returned.
LEMMA SerialPull ==
  ASSUME GateInv, SerialInv, NEW w \in Worker, GetTopQueue(w) \/ MarkInvited(w)
  PROVE  SerialInv'
<1>1. CASE GetTopQueue(w)
  <2>1. At(w, "top") /\ UNCHANGED <<row, queue, appts>>
    BY <1>1 DEF GetTopQueue, tables
  <2>2. PICK ops \in Seq(Op) :
          /\ ops = todo[w] /\ ops # <<>> /\ Rest(w) = Tail(ops)
          /\ Head(todo[w]) = ops[1] /\ ops[1].op = "top" /\ ops[1] \in Op
    BY <2>1, Now
  <2>3. PICK o \in PullOp : o = ops[1]
    BY <2>2, Shapes
  <2>4. Rest(w) = <<>> /\ ~Light(todo[w])
    BY <2>1, <2>2, LastAlone, SlowBusy DEF SerialInv, Last
  <2>5. CASE Goto(w, Rest(w))
    BY <2>1, <2>4, <2>5, GoNowhere DEF Raise
  <2>6. ASSUME NEW i \in Waiting,
               Goto(w, PullNext(i, queue[i].p, o.owner) \o Rest(w))
        PROVE  SerialInv'
    <3>1. i \in Nat \ {0} /\ queue[i].p \in Pipeline
      <4>1. i \in Nat \ {0} /\ queue[i] \in Entry
        BY ElementOfSeq DEF Waiting, GateInv, TablesOK
      <4> QED BY <4>1 DEF Entry
    <3>2. PICK x : x = PullNext(i, queue[i].p, o.owner)
      OBVIOUS
    <3>3. x \in Seq(Op) /\ Script(x)
      BY <2>3, <3>1, <3>2, PullFormed DEF Script, Formed, PullOp
    <3>4. Goto(w, x)
      BY <2>4, <2>6, <3>2, <3>3, ConcatEmptySeq
    <3> QED BY <2>1, <2>4, <3>3, <3>4, GoScript
  <2> QED BY <1>1, <2>2, <2>3, <2>5, <2>6 DEF GetTopQueue
<1>2. CASE MarkInvited(w)
  <2>1. At(w, "mark") /\ UNCHANGED <<row, appts>> /\ Goto(w, Rest(w))
    BY <1>2 DEF MarkInvited
  <2>2. PICK i : queue' = [queue EXCEPT ![i].status = "invited"]
    BY <1>2 DEF MarkInvited
  <2>3. \A j \in DOMAIN queue : queue[j] \in Entry
    BY ElementOfSeq DEF GateInv, TablesOK
  <2>4. /\ DOMAIN queue' = DOMAIN queue
        /\ \A j \in DOMAIN queue :
             /\ queue'[j].p = queue[j].p
             /\ queue'[j].status = "waiting" => queue[j].status = "waiting"
    BY <2>2, <2>3 DEF Entry
  <2>5. OneWaitingEntry'
    BY <2>4 DEF SerialInv, OneWaitingEntry, Waiting
  <2>6. VisitsAreBooked'
    BY <2>1 DEF SerialInv, VisitsAreBooked
  <2> QED BY <2>1, <2>5, <2>6, GoRest
<1> QED BY <1>1, <1>2

\* The appointment and the dropped e-mails.
LEMMA SerialRecord ==
  ASSUME GateInv, SerialInv, NEW w \in Worker,
         ReadBooked(w) \/ WriteAppointment(w) \/ LogDrop(w)
  PROVE  SerialInv'
<1>1. CASE ReadBooked(w)
  <2>1. At(w, "book") /\ UNCHANGED <<row, queue, appts>>
    BY <1>1 DEF ReadBooked, tables
  <2>2. PICK ops \in Seq(Op) :
          /\ ops = todo[w] /\ ops # <<>> /\ Rest(w) = Tail(ops)
          /\ Head(todo[w]) = ops[1] /\ ops[1].op = "book" /\ ops[1] \in Op
    BY <2>1, Now
  <2>3. PICK o \in RowOp : o = ops[1]
    BY <2>2, Shapes
  <2>4. /\ Rest(w) = <<>> /\ ~Light(todo[w]) /\ Last(ops[1])
        /\ OneWaitingEntry' /\ VisitsAreBooked'
    BY <2>1, <2>2, LastAlone, SlowBusy, TablesKept DEF SerialInv, Last
  <2>5. CASE Goto(w, Rest(w))
    BY <2>1, <2>4, <2>5, GoNowhere DEF Raise
  <2>6. PICK n : n = [op |-> "appoint", p |-> o.p, slot |-> row[o.p].slot]
    OBVIOUS
  <2>7. o.p \in Pipeline /\ n \in Op
    <3>1. o.p \in Pipeline
      BY <2>3 DEF RowOp
    <3>2. row[o.p] \in Row \cup {NoRow}
      BY <3>1 DEF GateInv, TablesOK
    <3>3. row[o.p].slot \in Slot \cup {NoSlot}
      BY <3>2 DEF Row, NoRow
    <3> QED BY <2>6, <3>1, <3>3 DEF ApptOp, ScriptOp, Op
  <2>8. n.op = "appoint" /\ n.p = o.p /\ n.slot = row[o.p].slot
    BY <2>6
  <2>9. ~Quick(n) /\ ~Move(n) /\ MayEnd(n)
    BY <2>8 DEF Quick, Move, MayEnd
  <2>10. \A m : ~Precedes(ops[1], m)
    BY <2>4 DEF Precedes
  <2>11. PICK x : x = <<n>> \o Rest(w)
    OBVIOUS
  <2>12. x[1] = n
    BY <2>2, <2>7, <2>11, TailParts, ConsParts
  <2>13. row[o.p].state = "BOOKED" /\ \A a \in appts : a.p # o.p
    <3>1. Linked(ops) /\ ~Quick(ops[1])
      BY <2>2 DEF SerialInv, Quick
    <3>2. Ready(ops, 1)
      BY <2>2, <3>1, LinkedSlow
    <3> QED BY <2>2, <2>3, <3>2 DEF Ready
  <2>14. Ready(x, 1)'
    BY <2>1, <2>8, <2>9, <2>12, <2>13 DEF Ready
  <2>15. CASE Goto(w, x)
    BY <2>1, <2>2, <2>4, <2>7, <2>9, <2>10, <2>11, <2>14, <2>15, GoOn
  <2> QED BY <1>1, <2>2, <2>3, <2>5, <2>6, <2>11, <2>15 DEF ReadBooked
<1>2. CASE WriteAppointment(w)
  <2>1. At(w, "appoint") /\ UNCHANGED <<row, queue>> /\ Goto(w, Rest(w))
    BY <1>2 DEF WriteAppointment
  <2>2. PICK ops \in Seq(Op) :
          /\ ops = todo[w] /\ ops # <<>>
          /\ Head(todo[w]) = ops[1] /\ ops[1].op = "appoint" /\ ops[1] \in Op
    BY <2>1, Now
  <2>3. row[ops[1].p].state = "BOOKED"
    <3>1. Linked(ops) /\ ~Quick(ops[1])
      BY <2>2 DEF SerialInv, Quick
    <3>2. Ready(ops, 1)
      BY <2>2, <3>1, LinkedSlow
    <3> QED BY <2>2, <3>2 DEF Ready
  <2>4. PICK a : a = [id   |-> Cardinality(appts) + 1,
                      p    |-> ops[1].p,
                      slot |-> ops[1].slot]
    OBVIOUS
  <2>5. appts' = appts \cup {a} /\ a.p = ops[1].p
    BY <1>2, <2>2, <2>4 DEF WriteAppointment
  <2>6. VisitsAreBooked'
    BY <2>1, <2>3, <2>5 DEF SerialInv, VisitsAreBooked
  <2>7. OneWaitingEntry'
    BY <2>1 DEF SerialInv, OneWaitingEntry, Waiting
  <2> QED BY <2>1, <2>6, <2>7, GoRest
<1>3. CASE LogDrop(w)
  <2>1. At(w, "droplog") /\ UNCHANGED <<row, queue, appts>> /\ Goto(w, Rest(w))
    BY <1>3 DEF LogDrop
  <2> QED BY <2>1, TablesKept, GoRest
<1> QED BY <1>1, <1>2, <1>3

\* A dispatch, its response and its failure.
LEMMA SerialCall ==
  ASSUME GateInv, SerialInv, NEW w \in Worker,
         PostReaches(w) \/ PostAcked(w) \/ DispatchFails(w)
  PROVE  SerialInv'
<1>1. PICK k \in {"post", "ack"} : At(w, k)
  BY DEF PostReaches, PostAcked, DispatchFails
<1>2. UNCHANGED <<row, queue, appts>>
  BY DEF PostReaches, PostAcked, DispatchFails, tables
<1>3. PICK ops \in Seq(Op) :
        /\ ops = todo[w] /\ ops # <<>> /\ Rest(w) = Tail(ops)
        /\ Head(todo[w]) = ops[1] /\ ops[1].op = k /\ ops[1] \in Op
  BY <1>1, Now
<1>4. PICK o \in CallOp : o = ops[1]
  BY <1>3, Shapes
<1>5. Last(ops[1]) /\ Rest(w) = <<>> /\ OneWaitingEntry' /\ VisitsAreBooked'
  BY <1>2, <1>3, LastAlone, TablesKept DEF SerialInv, Last
<1>6. CASE PostReaches(w)
  <2>1. At(w, "post") /\ ~Light(todo[w])
    BY <1>6, SlowBusy DEF PostReaches
  <2>2. PICK n : n = [o EXCEPT !.op = "ack"]
    OBVIOUS
  <2>3. n \in CallOp /\ n.op = "ack"
    BY <1>4, <2>2 DEF CallOp
  <2>4. n \in Op
    BY <2>3 DEF ScriptOp, Op
  <2>5. ~Quick(n) /\ ~Move(n) /\ MayEnd(n)
    BY <2>3 DEF Quick, Move, MayEnd
  <2>6. \A m : ~Precedes(ops[1], m)
    BY <1>5 DEF Precedes
  <2>7. PICK x : x = <<n>> \o Rest(w)
    OBVIOUS
  <2>8. x[1] = n
    BY <1>3, <2>4, <2>7, TailParts, ConsParts
  <2>9. Ready(x, 1)'
    BY <2>3, <2>5, <2>8 DEF Ready
  <2>10. Goto(w, x)
    BY <1>3, <1>4, <1>6, <2>2, <2>7 DEF PostReaches
  <2> QED BY <1>3, <1>5, <2>1, <2>4, <2>5, <2>6, <2>7, <2>9, <2>10, GoOn
<1>7. CASE PostAcked(w)
  BY <1>2, <1>5, <1>7, GoNowhere DEF PostAcked, Raise
<1>8. CASE DispatchFails(w)
  <2>1. CASE o.owner = NoPipeline
    BY <1>2, <1>3, <1>4, <1>8, <2>1, GoNowhere DEF DispatchFails, Raise
  <2>2. CASE o.owner # NoPipeline
    <3>1. o.owner \in Pipeline
      BY <1>4, <2>2 DEF CallOp
    <3>2. PICK x : x = Transition(o.owner, "AGENT_UNREACHABLE")
      OBVIOUS
    <3>3. /\ x \in Formed /\ x # <<>> /\ Len(x) = 1
          /\ x[1] = ReadOf(o.owner, "AGENT_UNREACHABLE", NoSlot)
      BY <3>1, <3>2, FormedEnd
    <3>4. Script(x) /\ Light(x)
      <4>1. Script(x)
        BY <3>3, ReadOpens DEF Script
      <4>2. x[1].op = "read" /\ x[1].to = "AGENT_UNREACHABLE"
        BY <3>3 DEF ReadOf
      <4>3. Light(x)
        BY <3>3, <4>2 DEF Light
      <4> QED BY <4>1, <4>3
    <3>5. Goto(w, x)
      BY <1>3, <1>4, <1>8, <2>2, <3>2 DEF DispatchFails
    <3> QED BY <1>2, <3>4, <3>5, GoScript
  <2> QED BY <2>1, <2>2
<1> QED BY <1>6, <1>7, <1>8

\* Errors, crashes and expiry.
LEMMA SerialFailure ==
  ASSUME GateInv, SerialInv,
         Crash \/ ExpireTimer \/ ReportFails \/ \E w \in Worker : CallRaises(w)
  PROVE  SerialInv'
<1>1. UNCHANGED <<row, queue, appts>>
  BY DEF Crash, ExpireTimer, ReportFails, KeepReport, CallRaises, tables
<1>2. OneWaitingEntry' /\ VisitsAreBooked'
  BY <1>1, TablesKept
<1>3. CASE Crash
  <2>1. PICK x : x = <<>>
    OBVIOUS
  <2>2. x \in Seq(Op) /\ WellFormed(x) /\ Light(x)
    BY <2>1, FormedNil
  <2>3. Linked(x)'
    BY <2>2, LinkedLight
  <2>4. \A v \in Worker : todo'[v] = x
    BY <1>3, <2>1 DEF Crash
  <2>5. ASSUME NEW v \in Worker
        PROVE  WellFormed(todo[v])' /\ Linked(todo[v])' /\ Light(todo[v])'
    <3>1. todo'[v] = x
      BY <2>4
    <3> QED BY <2>2, <2>3, <3>1 DEF Linked, Ready
  <2> QED BY <1>2, <2>5 DEF SerialInv, OneBusy
<1>4. CASE ExpireTimer \/ ReportFails
  <2>1. UNCHANGED <<row, queue, appts, todo>>
    BY <1>4 DEF ExpireTimer, ReportFails, KeepReport, tables
  <2> QED BY <2>1 DEF SerialInv, OneBusy, OneWaitingEntry, VisitsAreBooked,
                      Linked, Ready, Waiting
<1>5. CASE \E w \in Worker : CallRaises(w)
  BY <1>1, <1>5, GoNowhere DEF CallRaises
<1> QED BY <1>3, <1>4, <1>5

\* Every step preserves the invariant.
LEMMA SerialStep ==
  ASSUME GateInv, SerialInv, Serial, [Next]_vars
  PROVE  SerialInv'
<1>1. CASE UNCHANGED vars
  BY <1>1 DEF vars, SerialInv, OneBusy, OneWaitingEntry, VisitsAreBooked,
              Linked, Ready, Waiting
<1>2. ASSUME NEW w \in Worker, Step(w) PROVE SerialInv'
  BY <1>2, SerialCreate, SerialRead, SerialWrite, SerialEnter, SerialUpsert,
     SerialPull, SerialRecord, SerialCall DEF Step
<1>3. ASSUME NEW w \in Worker, NEW t \in Task, Receive(w, t) PROVE SerialInv'
  BY <1>3, SerialReceive
<1> QED BY <1>1, <1>2, <1>3, SerialCall, SerialFailure DEF Next

\* Nothing is left to do at first.
LEMMA SerialInit == Init => SerialInv
<1> SUFFICES ASSUME Init PROVE SerialInv
  OBVIOUS
<1>1. ASSUME NEW w \in Worker
      PROVE  WellFormed(todo[w]) /\ Linked(todo[w]) /\ Light(todo[w])
  <2>1. todo[w] = <<>>
    BY DEF Init
  <2> QED BY <2>1, FormedNil, LinkedLight
<1>2. queue = <<>> /\ appts = {}
  BY DEF Init
<1>3. OneWaitingEntry /\ VisitsAreBooked
  BY <1>2, EmptySeq DEF OneWaitingEntry, VisitsAreBooked, Waiting
<1> QED BY <1>1, <1>3 DEF SerialInv, OneBusy

\* The invariant holds in every reachable state.
THEOREM SerialInvariant == Serial => (Spec => []SerialInv)
<1> SUFFICES ASSUME Serial PROVE Spec => []SerialInv
  OBVIOUS
<1>1. GateInv /\ SerialInv /\ [Next]_vars => SerialInv'
  BY SerialStep
<1> QED BY <1>1, Invariant, SerialInit, PTL DEF Spec

---------------------------------------------------------------------------
(* What the coroutines come to next, before and after a step. *)

\* A coroutine goes on with x: what it comes to in x is upcoming, and of
\* what was upcoming only its own first operation is gone.
LEMMA Kept ==
  ASSUME GateInv, NEW w \in Worker, NEW k, At(w, k),
         NEW x, Goto(w, x), k \notin {"publish", "timers"} \/ x = Rest(w)
  PROVE  /\ \A o \in Upcoming : o = Head(todo[w]) \/ o \in Upcoming'
         /\ \A o \in Heads(x) : o \in Upcoming'
<1>1. PICK ops \in Seq(Op) :
        /\ ops = todo[w] /\ ops # <<>> /\ Rest(w) = Tail(ops)
        /\ Head(todo[w]) = ops[1] /\ ops[1].op = k
  BY Now
<1>2. /\ todo'[w] = x
      /\ \A v \in Worker \ {w} : todo'[v] = todo[v]
  BY TodoType DEF Goto
<1>3. \A o \in Heads(x) : o \in Upcoming'
  <2>1. Upcoming' = UNION {Heads(todo'[v]) : v \in Worker}
    BY DEF Upcoming, Heads, Front
  <2> QED BY <1>2, <2>1
<1>4. ASSUME NEW o \in Upcoming, o # Head(todo[w])
      PROVE  o \in Upcoming'
  <2>1. Upcoming' = UNION {Heads(todo'[v]) : v \in Worker}
    BY DEF Upcoming, Heads, Front
  <2>2. PICK v \in Worker : o \in Heads(todo[v])
    BY DEF Upcoming
  <2>3. CASE v # w
    BY <1>2, <2>1, <2>2, <2>3
  <2>4. CASE v = w
    <3>1. o \in IF Quick(ops[1]) THEN Heads(Tail(ops)) ELSE {}
      BY <1>1, <1>4, <2>2, <2>4, HeadsSplit
    <3>2. Quick(ops[1]) => x = Tail(ops)
      BY <1>1 DEF Quick
    <3>3. o \in Heads(x)
      BY <3>1, <3>2
    <3> QED BY <1>3, <3>3
  <2> QED BY <2>3, <2>4
<1> QED BY <1>3, <1>4

\* Nothing but the operation at the head is upcoming for a busy coroutine
\* whose operation is not quick; the others wait or give up a pipeline.
LEMMA OnlyBusy ==
  ASSUME GateInv, SerialInv, NEW w \in Worker, NEW k, At(w, k),
         ~Light(todo[w]), k \notin {"publish", "timers"}, NEW o \in Upcoming
  PROVE  \/ o = Head(todo[w])
         \/ o.op = "ack"
         \/ o.op = "read" /\ o.to = "AGENT_UNREACHABLE"
<1>1. PICK v \in Worker : o \in Heads(todo[v])
  BY DEF Upcoming
<1>2. CASE v = w
  <2>1. PICK ops \in Seq(Op) :
          /\ ops = todo[w] /\ ops # <<>>
          /\ Head(todo[w]) = ops[1] /\ ops[1].op = k
    BY Now
  <2>2. ~Quick(ops[1])
    BY <2>1 DEF Quick
  <2> QED BY <1>1, <1>2, <2>1, <2>2, HeadsSplit
<1>3. CASE v # w
  <2>1. Light(todo[v])
    BY <1>3 DEF SerialInv, OneBusy
  <2>2. PICK i \in DOMAIN todo[v] : o = todo[v][i]
    BY <1>1 DEF Heads
  <2>3. CASE todo[v] = <<>>
    BY <1>1, <2>3, HeadsNil
  <2>4. CASE todo[v] # <<>>
    <3>1. PICK y \in Seq(Op) : y = todo[v]
      BY TodoType
    <3>2. Len(y) = 1 /\ DOMAIN y = 1..Len(y)
      BY <2>1, <2>4, <3>1, LenProperties DEF Light
    <3>3. i = 1
      BY <2>2, <3>1, <3>2
    <3> QED BY <2>1, <2>2, <2>4, <3>3 DEF Light
  <2> QED BY <2>3, <2>4
<1> QED BY <1>2, <1>3

\* Between tasks only responses are waited for.
LEMMA QuietUpcoming ==
  ASSUME GateInv, Quiet, NEW o \in Upcoming
  PROVE  o.op = "ack"
<1>1. PICK v \in Worker : o \in Heads(todo[v])
  BY DEF Upcoming
<1>2. CASE Idle(v)
  BY <1>1, <1>2, HeadsNil DEF Idle
<1>3. CASE At(v, "ack")
  <2>1. PICK ops \in Seq(Op) :
          /\ ops = todo[v] /\ ops # <<>>
          /\ Head(todo[v]) = ops[1] /\ ops[1].op = "ack"
    BY <1>3, Now
  <2>2. ~Quick(ops[1])
    BY <2>1 DEF Quick
  <2> QED BY <1>1, <2>1, <2>2, HeadsSplit
<1> QED BY <1>2, <1>3 DEF Quiet, Parked

\* What comes next after a commit: the rest, behind the timers.
LEMMA EntryHeads ==
  ASSUME NEW p \in Pipeline, NEW s \in Target, NEW y \in Seq(Op)
  PROVE  /\ \A o \in Heads(y) : o \in Heads(OnEntry(p, s) \o y)
         /\ TimersSet(s) \cup TimersCancelled(s) # {} =>
              \E o \in Heads(OnEntry(p, s) \o y) :
                o.op = "timers" /\ o.p = p /\ o.to = s
<1> DEFINE a == [op |-> "publish", p |-> p, to |-> s]
           b == [op |-> "timers", p |-> p, to |-> s]
           T == TimersSet(s) \cup TimersCancelled(s) # {}
<1>1. a \in Op /\ b \in Op
  BY DEF EnterOp, ScriptOp, Op
<1>2. Quick(a) /\ Quick(b) /\ b.p = p /\ b.to = s /\ b.op = "timers"
  BY DEF Quick
<1>3. \/ OnEntry(p, s) = <<>> \o <<>> /\ ~T
      \/ OnEntry(p, s) = <<a>> \o <<>> /\ ~T
      \/ OnEntry(p, s) = <<>> \o <<b>> /\ T
      \/ OnEntry(p, s) = <<a>> \o <<b>> /\ T
  BY DEF OnEntry
<1> HIDE DEF a, b, T
<1>4. /\ <<>> \in Seq(Op) /\ <<a>> \in Seq(Op) /\ <<b>> \in Seq(Op)
      /\ <<>> \o <<>> = <<>> /\ <<a>> \o <<>> = <<a>> /\ <<>> \o <<b>> = <<b>>
      /\ <<>> \o y = y
  BY <1>1, EmptySeq, ConcatEmptySeq
<1>5. CASE OnEntry(p, s) = <<>> /\ ~T
  BY <1>4, <1>5 DEF T
<1>6. CASE OnEntry(p, s) = <<a>> /\ ~T
  <2>1. Heads(<<a>> \o y) = {a} \cup Heads(y)
    BY <1>1, <1>2, HeadsCons
  <2> QED BY <1>6, <2>1 DEF T
<1>7. CASE OnEntry(p, s) = <<b>> /\ T
  <2>1. Heads(<<b>> \o y) = {b} \cup Heads(y)
    BY <1>1, <1>2, HeadsCons
  <2> QED BY <1>2, <1>7, <2>1
<1>8. CASE OnEntry(p, s) = <<a>> \o <<b>> /\ T
  <2>1. (<<a>> \o <<b>>) \o y = <<a>> \o (<<b>> \o y)
    <3>1. \A u, v, z \in Seq(Op) : (u \o v) \o z = u \o (v \o z)
      BY Regroup, Zenon
    <3> QED BY <1>4, <3>1, Zenon
  <2> DEFINE z == <<b>> \o y
  <2>2. z \in Seq(Op) /\ Heads(z) = {b} \cup Heads(y)
    BY <1>1, <1>2, HeadsCons, ConsParts
  <2> HIDE DEF z
  <2>3. Heads(<<a>> \o z) = {a} \cup Heads(z)
    BY <1>1, <1>2, <2>2, HeadsCons
  <2> QED BY <1>2, <1>8, <2>1, <2>2, <2>3 DEF z
<1> QED BY <1>3, <1>4, <1>5, <1>6, <1>7, <1>8

\* The first operation is upcoming.
LEMMA FirstUpcoming ==
  ASSUME NEW ops \in Seq(Op), ops # <<>>
  PROVE  ops[1] \in Heads(ops)
BY HeadsSplit

---------------------------------------------------------------------------
(* What a step does to the tables and to what is upcoming. *)

\* Of what was upcoming at most c is gone.
Loses(c) == \A o \in Upcoming : o = c \/ o \in Upcoming'

\* A step that leaves the rows and the visits alone keeps each invariant
\* unless the operation it performs is one that the invariant counts on.
LEMMA LossKeeps ==
  ASSUME UNCHANGED <<row, appts>>, asked \subseteq asked', dlq \subseteq dlq',
         NEW c, Loses(c)
  PROVE  /\ c.op \notin {"book", "appoint"} /\ BookInv => BookInv'
         /\ c.op # "timers" /\ timers' \subseteq timers /\ audit \subseteq audit'
              /\ TimerInv => TimerInv'
         /\ c.op # "post" /\ ShowInv => ShowInv'
         /\ c.op \notin {"read", "write", "post", "resume"} /\ StrandInv
              => StrandInv'
<1>1. ASSUME c.op \notin {"book", "appoint"}, BookInv
      PROVE  BookInv'
  BY <1>1 DEF Loses, BookInv
<1>2. ASSUME c.op # "timers", timers' \subseteq timers, audit \subseteq audit',
             TimerInv
      PROVE  TimerInv'
  BY <1>2 DEF Loses, TimerInv, Escalated
<1>3. ASSUME c.op # "post", ShowInv
      PROVE  ShowInv'
  BY <1>3 DEF Loses, ShowInv, ShownTo, RequestOf
<1>4. ASSUME c.op \notin {"read", "write", "post", "resume"}, StrandInv
      PROVE  StrandInv'
  <2>1. ASSUME NEW p, NEW s, NEW o, Serves(o, p, s)
        PROVE  o # c
    BY <1>4, <2>1 DEF Serves, Move
  <2> QED BY <1>4, <2>1 DEF Loses, StrandInv, Exists, Serves, Move
<1> QED BY <1>1, <1>2, <1>3, <1>4

\* The steps of a coroutine that leave the rows and the visits alone.
Tame(w) ==
  \/ LookupEmail(w) \/ ReadForResume(w) \/ ReadState(w)
  \/ Publish(w) \/ HandleTimers(w)
  \/ QueueSelect(w) \/ QueueInsert(w) \/ QueueUpdate(w)
  \/ GetTopQueue(w) \/ MarkInvited(w) \/ ReadBooked(w) \/ LogDrop(w)
  \/ PostReaches(w) \/ PostAcked(w) \/ DispatchFails(w)

\* What they do.
LEMMA TameStep ==
  ASSUME GateInv, NEW w \in Worker, Tame(w)
  PROVE  /\ UNCHANGED <<row, appts>>
         /\ asked \subseteq asked' /\ dlq \subseteq dlq'
         /\ timers' = timers \/ HandleTimers(w)
         /\ Loses(Head(todo[w]))
<1>1. /\ UNCHANGED <<row, appts>>
      /\ asked \subseteq asked' /\ dlq \subseteq dlq'
      /\ timers' = timers \/ HandleTimers(w)
  BY DEF Tame, LookupEmail, ReadForResume, ReadState, Publish, HandleTimers,
         QueueSelect, QueueInsert, QueueUpdate, GetTopQueue, MarkInvited,
         ReadBooked, LogDrop, PostReaches, PostAcked, DispatchFails, tables
<1>2. CASE Publish(w) \/ HandleTimers(w)
  <2>1. PICK k : At(w, k) /\ Goto(w, Rest(w))
    BY <1>2 DEF Publish, HandleTimers
  <2>2. PICK x : x = Rest(w)
    OBVIOUS
  <2> QED BY <1>1, <2>1, <2>2, Kept DEF Loses
<1>3. CASE \/ LookupEmail(w) \/ ReadForResume(w) \/ ReadState(w)
           \/ QueueSelect(w) \/ QueueInsert(w) \/ QueueUpdate(w)
           \/ GetTopQueue(w) \/ MarkInvited(w) \/ ReadBooked(w) \/ LogDrop(w)
           \/ PostReaches(w) \/ PostAcked(w) \/ DispatchFails(w)
  <2>1. PICK k \in {"create", "resume", "read", "queue_select",
                    "queue_insert", "queue_update", "top", "mark", "book",
                    "droplog", "post", "ack"} : At(w, k)
    BY <1>3 DEF LookupEmail, ReadForResume, ReadState, QueueSelect,
                QueueInsert, QueueUpdate, GetTopQueue, MarkInvited,
                ReadBooked, LogDrop, PostReaches, PostAcked, DispatchFails
  <2>2. PICK x : Goto(w, x)
    <3>1. CASE \/ LookupEmail(w) \/ ReadForResume(w) \/ ReadState(w)
               \/ ReadBooked(w) \/ PostReaches(w) \/ DispatchFails(w)
      BY <3>1, Zenon DEF LookupEmail, ReadForResume, ReadState, ReadBooked,
                         PostReaches, DispatchFails, Raise
    <3>2. CASE \/ QueueSelect(w) \/ QueueInsert(w) \/ QueueUpdate(w)
               \/ GetTopQueue(w) \/ MarkInvited(w) \/ LogDrop(w)
               \/ PostAcked(w)
      BY <3>2, Zenon DEF QueueSelect, QueueInsert, QueueUpdate, GetTopQueue,
                         MarkInvited, LogDrop, PostAcked
    <3> QED BY <1>3, <3>1, <3>2
  <2> QED BY <1>1, <2>1, <2>2, Kept DEF Loses
<1> QED BY <1>1, <1>2, <1>3 DEF Tame

\* Which of them it is, by the operation it performs.
LEMMA TameKind ==
  ASSUME GateInv, NEW w \in Worker, Tame(w)
  PROVE  LET k == Head(todo[w]).op
         IN  /\ k \notin {"write", "appoint"}
             /\ k = "book" => ReadBooked(w)
             /\ k = "read" => ReadState(w)
             /\ k = "resume" => ReadForResume(w)
             /\ k = "timers" <=> HandleTimers(w)
             /\ k = "post" => PostReaches(w) \/ DispatchFails(w)
BY DEF Tame, At, LookupEmail, ReadForResume, ReadState, Publish, HandleTimers,
       QueueSelect, QueueInsert, QueueUpdate, GetTopQueue, MarkInvited,
       ReadBooked, LogDrop, PostReaches, PostAcked, DispatchFails

\* What other steps do to them.
LEMMA ReceiveLoses ==
  ASSUME GateInv, NEW w \in Worker, NEW t \in Task, Receive(w, t)
  PROVE  /\ UNCHANGED <<row, appts, timers, asked, dlq>>
         /\ \A o \in Upcoming : o \in Upcoming'
<1>1. /\ todo[w] = <<>> /\ UNCHANGED <<row, appts, timers, asked, dlq>>
      /\ \A v \in Worker \ {w} : todo'[v] = todo[v]
  BY TodoType DEF Receive, Idle, Goto, tables
<1>2. Upcoming' = UNION {Heads(todo'[v]) : v \in Worker}
  BY DEF Upcoming, Heads, Front
<1>3. ASSUME NEW o \in Upcoming
      PROVE  o \in Upcoming'
  <2>1. PICK v \in Worker : o \in Heads(todo[v])
    BY DEF Upcoming
  <2>2. v # w
    BY <1>1, <2>1, HeadsNil
  <2> QED BY <1>1, <1>2, <2>1, <2>2
<1> QED BY <1>1, <1>3

\* The row of a new pipeline.
LEMMA InsertFacts ==
  ASSUME GateInv, SerialInv, NEW w \in Worker, InsertPipeline(w)
  PROVE  LET c == Head(todo[w])
         IN  /\ c.op = "insert" /\ c.p \in Pipeline /\ Loses(c)
             /\ UNCHANGED <<appts, timers, asked, dlq>>
             /\ \/ row' = row
                \/ /\ ~Exists(c.p)
                   /\ row'[c.p].state = "EMAIL_RECEIVED"
                   /\ \A p \in Pipeline \ {c.p} : row'[p] = row[p]
                   /\ \E o \in Upcoming' : o.op = "resume" /\ o.p = c.p
<1>1. At(w, "insert") /\ UNCHANGED <<appts, timers, asked, dlq>>
  BY DEF InsertPipeline
<1>2. PICK ops \in Seq(Op) :
        /\ ops = todo[w] /\ ops # <<>> /\ Rest(w) = Tail(ops)
        /\ Head(todo[w]) = ops[1] /\ ops[1].op = "insert"
  BY <1>1, Now
<1>3. PICK c : c = ops[1]
  OBVIOUS
<1>4. c.p \in Pipeline
  <2>1. c \in RowOp
    BY <1>1, <1>2, <1>3, Pending, Shapes DEF GateInv
  <2> QED BY <2>1 DEF RowOp
<1>5. PICK x : Goto(w, x) /\ (row' # row => x = Rest(w))
  BY DEF InsertPipeline, Raise
<1>6. /\ Loses(c)
      /\ \A o \in Heads(x) : o \in Upcoming'
  BY <1>1, <1>2, <1>3, <1>5, Kept DEF Loses
<1>7. ASSUME row' # row
      PROVE  /\ ~Exists(c.p)
             /\ row'[c.p].state = "EMAIL_RECEIVED"
             /\ \A p \in Pipeline \ {c.p} : row'[p] = row[p]
             /\ \E o \in Upcoming' : o.op = "resume" /\ o.p = c.p
  <2>1. /\ ~Exists(c.p)
        /\ row' = [row EXCEPT ![c.p] = [state |-> "EMAIL_RECEIVED",
                                        slot  |-> NoSlot]]
    BY <1>2, <1>3, <1>7 DEF InsertPipeline
  <2>2. /\ row'[c.p].state = "EMAIL_RECEIVED"
        /\ \A p \in Pipeline \ {c.p} : row'[p] = row[p]
    BY <1>4, <2>1 DEF GateInv, TablesOK
  <2>3. x = Tail(ops) /\ x \in Seq(Op)
    BY <1>2, <1>5, <1>7, TailParts
  <2>4. WellFormed(ops) /\ ~MayEnd(c)
    BY <1>2, <1>3 DEF SerialInv, MayEnd
  <2>5. x # <<>> /\ Precedes(c, x[1])
    BY <1>2, <1>3, <2>3, <2>4, FormedHead
  <2>6. x[1].op = "resume" /\ x[1].p = c.p
    BY <1>2, <1>3, <2>5 DEF Precedes
  <2>7. x[1] \in Upcoming'
    BY <1>6, <2>3, <2>5, FirstUpcoming
  <2> QED BY <2>1, <2>2, <2>6, <2>7
<1> QED BY <1>1, <1>2, <1>3, <1>4, <1>6, <1>7

\* What a commit leaves upcoming.
LEMMA CommitFacts ==
  ASSUME GateInv, NEW w \in Worker, NEW o \in WriteOp, NEW y \in Seq(Op),
         WriteState(w), Commits(w, o, y)
  PROVE  /\ Loses(o) /\ o.op = "write"
         /\ y # <<>> => y[1] \in Upcoming'
         /\ TimersSet(o.to) \cup TimersCancelled(o.to) # {} =>
              \E u \in Upcoming' : u.op = "timers" /\ u.p = o.p /\ u.to = o.to
<1>1. /\ At(w, "write") /\ o = todo[w][1] /\ o.op = "write"
      /\ Goto(w, OnEntry(o.p, o.to) \o y)
      /\ o.p \in Pipeline /\ o.to \in Target
  BY DEF WriteState, Commits
<1>2. Head(todo[w]) = o
  BY <1>1, Now
<1>3. PICK x : x = OnEntry(o.p, o.to) \o y
  OBVIOUS
<1>4. /\ Loses(o)
      /\ \A u \in Heads(x) : u \in Upcoming'
  BY <1>1, <1>2, <1>3, Kept DEF Loses
<1>5. y # <<>> => y[1] \in Heads(x)
  BY <1>1, <1>3, EntryHeads, FirstUpcoming
<1>6. TimersSet(o.to) \cup TimersCancelled(o.to) # {} =>
        \E u \in Heads(x) : u.op = "timers" /\ u.p = o.p /\ u.to = o.to
  BY <1>1, <1>3, EntryHeads
<1> QED BY <1>1, <1>4, <1>5, <1>6

\* A step that nobody makes, that takes a task, expires a key, or gives up a
\* report.
Outside ==
  UNCHANGED vars \/ ExpireTimer \/ ReportFails
    \/ \E w \in Worker, t \in Task : Receive(w, t)

\* It keeps every invariant.
LEMMA OutsideKeeps ==
  ASSUME GateInv, Outside, audit \subseteq audit'
  PROVE  /\ BookInv => BookInv'
         /\ TimerInv => TimerInv'
         /\ ShowInv => ShowInv'
         /\ StrandInv => StrandInv'
<1>1. /\ UNCHANGED <<row, appts, asked>>
      /\ dlq \subseteq dlq' /\ timers' \subseteq timers
      /\ \A o \in Upcoming : o \in Upcoming'
  <2>1. CASE UNCHANGED vars
    BY <2>1 DEF vars, Upcoming, Heads, Front
  <2>2. CASE ExpireTimer \/ ReportFails
    BY <2>2
    DEF ExpireTimer, ReportFails, KeepReport, tables, Upcoming, Heads, Front
  <2>3. CASE \E w \in Worker, t \in Task : Receive(w, t)
    BY <2>3, ReceiveLoses
  <2> QED BY <2>1, <2>2, <2>3 DEF Outside
<1>2. PICK c : c = [op |-> "none"]
  OBVIOUS
<1>3. Loses(c) /\ c.op = "none"
  BY <1>1, <1>2 DEF Loses
<1> QED BY <1>1, <1>3, LossKeeps

\* The steps, when no call raises and the process does not die.
LEMMA SafeSteps ==
  ASSUME [Next]_vars, Faults \cap {"io", "crash"} = {}
  PROVE  \/ Outside
         \/ \E w \in Worker : \/ Tame(w) \/ InsertPipeline(w)
                              \/ WriteState(w) \/ WriteAppointment(w)
BY Zenon DEF Next, Step, Outside, Tame, CallRaises, Crash

---------------------------------------------------------------------------
(* Every step preserves the four invariants. *)

\* The visit a coroutine records is of a booked pipeline that has none.
LEMMA AppointFacts ==
  ASSUME GateInv, SerialInv, NEW w \in Worker, WriteAppointment(w)
  PROVE  LET c == Head(todo[w])
         IN  /\ c.op = "appoint" /\ ~Light(todo[w]) /\ Loses(c)
             /\ c.p \in Pipeline /\ c.slot = row[c.p].slot
             /\ row[c.p].state = "BOOKED"
             /\ \A a \in appts : a.p # c.p
             /\ UNCHANGED <<row, timers, asked, dlq>>
             /\ \E a : appts' = appts \cup {a} /\ a.p = c.p /\ a.slot = c.slot
<1>1. /\ At(w, "appoint") /\ UNCHANGED <<row, timers, asked, dlq>>
      /\ Goto(w, Rest(w))
  BY DEF WriteAppointment
<1>2. PICK ops \in Seq(Op) :
        /\ ops = todo[w] /\ ops # <<>>
        /\ Head(todo[w]) = ops[1] /\ ops[1].op = "appoint" /\ ops[1] \in Op
  BY <1>1, Now
<1>3. PICK c \in ApptOp : c = ops[1]
  BY <1>2, Shapes
<1>4. c.p \in Pipeline /\ c.op = "appoint" /\ ~Light(todo[w])
  BY <1>1, <1>2, <1>3, SlowBusy DEF ApptOp
<1>5. PICK x : x = Rest(w)
  OBVIOUS
<1>6. Loses(c)
  BY <1>1, <1>2, <1>3, <1>5, Kept DEF Loses
<1>7. /\ c.slot = row[c.p].slot /\ row[c.p].state = "BOOKED"
      /\ \A a \in appts : a.p # c.p
  <2>1. Linked(ops) /\ ~Quick(ops[1])
    BY <1>2 DEF SerialInv, Quick
  <2>2. Ready(ops, 1)
    BY <1>2, <2>1, LinkedSlow
  <2> QED BY <1>2, <1>3, <2>2 DEF Ready
<1>8. PICK a : a = [id |-> Cardinality(appts) + 1, p |-> c.p, slot |-> c.slot]
  OBVIOUS
<1>9. appts' = appts \cup {a} /\ a.p = c.p /\ a.slot = c.slot
  BY <1>2, <1>3, <1>8 DEF WriteAppointment
<1> QED BY <1>1, <1>2, <1>3, <1>4, <1>6, <1>7, <1>9

\* A pipeline is booked with its visit, or with the visit to come.
LEMMA BookStep ==
  ASSUME GateInv, SerialInv, BookInv, [Next]_vars,
         Faults \cap {"io", "crash"} = {}
  PROVE  BookInv'
<1>1. CASE Outside
  BY <1>1, LogStays, OutsideKeeps
<1>2. ASSUME NEW w \in Worker, Tame(w)
      PROVE  BookInv'
  <2> DEFINE c == Head(todo[w])
  <2>1. /\ UNCHANGED <<row, appts>> /\ Loses(c)
        /\ asked \subseteq asked' /\ dlq \subseteq dlq'
    BY <1>2, TameStep
  <2>2. CASE c.op # "book"
    <3>1. c.op \notin {"book", "appoint"}
      BY <1>2, <2>2, TameKind
    <3> QED BY <2>1, <3>1, LossKeeps
  <2>3. CASE c.op = "book"
    <3>1. ReadBooked(w)
      BY <1>2, <2>3, TameKind
    <3>2. /\ Rest(w) \in Seq(Op)
          /\ c.p \in Pipeline
      <4>1. c \in RowOp /\ Rest(w) \in Seq(Op)
        BY <3>1, Now, Pending, Shapes DEF ReadBooked, GateInv
      <4> QED BY <4>1 DEF RowOp
    <3>3. ASSUME row[c.p].state = "BOOKED"
          PROVE  \E o \in Upcoming' : o.op = "appoint" /\ o.p = c.p
      <4>1. PICK n : n = [op |-> "appoint", p |-> c.p, slot |-> row[c.p].slot]
        OBVIOUS
      <4>2. n.op = "appoint" /\ n.p = c.p
        BY <4>1
      <4>3. n \in Op
        <5>1. row[c.p] \in Row \cup {NoRow}
          BY <3>2 DEF GateInv, TablesOK
        <5>2. row[c.p].slot \in Slot \cup {NoSlot}
          BY <5>1 DEF Row, NoRow
        <5> QED BY <3>2, <4>1, <5>2 DEF ApptOp, ScriptOp, Op
      <4>4. PICK x : x = <<n>> \o Rest(w)
        OBVIOUS
      <4>5. x \in Seq(Op) /\ x # <<>> /\ x[1] = n
        BY <3>2, <4>3, <4>4, ConsParts
      <4>6. Goto(w, x) /\ At(w, "book")
        BY <3>1, <3>3, <4>1, <4>4 DEF ReadBooked, Exists
      <4>7. n \in Upcoming'
        BY <4>5, <4>6, Kept, FirstUpcoming
      <4> QED BY <4>2, <4>7
    <3>4. ASSUME NEW p \in Pipeline, row[p].state = "BOOKED"
          PROVE  \/ \E a \in appts : /\ a.p = p /\ a.slot = row[p].slot
                                     /\ \A b \in appts : b.p = p => b = a
                 \/ \E o \in Upcoming' : o.op \in {"book", "appoint"} /\ o.p = p
      BY <2>1, <3>3, <3>4 DEF BookInv, Loses
    <3> QED BY <2>1, <3>4 DEF BookInv
  <2> QED BY <2>2, <2>3
<1>3. ASSUME NEW w \in Worker, InsertPipeline(w)
      PROVE  BookInv'
  BY <1>3, InsertFacts DEF BookInv, Loses
<1>4. ASSUME NEW w \in Worker, WriteState(w)
      PROVE  BookInv'
  <2>1. PICK o \in WriteOp : \E y \in Seq(Op) : Commits(w, o, y)
    BY <1>4, WriteFacts
  <2>2. PICK y \in Seq(Op) : Commits(w, o, y)
    BY <2>1
  <2>3. /\ Loses(o) /\ o.op = "write"
        /\ y # <<>> => y[1] \in Upcoming'
    BY <1>4, <2>2, CommitFacts
  <2>4. o.to = "BOOKED" => y # <<>> /\ y[1].op = "book" /\ y[1].p = o.p
    BY <2>2 DEF Commits, Follows, Awaited, VALID_TRANSITIONS
  <2>5. /\ o.p \in Pipeline /\ row'[o.p].state = o.to /\ UNCHANGED appts
        /\ \A p \in Pipeline \ {o.p} : row'[p] = row[p]
    BY <2>2 DEF Commits
  <2> QED BY <2>3, <2>4, <2>5 DEF BookInv, Loses
<1>5. ASSUME NEW w \in Worker, WriteAppointment(w)
      PROVE  BookInv'
  <2>1. PICK c : c = Head(todo[w])
    OBVIOUS
  <2>2. /\ c.op = "appoint" /\ Loses(c)
        /\ c.slot = row[c.p].slot
        /\ \A a \in appts : a.p # c.p
        /\ UNCHANGED row
    BY <1>5, <2>1, AppointFacts
  <2>3. PICK a : appts' = appts \cup {a} /\ a.p = c.p /\ a.slot = c.slot
    BY <1>5, <2>1, AppointFacts
  <2> SUFFICES ASSUME NEW p \in Pipeline, row[p].state = "BOOKED"
               PROVE  \/ \E v \in appts' :
                           /\ v.p = p /\ v.slot = row[p].slot
                           /\ \A b \in appts' : b.p = p => b = v
                      \/ \E o \in Upcoming' :
                           o.op \in {"book", "appoint"} /\ o.p = p
    BY <2>2 DEF BookInv
  <2>4. CASE p = c.p
    BY <2>2, <2>3, <2>4
  <2>5. CASE p # c.p
    BY <2>2, <2>3, <2>5 DEF BookInv, Loses
  <2> QED BY <2>4, <2>5
<1> QED BY <1>1, <1>2, <1>3, <1>4, <1>5, SafeSteps

\* Every pipeline that waits is waited for, or its call is to come.
LEMMA StrandStep ==
  ASSUME GateInv, SerialInv, StrandInv, [Next]_vars,
         Faults \cap {"io", "crash"} = {}
  PROVE  StrandInv'
<1>1. CASE Outside
  BY <1>1, LogStays, OutsideKeeps
<1>2. ASSUME NEW w \in Worker, Tame(w)
      PROVE  StrandInv'
  <2>1. PICK c : c = Head(todo[w])
    OBVIOUS
  <2>2. /\ UNCHANGED <<row, appts>> /\ Loses(c)
        /\ asked \subseteq asked' /\ dlq \subseteq dlq'
        /\ c.op \notin {"write", "appoint"}
    BY <1>2, <2>1, TameStep, TameKind
  <2>3. CASE c.op \notin {"read", "post", "resume"}
    BY <2>2, <2>3, LossKeeps
  <2>4. SUFFICES ASSUME NEW p \in Pipeline, Exists(p),
                        row[p].state \notin Resting,
                        Serves(c, p, row[p].state)
                 PROVE  \/ \E r \in asked' \cup dlq' :
                             r.p = p /\ r.agent \in Awaited(row[p].state)
                        \/ \E o \in Upcoming' : Serves(o, p, row[p].state)
    BY <2>2 DEF StrandInv, Exists, Loses
  <2>5. CASE c.op = "read"
    <3>1. ReadState(w)
      BY <1>2, <2>1, <2>5, TameKind
    <3>2. c \in ReadOp /\ Rest(w) \in Seq(Op)
      BY <2>1, <3>1, Now, Pending, Shapes DEF ReadState, GateInv
    <3>3. c.p = p /\ c.to \in VALID_TRANSITIONS(row[p].state)
      BY <2>4, <2>5 DEF Serves
    <3>4. PICK n : n = [op |-> "write", p |-> c.p, from |-> row[p].state,
                        to |-> c.to, slot |-> c.slot]
      OBVIOUS
    <3>5. row[p].state \in State
      BY <2>4 DEF GateInv, TablesOK, Exists, Row, NoRow
    <3>6. n \in Op
      BY <3>2, <3>3, <3>4, <3>5 DEF ReadOp, WriteOp, Op
    <3>7. Serves(n, p, row[p].state)
      BY <3>3, <3>4 DEF Serves, Move
    <3>8. PICK x : x = <<n>> \o Rest(w)
      OBVIOUS
    <3>9. x \in Seq(Op) /\ x # <<>> /\ x[1] = n
      BY <3>2, <3>6, <3>8, ConsParts
    <3>10. Goto(w, x) /\ At(w, "read")
      BY <2>1, <2>4, <3>1, <3>3, <3>4, <3>8 DEF ReadState
    <3>11. n \in Upcoming'
      BY <3>9, <3>10, Kept, FirstUpcoming
    <3> QED BY <3>7, <3>11
  <2>6. CASE c.op = "post"
    <3>1. PostReaches(w) \/ DispatchFails(w)
      BY <1>2, <2>1, <2>6, TameKind
    <3>2. RequestOf(c) \in asked' \cup dlq'
      BY <2>1, <3>1 DEF PostReaches, DispatchFails
    <3>3. c.p = p /\ c.agent \in Awaited(row[p].state)
      BY <2>4, <2>6 DEF Serves, Move
    <3>4. RequestOf(c).p = c.p /\ RequestOf(c).agent = c.agent
      BY DEF RequestOf
    <3> QED BY <3>2, <3>3, <3>4
  <2>7. CASE c.op = "resume"
    <3>1. ReadForResume(w)
      BY <1>2, <2>1, <2>7, TameKind
    <3>2. c.p = p /\ row[p].state = "EMAIL_RECEIVED"
      BY <2>4, <2>7 DEF Serves, Move
    <3>3. PICK x : x = Resume(p, row[p].state)
      OBVIOUS
    <3>4. /\ x \in Seq(Op) /\ x # <<>>
          /\ x[1] = ReadOf(p, "CLASSIFYING", NoSlot)
      BY <3>2, <3>3, ResumeFormed DEF Formed
    <3>5. Goto(w, x) /\ At(w, "resume")
      BY <2>1, <3>1, <3>2, <3>3 DEF ReadForResume
    <3>6. x[1] \in Upcoming'
      BY <3>4, <3>5, Kept, FirstUpcoming
    <3>7. x[1].op = "read" /\ x[1].p = p /\ x[1].to = "CLASSIFYING"
      BY <3>4 DEF ReadOf
    <3>8. Serves(x[1], p, row[p].state)
      BY <3>2, <3>7 DEF Serves, Move, VALID_TRANSITIONS
    <3> QED BY <3>6, <3>8
  <2>8. c.op \in {"read", "post", "resume"}
    BY <2>2, <2>4 DEF Serves, Move
  <2> QED BY <2>5, <2>6, <2>7, <2>8
<1>3. ASSUME NEW w \in Worker, InsertPipeline(w)
      PROVE  StrandInv'
  <2>1. PICK c : c = Head(todo[w])
    OBVIOUS
  <2>2. /\ c.op = "insert" /\ c.p \in Pipeline /\ Loses(c)
        /\ UNCHANGED <<appts, asked, dlq>>
    BY <1>3, <2>1, InsertFacts
  <2>3. CASE row' = row
    BY <2>2, <2>3, LossKeeps
  <2>4. CASE row' # row
    <3>1. /\ row'[c.p].state = "EMAIL_RECEIVED"
          /\ \A p \in Pipeline \ {c.p} : row'[p] = row[p]
      BY <1>3, <2>1, <2>4, InsertFacts
    <3>2. PICK o \in Upcoming' : o.op = "resume" /\ o.p = c.p
      BY <1>3, <2>1, <2>4, InsertFacts
    <3>3. Serves(o, c.p, "EMAIL_RECEIVED")
      BY <3>2 DEF Serves
    <3>4. \A p, s : ~Serves(c, p, s)
      BY <2>2 DEF Serves, Move
    <3>5. ASSUME NEW p \in Pipeline, p # c.p
          PROVE  \/ ~Exists(p)'
                 \/ row'[p].state \in Resting
                 \/ \E r \in asked' \cup dlq' :
                      r.p = p /\ r.agent \in Awaited(row'[p].state)
                 \/ \E u \in Upcoming' : Serves(u, p, row'[p].state)
      <4>1. row'[p] = row[p]
        BY <3>1, <3>5
      <4> QED BY <2>2, <3>4, <4>1 DEF StrandInv, Exists, Loses
    <3> QED BY <3>1, <3>2, <3>3, <3>5 DEF StrandInv, Serves, Move
  <2> QED BY <2>3, <2>4
<1>4. ASSUME NEW w \in Worker, WriteState(w)
      PROVE  StrandInv'
  <2>1. PICK o \in WriteOp : \E y \in Seq(Op) : Commits(w, o, y)
    BY <1>4, WriteFacts
  <2>2. PICK y \in Seq(Op) : Commits(w, o, y)
    BY <2>1
  <2>3. /\ Loses(o) /\ o.op = "write"
        /\ y # <<>> => y[1] \in Upcoming'
    BY <1>4, <2>2, CommitFacts
  <2>4. /\ o.p \in Pipeline /\ row[o.p].state = o.from
        /\ row'[o.p].state = o.to /\ UNCHANGED <<asked, dlq>>
        /\ \A p \in Pipeline \ {o.p} : row'[p] = row[p]
        /\ y = <<>> => o.to \in Resting
        /\ y # <<>> => Follows(y[1], o.p, o.to)
    BY <2>2 DEF Commits
  <2>5. \/ o.to \in Resting
        \/ y # <<>> /\ Serves(y[1], o.p, o.to)
    <3>1. "BOOKED" \in Resting /\ "RSVP_TIMEOUT_CANCELLED" \in Resting
      BY DEF Resting, Terminal, State, VALID_TRANSITIONS
    <3> QED BY <2>4, <3>1 DEF Follows, Serves, Move
  <2>6. ASSUME NEW p \in Pipeline, p # o.p
        PROVE  \/ ~Exists(p)'
               \/ row'[p].state \in Resting
               \/ \E r \in asked' \cup dlq' :
                    r.p = p /\ r.agent \in Awaited(row'[p].state)
               \/ \E u \in Upcoming' : Serves(u, p, row'[p].state)
    <3>1. row'[p] = row[p]
      BY <2>4, <2>6
    <3>2. \A s : ~Serves(o, p, s)
      BY <2>3, <2>6 DEF Serves, Move
    <3> QED BY <2>3, <2>4, <3>1, <3>2 DEF StrandInv, Exists, Loses
  <2> QED BY <2>3, <2>4, <2>5, <2>6 DEF StrandInv, Serves, Move
<1>5. ASSUME NEW w \in Worker, WriteAppointment(w)
      PROVE  StrandInv'
  <2>1. PICK c : c = Head(todo[w])
    OBVIOUS
  <2>2. c.op = "appoint" /\ Loses(c) /\ UNCHANGED <<row, asked, dlq>>
    BY <1>5, <2>1, AppointFacts
  <2>3. \A p, s : ~Serves(c, p, s)
    BY <2>2 DEF Serves, Move
  <2> QED BY <2>2, <2>3 DEF StrandInv, Exists, Loses, Serves, Move
<1> QED BY <1>1, <1>2, <1>3, <1>4, <1>5, SafeSteps

\* A timer key belongs to the state of its pipeline, or its deletion is to
\* come, or an escalation of a pending approval left it.
LEMMA TimerStep ==
  ASSUME GateInv, SerialInv, TimerInv, [Next]_vars,
         Faults \cap {"io", "crash"} = {}
  PROVE  TimerInv'
<1>0. \A p \in Pipeline : Escalated(p) => Escalated(p)'
  BY LogStays DEF Escalated
<1>1. CASE Outside
  BY <1>1, LogStays, OutsideKeeps
<1>2. ASSUME NEW w \in Worker, Tame(w)
      PROVE  TimerInv'
  <2>1. PICK c : c = Head(todo[w])
    OBVIOUS
  <2>2. /\ UNCHANGED <<row, appts>> /\ Loses(c)
        /\ asked \subseteq asked' /\ dlq \subseteq dlq'
        /\ timers' = timers \/ HandleTimers(w)
    BY <1>2, <2>1, TameStep
  <2>3. CASE c.op # "timers"
    <3>1. timers' = timers
      BY <1>2, <2>1, <2>2, <2>3, TameKind
    <3> QED BY <2>2, <2>3, <3>1, LogStays, LossKeeps
  <2>4. CASE c.op = "timers"
    <3>1. HandleTimers(w)
      BY <1>2, <2>1, <2>4, TameKind
    <3>2. At(w, "timers")
      BY <3>1 DEF HandleTimers
    <3>3. PICK ops \in Seq(Op) :
            /\ ops = todo[w] /\ ops # <<>>
            /\ Head(todo[w]) = ops[1] /\ ops[1].op = "timers"
      BY <3>2, Now
    <3>4. c = ops[1] /\ c.p \in Pipeline
      <4>1. c \in EnterOp
        BY <2>1, <3>2, Pending, Shapes DEF GateInv
      <4> QED BY <2>1, <3>3, <4>1 DEF EnterOp
    <3>5. row[c.p].state = c.to
      <4>1. Linked(ops) /\ Quick(ops[1])
        BY <3>3 DEF SerialInv, Quick
      <4>2. Ready(ops, 1)
        BY <3>3, <4>1, FrontFirst DEF Linked
      <4> QED BY <3>4, <4>1, <4>2 DEF Ready
    <3>6. timers' = (timers \cup (TimersSet(c.to) \X {c.p}))
                      \ (TimersCancelled(c.to) \X {c.p})
      BY <2>1, <3>1 DEF HandleTimers
    <3> SUFFICES ASSUME NEW p \in Pipeline, NEW k \in TimerKind,
                        <<k, p>> \in timers'
                 PROVE  \/ k \in TimersSet(row[p].state)
                        \/ k = "pa_timeout" /\ Escalated(p)'
                        \/ \E o \in Upcoming' :
                             /\ o.op = "timers" /\ o.p = p
                             /\ k \in TimersCancelled(o.to)
      BY <2>2 DEF TimerInv
    <3>7. CASE <<k, p>> \in timers
      <4>1. p = c.p => k \notin TimersCancelled(c.to)
        BY <3>6
      <4> QED BY <1>0, <2>2, <3>7, <4>1 DEF TimerInv, Loses
    <3>8. CASE <<k, p>> \notin timers
      <4>1. p = c.p /\ k \in TimersSet(c.to)
        BY <3>6, <3>8
      <4> QED BY <3>5, <4>1
    <3> QED BY <3>7, <3>8
  <2> QED BY <2>3, <2>4
<1>3. ASSUME NEW w \in Worker, InsertPipeline(w)
      PROVE  TimerInv'
  <2>1. PICK c : c = Head(todo[w])
    OBVIOUS
  <2>2. /\ c.op = "insert" /\ c.p \in Pipeline /\ Loses(c)
        /\ UNCHANGED <<appts, timers, asked, dlq>>
    BY <1>3, <2>1, InsertFacts
  <2>3. \/ row' = row
        \/ /\ ~Exists(c.p)
           /\ \A p \in Pipeline \ {c.p} : row'[p] = row[p]
    BY <1>3, <2>1, InsertFacts
  <2>4. ~Exists(c.p) => TimersSet(row[c.p].state) = {}
    BY DEF Exists, TimersSet
  <2> QED BY <1>0, <2>2, <2>3, <2>4 DEF TimerInv, Loses
<1>4. ASSUME NEW w \in Worker, WriteState(w)
      PROVE  TimerInv'
  <2>1. PICK o \in WriteOp : \E y \in Seq(Op) : Commits(w, o, y)
    BY <1>4, WriteFacts
  <2>2. PICK y \in Seq(Op) : Commits(w, o, y)
    BY <2>1
  <2>3. /\ Loses(o) /\ o.op = "write"
        /\ TimersSet(o.to) \cup TimersCancelled(o.to) # {} =>
              \E u \in Upcoming' : u.op = "timers" /\ u.p = o.p /\ u.to = o.to
    BY <1>4, <2>2, CommitFacts
  <2>4. /\ o.p \in Pipeline /\ row[o.p].state = o.from
        /\ row'[o.p].state = o.to /\ UNCHANGED timers
        /\ \A p \in Pipeline \ {o.p} : row'[p] = row[p]
        /\ o.to \in VALID_TRANSITIONS(o.from)
    BY <2>2 DEF Commits
  <2>5. \A k \in TimersSet(o.from) :
          \/ k \in TimersCancelled(o.to)
          \/ k = "pa_timeout" /\ o.to = "URGENT_ESCALATED_TO_PA"
    BY <2>4 DEF TimersSet, TimersCancelled, VALID_TRANSITIONS
  <2>6. o.to = "URGENT_ESCALATED_TO_PA" => Escalated(o.p)'
    <3>1. At(w, "write")
      BY <1>4 DEF WriteState
    <3>2. Head(todo[w]) = o
      <4>1. Head(todo[w]) = todo[w][1]
        BY <3>1, Now
      <4>2. todo[w][1] = o
        BY <2>2 DEF Commits
      <4> QED BY <4>1, <4>2
    <3>3. [p |-> o.p, from |-> row'[o.p].state, to |-> o.to] \in audit'
      BY <1>4, <3>2 DEF WriteState
    <3> DEFINE a == [p |-> o.p, from |-> row'[o.p].state, to |-> o.to]
    <3>4. a \in audit' /\ a.p = o.p /\ a.to = o.to
      BY <3>3
    <3> HIDE DEF a
    <3> QED BY <3>4 DEF Escalated
  <2> QED BY <1>0, <2>3, <2>4, <2>5, <2>6 DEF TimerInv, Loses
<1>5. ASSUME NEW w \in Worker, WriteAppointment(w)
      PROVE  TimerInv'
  <2>1. PICK c : c = Head(todo[w])
    OBVIOUS
  <2>2. c.op = "appoint" /\ Loses(c) /\ UNCHANGED <<row, timers>>
    BY <1>5, <2>1, AppointFacts
  <2> QED BY <1>0, <2>2 DEF TimerInv, Loses
<1> QED BY <1>1, <1>2, <1>3, <1>4, <1>5, SafeSteps

\* The PA was shown the slot of a row behind its decision, or is about to be.
LEMMA ShowStep ==
  ASSUME GateInv, SerialInv, ShowInv, [Next]_vars,
         Faults \subseteq {"expiry"}
  PROVE  ShowInv'
<1>1. CASE Outside
  BY <1>1, LogStays, OutsideKeeps
<1>2. ASSUME NEW w \in Worker, Tame(w)
      PROVE  ShowInv'
  <2>1. PICK c : c = Head(todo[w])
    OBVIOUS
  <2>2. /\ UNCHANGED <<row, appts>> /\ Loses(c)
        /\ asked \subseteq asked' /\ dlq \subseteq dlq'
    BY <1>2, <2>1, TameStep
  <2>3. CASE c.op # "post"
    BY <2>2, <2>3, LossKeeps
  <2>4. CASE c.op = "post"
    <3>1. PostReaches(w)
      BY <1>2, <2>1, <2>4, TameKind DEF DispatchFails
    <3>2. asked' = asked \cup {RequestOf(c)}
      BY <2>1, <3>1 DEF PostReaches
    <3>3. \A a \in appts' : ShownTo(a.p, a.slot) \in asked'
      BY <2>2 DEF ShowInv
    <3>4. ASSUME NEW p \in Pipeline, row[p].state \in Shown
          PROVE  \/ ShownTo(p, row[p].slot) \in asked'
                 \/ \E o \in Upcoming' :
                      o.op = "post" /\ RequestOf(o) = ShownTo(p, row[p].slot)
      <4>1. CASE ShownTo(p, row[p].slot) \in asked
        BY <2>2, <4>1
      <4>2. CASE \E o \in Upcoming :
                   o.op = "post" /\ RequestOf(o) = ShownTo(p, row[p].slot)
        BY <2>2, <3>2, <4>2 DEF Loses
      <4> QED BY <3>4, <4>1, <4>2 DEF ShowInv
    <3> QED BY <2>2, <3>3, <3>4 DEF ShowInv, ShownTo, RequestOf
  <2> QED BY <2>3, <2>4
<1>3. ASSUME NEW w \in Worker, InsertPipeline(w)
      PROVE  ShowInv'
  <2>1. PICK c : c = Head(todo[w])
    OBVIOUS
  <2>2. /\ c.op = "insert" /\ c.p \in Pipeline /\ Loses(c)
        /\ UNCHANGED <<appts, timers, asked, dlq>>
    BY <1>3, <2>1, InsertFacts
  <2>3. \/ row' = row
        \/ /\ row'[c.p].state \notin Shown
           /\ \A p \in Pipeline \ {c.p} : row'[p] = row[p]
    BY <1>3, <2>1, InsertFacts DEF Shown
  <2>4. \A a \in appts' : ShownTo(a.p, a.slot) \in asked'
    BY <2>2 DEF ShowInv
  <2>5. ASSUME NEW p \in Pipeline, row'[p].state \in Shown
        PROVE  \/ ShownTo(p, row'[p].slot) \in asked'
               \/ \E o \in Upcoming' :
                    o.op = "post" /\ RequestOf(o) = ShownTo(p, row'[p].slot)
    <3>1. row'[p] = row[p]
      BY <2>3, <2>5
    <3> QED BY <2>2, <2>5, <3>1 DEF ShowInv, Loses
  <2> QED BY <2>4, <2>5 DEF ShowInv, ShownTo, RequestOf
<1>4. ASSUME NEW w \in Worker, WriteState(w)
      PROVE  ShowInv'
  <2>1. PICK o \in WriteOp : \E y \in Seq(Op) : Commits(w, o, y)
    BY <1>4, WriteFacts
  <2>2. PICK y \in Seq(Op) : Commits(w, o, y)
    BY <2>1
  <2>3. /\ Loses(o) /\ o.op = "write"
        /\ y # <<>> => y[1] \in Upcoming'
    BY <1>4, <2>2, CommitFacts
  <2>4. /\ o.p \in Pipeline /\ row[o.p].state = o.from
        /\ row'[o.p].state = o.to
        /\ row'[o.p].slot = IF o.slot = NoSlot THEN row[o.p].slot ELSE o.slot
        /\ (o.slot # NoSlot) <=> (o.to = "SLOT_HELD")
        /\ UNCHANGED <<appts, asked>>
        /\ \A p \in Pipeline \ {o.p} : row'[p] = row[p]
        /\ o.to \in VALID_TRANSITIONS(o.from)
        /\ y = <<>> => o.to \in Resting \ {"BOOKED"}
        /\ y # <<>> => Follows(y[1], o.p, o.to)
        /\ y # <<>> /\ o.to = "PA_PENDING" => row[o.p].slot = y[1].slot
    BY <2>2 DEF Commits
  <2>5. o.to \in Shown => row'[o.p].slot = row[o.p].slot
    BY <2>4 DEF Shown
  <2>6. o.to \in Shown \ {"PA_PENDING"} => o.from \in Shown
    BY <2>4 DEF Shown, VALID_TRANSITIONS
  <2>7. ASSUME o.to = "PA_PENDING"
        PROVE  /\ y[1] \in Upcoming' /\ y[1].op = "post"
               /\ RequestOf(y[1]) = ShownTo(o.p, row'[o.p].slot)
    <3>1. "PA_PENDING" \notin Resting
      BY DEF Resting, Terminal, VALID_TRANSITIONS
    <3>2. y # <<>> /\ Follows(y[1], o.p, "PA_PENDING")
      BY <2>4, <2>7, <3>1
    <3>3. y[1].op = "post" /\ y[1].p = o.p /\ y[1].agent = "pa_notification"
      BY <3>2 DEF Follows, Awaited
    <3>4. y[1].slot = row'[o.p].slot
      BY <2>4, <2>5, <2>7, <3>2 DEF Shown
    <3> QED BY <2>3, <3>2, <3>3, <3>4 DEF RequestOf, ShownTo
  <2>8. \A a \in appts' : ShownTo(a.p, a.slot) \in asked'
    BY <2>4 DEF ShowInv
  <2>9. ASSUME NEW p \in Pipeline, row'[p].state \in Shown
        PROVE  \/ ShownTo(p, row'[p].slot) \in asked'
               \/ \E u \in Upcoming' :
                    u.op = "post" /\ RequestOf(u) = ShownTo(p, row'[p].slot)
    <3>1. CASE p = o.p /\ o.to = "PA_PENDING"
      BY <2>7, <3>1
    <3>2. CASE ~(p = o.p /\ o.to = "PA_PENDING")
      <4>1. row[p].state \in Shown /\ row'[p].slot = row[p].slot
        BY <2>4, <2>5, <2>6, <2>9, <3>2
      <4> QED BY <2>3, <2>4, <4>1 DEF ShowInv, Loses
    <3> QED BY <3>1, <3>2
  <2> QED BY <2>8, <2>9 DEF ShowInv, ShownTo, RequestOf
<1>5. ASSUME NEW w \in Worker, WriteAppointment(w)
      PROVE  ShowInv'
  <2>1. PICK c : c = Head(todo[w])
    OBVIOUS
  <2>2. /\ c.op = "appoint" /\ Loses(c) /\ ~Light(todo[w])
        /\ c.p \in Pipeline /\ c.slot = row[c.p].slot
        /\ row[c.p].state = "BOOKED"
        /\ UNCHANGED <<row, asked>>
    BY <1>5, <2>1, AppointFacts
  <2>3. PICK a : appts' = appts \cup {a} /\ a.p = c.p /\ a.slot = c.slot
    BY <1>5, <2>1, AppointFacts
  <2>4. \A o \in Upcoming : o.op # "post"
    <3>1. At(w, "appoint")
      BY <1>5 DEF WriteAppointment
    <3>2. \A o \in Upcoming : o = c \/ o.op = "ack" \/ o.op = "read"
      BY <2>1, <2>2, <3>1, OnlyBusy
    <3> QED BY <2>2, <3>2
  <2>5. ShownTo(c.p, row[c.p].slot) \in asked
    BY <2>2, <2>4 DEF ShowInv, Shown
  <2>6. \A b \in appts' : ShownTo(b.p, b.slot) \in asked'
    BY <2>2, <2>3, <2>5 DEF ShowInv
  <2>7. ASSUME NEW p \in Pipeline, row[p].state \in Shown
        PROVE  ShownTo(p, row[p].slot) \in asked
    BY <2>4, <2>7 DEF ShowInv
  <2> QED BY <2>2, <2>6, <2>7 DEF ShowInv, ShownTo
<1> QED BY <1>1, <1>2, <1>3, <1>4, <1>5, SafeSteps

---------------------------------------------------------------------------
(* The theorems. *)

\* At first no pipeline exists.
LEMMA TablesInit ==
  ASSUME Init
  PROVE  BookInv /\ StrandInv /\ TimerInv /\ ShowInv
<1>1. /\ \A p \in Pipeline : row[p].state = "none"
      /\ appts = {} /\ timers = {}
  BY DEF Init, NoRow
<1> QED BY <1>1 DEF BookInv, StrandInv, TimerInv, ShowInv, Exists, Shown

\* With one handler at a time, and no call that raises, a pipeline is
\* BOOKED exactly when appointment_history has its one visit, at the slot
\* of the row, whatever is repeated or left unanswered
\* (handle_rsvp_outcome).
THEOREM VisitsBookedOnce ==
  Serial /\ Faults \cap {"io", "crash"} = {} => (Spec => []BookedOnce)
<1> SUFFICES ASSUME Serial, Faults \cap {"io", "crash"} = {}
             PROVE  Spec => []BookedOnce
  OBVIOUS
<1>1. GateInv /\ SerialInv /\ BookInv /\ [Next]_vars => BookInv'
  BY BookStep
<1>2. Init => BookInv
  BY TablesInit
<1>3. ASSUME GateInv, SerialInv, BookInv
      PROVE  BookedOnce
  <2> SUFFICES ASSUME Quiet, NEW p \in Pipeline
               PROVE  LET mine == {a \in appts : a.p = p}
                      IN  IF row[p].state = "BOOKED"
                          THEN \E a \in mine :
                                 mine = {a} /\ a.slot = row[p].slot
                          ELSE mine = {}
    BY DEF BookedOnce
  <2>1. \A o \in Upcoming : o.op = "ack"
    BY <1>3, QuietUpcoming
  <2>2. CASE row[p].state = "BOOKED"
    <3>1. PICK a \in appts : /\ a.p = p /\ a.slot = row[p].slot
                             /\ \A b \in appts : b.p = p => b = a
      BY <1>3, <2>1, <2>2 DEF BookInv
    <3>2. {b \in appts : b.p = p} = {a}
      BY <3>1
    <3> QED BY <2>2, <3>1, <3>2
  <2>3. CASE row[p].state # "BOOKED"
    BY <1>3, <2>3 DEF SerialInv, VisitsAreBooked
  <2> QED BY <2>2, <2>3
<1> QED BY <1>1, <1>2, <1>3, Invariant, SerialInvariant, PTL DEF Spec

\* With one handler at a time, and no call that raises, no pipeline is
\* stranded between two tasks: it rests, or the agent it waits for was
\* asked, or the request is in the dead letter list (every handler, and
\* receive_task).
THEOREM NobodyIsStranded ==
  Serial /\ Faults \cap {"io", "crash"} = {} => (Spec => []NobodyStranded)
<1> SUFFICES ASSUME Serial, Faults \cap {"io", "crash"} = {}
             PROVE  Spec => []NobodyStranded
  OBVIOUS
<1>1. GateInv /\ SerialInv /\ StrandInv /\ [Next]_vars => StrandInv'
  BY StrandStep
<1>2. Init => StrandInv
  BY TablesInit
<1>3. ASSUME GateInv, StrandInv
      PROVE  NobodyStranded
  <2> SUFFICES ASSUME Quiet, NEW p \in Pipeline
               PROVE  \/ ~Exists(p)
                      \/ row[p].state \in Resting
                      \/ \E r \in asked \cup dlq :
                           r.p = p /\ r.agent \in Awaited(row[p].state)
    BY DEF NobodyStranded
  <2>1. \A o \in Upcoming : o.op = "ack"
    BY <1>3, QuietUpcoming
  <2> QED BY <1>3, <2>1 DEF StrandInv, Serves, Move
<1> QED BY <1>1, <1>2, <1>3, Invariant, SerialInvariant, PTL DEF Spec

\* With one handler at a time, and no call that raises, a timer key exists
\* between two tasks only for a pipeline that waits for what it limits, or
\* that was escalated: escalating a pending approval is the one move by which
\* _handle_timers leaves a key behind.
THEOREM TimersAlwaysMatch ==
  Serial /\ Faults \cap {"io", "crash"} = {} => (Spec => []TimersMatch)
<1> SUFFICES ASSUME Serial, Faults \cap {"io", "crash"} = {}
             PROVE  Spec => []TimersMatch
  OBVIOUS
<1>1. GateInv /\ SerialInv /\ TimerInv /\ [Next]_vars => TimerInv'
  BY TimerStep
<1>2. Init => TimerInv
  BY TablesInit
<1>3. ASSUME GateInv, TimerInv
      PROVE  TimersMatch
  <2> SUFFICES ASSUME Quiet, NEW p \in Pipeline
               PROVE  /\ <<"pa_timeout", p>> \in timers =>
                           row[p].state = "PA_PENDING" \/ Escalated(p)
                      /\ <<"rsvp_timeout", p>> \in timers =>
                           row[p].state = "RSVP_PENDING"
    BY DEF TimersMatch
  <2>1. \A o \in Upcoming : o.op = "ack"
    BY <1>3, QuietUpcoming
  <2>2. \A k \in TimerKind :
          <<k, p>> \in timers => \/ k \in TimersSet(row[p].state)
                                 \/ k = "pa_timeout" /\ Escalated(p)
    BY <1>3, <2>1 DEF TimerInv
  <2> QED BY <2>2 DEF TimerKind, TimersSet
<1> QED BY <1>1, <1>2, <1>3, Invariant, SerialInvariant, PTL DEF Spec

\* With one handler at a time, and agents that are reached, the slot of
\* every visit is one the PA was shown, also when an earlier slot was
\* approved, cancelled and replaced (handle_slot_found).
THEOREM SlotsWereShown ==
  Serial /\ Faults \subseteq {"expiry"} => (Spec => []BookedSlotWasShown)
<1> SUFFICES ASSUME Serial, Faults \subseteq {"expiry"}
             PROVE  Spec => []BookedSlotWasShown
  OBVIOUS
<1>1. GateInv /\ SerialInv /\ ShowInv /\ [Next]_vars => ShowInv'
  BY ShowStep
<1>2. Init => ShowInv
  BY TablesInit
<1>3. ShowInv => BookedSlotWasShown
  BY DEF ShowInv, BookedSlotWasShown, ShownTo
<1> QED BY <1>1, <1>2, <1>3, Invariant, SerialInvariant, PTL DEF Spec

=============================================================================
