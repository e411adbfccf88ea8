-------------------------- MODULE MirBuilderProofs --------------------------
(***************************************************************************)
(* Proofs about MirBuilder, for every set of names, every nesting depth and *)
(* any number of statements and functions: each variable has one definition,*)
(* nothing is read that was not produced, no name in scope is lost, every   *)
(* block can be reached, and the branches of an if meet in their variables. *)
(***************************************************************************)
EXTENDS MirBuilder, SequenceTheorems, FiniteSetTheorems, StepwiseRecursion

-----------------------------------------------------------------------------
(* The code of a factory as a set of slots, each of which has an instruction. *)

Argument ==
  {V(v) : v \in Nat} \cup {Lab(b) : b \in Nat} \cup {Phi(s) : s \in Site}
  \cup {Lit, Fn} \cup {[kind |-> "global", name |-> n] : n \in Name}
Ops ==
  {"BIND", "BREAK", "CALL", "COND_JUMP", "CONST_BOOL", "CONST_FLOAT", "CONST_INT",
   "CONTINUE", "IADD", "ICMP_EQ", "ICMP_GT", "ICMP_GTE", "ICMP_LT", "ICMP_LTE", "ICMP_NE",
   "IDIV", "IMOD", "IMUL", "ISUB", "JUMP", "LOAD", "PHI", "RETURN", "UPDATE"}
Instruction == [op : Ops, args : Seq(Argument), res : Nat]
Factory ==
  [blocks : Seq(Seq(Instruction)), params : SUBSET Nat, env : Seq(Env!Scope),
   next : Nat \ {0}]

Slots(m) == UNION {{<<b, i>> : i \in DOMAIN m.blocks[b]} : b \in DOMAIN m.blocks}
Slot(m, p) == m.blocks[p[1]][p[2]]

\* Operands that read a variable, or name a block.
IsRead(o, v) == o.kind \in {"var", "phi"} /\ o.id = v
IsLabel(o, b) == o.kind = "label" /\ o.id = b
ArgReads(args, v) == \E k \in DOMAIN args : IsRead(args[k], v)
ArgNames(args, b) == \E k \in DOMAIN args : IsLabel(args[k], b)

LEMMA SlotShape ==
  ASSUME NEW m \in Factory
  PROVE  /\ \A p \in Slots(m) : /\ p = <<p[1], p[2]>>
                                /\ p[1] \in 1..Len(m.blocks)
                                /\ p[2] \in 1..Len(m.blocks[p[1]])
                                /\ Slot(m, p) \in Instruction
         /\ \A b \in 1..Len(m.blocks) : /\ m.blocks[b] \in Seq(Instruction)
                                        /\ Len(m.blocks[b]) \in Nat
         /\ \A b \in 1..Len(m.blocks) : \A i \in 1..Len(m.blocks[b]) : <<b, i>> \in Slots(m)
<1>1. m.blocks \in Seq(Seq(Instruction))
  BY DEF Factory
<1>2. DOMAIN m.blocks = 1..Len(m.blocks)
  BY <1>1
<1>3. \A b \in 1..Len(m.blocks) : m.blocks[b] \in Seq(Instruction)
  BY <1>1
<1>4. \A b \in 1..Len(m.blocks) : DOMAIN m.blocks[b] = 1..Len(m.blocks[b]) /\ Len(m.blocks[b]) \in Nat
  BY <1>3
<1>5. ASSUME NEW p \in Slots(m)
      PROVE  /\ p = <<p[1], p[2]>>
             /\ p[1] \in 1..Len(m.blocks)
             /\ p[2] \in 1..Len(m.blocks[p[1]])
  <2>1. PICK b \in 1..Len(m.blocks) : p \in {<<b, i>> : i \in 1..Len(m.blocks[b])}
    BY <1>2, <1>4 DEF Slots
  <2> QED
    BY <2>1
<1>6. \A b \in 1..Len(m.blocks) : \A i \in 1..Len(m.blocks[b]) : <<b, i>> \in Slots(m)
  BY <1>2, <1>4 DEF Slots
<1>7. \A b \in 1..Len(m.blocks) : \A i \in 1..Len(m.blocks[b]) : m.blocks[b][i] \in Instruction
  BY <1>3
<1> QED
  BY <1>3, <1>4, <1>5, <1>6, <1>7 DEF Slot

\* An instruction is put at the end of a block.
AddTo(m, b, i, n) == [m EXCEPT !.blocks[b] = Append(@, i), !.next = n]

LEMMA PutFacts ==
  ASSUME NEW m \in Factory, NEW b \in 1..Len(m.blocks), NEW i \in Instruction,
         NEW n \in Nat \ {0}
  PROVE  LET f == AddTo(m, b, i, n)
             new == <<b, Len(m.blocks[b]) + 1>>
         IN  /\ f \in Factory
             /\ f.params = m.params /\ f.env = m.env /\ f.next = n
             /\ Len(f.blocks) = Len(m.blocks)
             /\ Len(f.blocks[b]) = Len(m.blocks[b]) + 1
             /\ Slots(f) = Slots(m) \cup {new}
             /\ new \notin Slots(m)
             /\ \A p \in Slots(m) : Slot(f, p) = Slot(m, p)
             /\ Slot(f, new) = i
<1> DEFINE f == AddTo(m, b, i, n)
           new == <<b, Len(m.blocks[b]) + 1>>
           row == Append(m.blocks[b], i)
           rows == [m.blocks EXCEPT ![b] = row]
<1>1. m.blocks \in Seq(Seq(Instruction))
  BY DEF Factory
<1>2. m.blocks[b] \in Seq(Instruction) /\ Len(m.blocks[b]) \in Nat
  BY SlotShape
<1>3. /\ row \in Seq(Instruction)
      /\ Len(row) = Len(m.blocks[b]) + 1
      /\ row[Len(m.blocks[b]) + 1] = i
      /\ \A k \in 1..Len(m.blocks[b]) : row[k] = m.blocks[b][k]
  BY <1>2
<1>4. /\ rows \in Seq(Seq(Instruction))
      /\ Len(rows) = Len(m.blocks)
      /\ \A a \in 1..Len(m.blocks) : rows[a] = IF a = b THEN row ELSE m.blocks[a]
  <2> HIDE DEF row
  <2> QED
    BY <1>1, <1>3, ExceptSeq
<1>5. f = [m EXCEPT !.blocks = rows, !.next = n]
  BY DEF AddTo, Factory
<1>6. /\ f.params = m.params /\ f.env = m.env /\ f.next = n /\ f.blocks = rows
  <2> HIDE DEF rows
  <2> QED
    BY <1>5 DEF Factory
<1>7. f \in Factory
  <2> HIDE DEF rows
  <2> QED
    BY <1>4, <1>5 DEF Factory
<1> HIDE DEF rows, row, f
<1>8. \A p : p \in Slots(f) <=> p \in Slots(m) \/ p = new
  <2>1. ASSUME NEW p \in Slots(f)
        PROVE  p \in Slots(m) \/ p = new
    <3>1. p = <<p[1], p[2]>> /\ p[1] \in 1..Len(rows) /\ p[2] \in 1..Len(rows[p[1]])
      BY <1>6, <1>7, SlotShape
    <3>2. CASE p[1] = b
      <4>1. p[2] \in 1..(Len(m.blocks[b]) + 1)
        BY <1>3, <1>4, <3>1, <3>2
      <4>2. p[2] \in 1..Len(m.blocks[b]) \/ p[2] = Len(m.blocks[b]) + 1
        BY <1>2, <4>1
      <4> QED
        BY <3>1, <3>2, <4>2, SlotShape
    <3>3. CASE p[1] # b
      <4>1. p[1] \in 1..Len(m.blocks) /\ p[2] \in 1..Len(m.blocks[p[1]])
        BY <1>4, <3>1, <3>3
      <4> QED
        BY <3>1, <4>1, SlotShape
    <3> QED
      BY <3>2, <3>3
  <2>2. ASSUME NEW p \in Slots(m)
        PROVE  p \in Slots(f)
    <3>1. p = <<p[1], p[2]>> /\ p[1] \in 1..Len(m.blocks) /\ p[2] \in 1..Len(m.blocks[p[1]])
      BY SlotShape
    <3>2. p[2] \in 1..Len(rows[p[1]])
      <4>1. CASE p[1] = b
        <5>1. Len(rows[p[1]]) = Len(m.blocks[b]) + 1
          BY <1>3, <1>4, <4>1
        <5> QED
          BY <1>2, <3>1, <4>1, <5>1
      <4>2. CASE p[1] # b
        <5>1. rows[p[1]] = m.blocks[p[1]]
          BY <1>4, <3>1, <4>2
        <5> QED
          BY <3>1, <5>1
      <4> QED
        BY <4>1, <4>2
    <3>3. p[1] \in 1..Len(rows)
      BY <1>4, <3>1
    <3> QED
      BY <1>6, <1>7, <3>1, <3>2, <3>3, SlotShape
  <2>3. new \in Slots(f)
    <3>1. b \in 1..Len(rows) /\ Len(m.blocks[b]) + 1 \in 1..Len(rows[b])
      BY <1>2, <1>3, <1>4
    <3> QED
      BY <1>6, <1>7, <3>1, SlotShape
  <2> QED
    BY <2>1, <2>2, <2>3
<1>9. new \notin Slots(m)
  <2>1. ~(Len(m.blocks[b]) + 1 \in 1..Len(m.blocks[b]))
    BY <1>2
  <2> QED
    BY <2>1, SlotShape
<1>10. ASSUME NEW p \in Slots(m)
       PROVE  Slot(f, p) = Slot(m, p)
  <2>1. p[1] \in 1..Len(m.blocks) /\ p[2] \in 1..Len(m.blocks[p[1]])
    BY SlotShape
  <2>2. rows[p[1]][p[2]] = m.blocks[p[1]][p[2]]
    <3>1. CASE p[1] = b
      BY <1>3, <1>4, <2>1, <3>1
    <3>2. CASE p[1] # b
      BY <1>4, <2>1, <3>2
    <3> QED
      BY <3>1, <3>2
  <2> QED
    BY <1>6, <2>2 DEF Slot
<1>11. Slot(f, new) = i
  BY <1>3, <1>4, <1>6 DEF Slot
<1>12. Slots(f) = Slots(m) \cup {new} /\ Len(f.blocks) = Len(m.blocks)
  BY <1>4, <1>6, <1>8
<1>13. Len(f.blocks[b]) = Len(m.blocks[b]) + 1
  BY <1>3, <1>4, <1>6
<1> QED
  BY <1>6, <1>7, <1>9, <1>10, <1>11, <1>12, <1>13 DEF f

\* A block is added.
LEMMA BlockFacts ==
  ASSUME NEW m \in Factory
  PROVE  LET f == AddBlock(m)
         IN  /\ f \in Factory
             /\ f.params = m.params /\ f.env = m.env /\ f.next = m.next
             /\ Len(f.blocks) = Len(m.blocks) + 1
             /\ Slots(f) = Slots(m)
             /\ \A p \in Slots(m) : Slot(f, p) = Slot(m, p)
             /\ f.blocks[Len(m.blocks) + 1] = <<>>
<1> DEFINE f == AddBlock(m)
           rows == Append(m.blocks, <<>>)
<1>1. m.blocks \in Seq(Seq(Instruction)) /\ Len(m.blocks) \in Nat
  BY DEF Factory
<1>2. /\ rows \in Seq(Seq(Instruction))
      /\ Len(rows) = Len(m.blocks) + 1
      /\ rows[Len(m.blocks) + 1] = <<>>
      /\ \A a \in 1..Len(m.blocks) : rows[a] = m.blocks[a]
  BY <1>1
<1>3. f.params = m.params /\ f.env = m.env /\ f.next = m.next /\ f.blocks = rows
  <2> HIDE DEF rows
  <2>1. f = [m EXCEPT !.blocks = rows]
    BY DEF AddBlock, rows
  <2> QED
    BY <2>1 DEF Factory
<1>4. f \in Factory
  <2> HIDE DEF rows
  <2>1. f = [m EXCEPT !.blocks = rows]
    BY DEF AddBlock, rows
  <2> QED
    BY <1>2, <2>1 DEF Factory
<1> HIDE DEF rows, f
<1>5. \A p : p \in Slots(f) <=> p \in Slots(m)
  <2>1. ASSUME NEW p \in Slots(f)
        PROVE  p \in Slots(m)
    <3>1. p = <<p[1], p[2]>> /\ p[1] \in 1..Len(rows) /\ p[2] \in 1..Len(rows[p[1]])
      BY <1>3, <1>4, SlotShape
    <3>2. p[1] # Len(m.blocks) + 1
      <4>1. Len(<<>>) = 0
        OBVIOUS
      <4> QED
        BY <1>2, <3>1, <4>1
    <3>3. p[1] \in 1..Len(m.blocks)
      BY <1>1, <1>2, <3>1, <3>2
    <3>4. rows[p[1]] = m.blocks[p[1]]
      BY <1>2, <3>3
    <3> QED
      BY <3>1, <3>3, <3>4, SlotShape
  <2>2. ASSUME NEW p \in Slots(m)
        PROVE  p \in Slots(f)
    <3>1. p = <<p[1], p[2]>> /\ p[1] \in 1..Len(m.blocks) /\ p[2] \in 1..Len(m.blocks[p[1]])
      BY SlotShape
    <3>4. rows[p[1]] = m.blocks[p[1]]
      BY <1>2, <3>1
    <3>5. p[1] \in 1..Len(rows)
      BY <1>1, <1>2, <3>1
    <3>2. p[1] \in 1..Len(rows) /\ p[2] \in 1..Len(rows[p[1]])
      BY <3>1, <3>4, <3>5
    <3> QED
      BY <1>3, <1>4, <3>1, <3>2, SlotShape
  <2> QED
    BY <2>1, <2>2
<1>6. \A p \in Slots(m) : Slot(f, p) = Slot(m, p)
  BY <1>2, <1>3, SlotShape DEF Slot
<1>7. Slots(f) = Slots(m)
  BY <1>5
<1> QED
  BY <1>2, <1>3, <1>4, <1>6, <1>7 DEF f

\* An operand is added to an instruction.
LEMMA OperandFacts ==
  ASSUME NEW m \in Factory, NEW p \in Slots(m), NEW a \in Argument
  PROVE  LET f == AddOperand(m, p, a)
         IN  /\ f \in Factory
             /\ f.params = m.params /\ f.env = m.env /\ f.next = m.next
             /\ Len(f.blocks) = Len(m.blocks)
             /\ \A b \in 1..Len(m.blocks) : Len(f.blocks[b]) = Len(m.blocks[b])
             /\ Slots(f) = Slots(m)
             /\ \A q \in Slots(m) :
                  Slot(f, q) = IF q = p THEN [Slot(m, p) EXCEPT !.args = Append(@, a)]
                               ELSE Slot(m, q)
<1> DEFINE f == AddOperand(m, p, a)
           instr == [m.blocks[p[1]][p[2]] EXCEPT !.args = Append(@, a)]
           row == [m.blocks[p[1]] EXCEPT ![p[2]] = instr]
           rows == [m.blocks EXCEPT ![p[1]] = row]
<1>1. m.blocks \in Seq(Seq(Instruction))
  BY DEF Factory
<1>2. /\ p = <<p[1], p[2]>> /\ p[1] \in 1..Len(m.blocks) /\ p[2] \in 1..Len(m.blocks[p[1]])
      /\ m.blocks[p[1]] \in Seq(Instruction)
      /\ m.blocks[p[1]][p[2]] \in Instruction
  BY SlotShape DEF Slot
<1>3. instr \in Instruction
  <2>1. PICK i \in Instruction : i = m.blocks[p[1]][p[2]]
    BY <1>2
  <2>2. Append(i.args, a) \in Seq(Argument)
    BY DEF Instruction
  <2>3. [i EXCEPT !.args = Append(i.args, a)] \in Instruction
    <3> DEFINE args == Append(i.args, a)
    <3> HIDE DEF args
    <3> QED
      BY <2>2 DEF Instruction, args
  <2> QED
    BY <2>1, <2>3
<1>4. /\ row \in Seq(Instruction)
      /\ Len(row) = Len(m.blocks[p[1]])
      /\ \A k \in 1..Len(m.blocks[p[1]]) : row[k] = IF k = p[2] THEN instr ELSE m.blocks[p[1]][k]
  <2> HIDE DEF instr
  <2> QED
    BY <1>2, <1>3, ExceptSeq
<1>5. /\ rows \in Seq(Seq(Instruction))
      /\ Len(rows) = Len(m.blocks)
      /\ \A b \in 1..Len(m.blocks) : rows[b] = IF b = p[1] THEN row ELSE m.blocks[b]
  <2> HIDE DEF row
  <2> QED
    BY <1>1, <1>2, <1>4, ExceptSeq
<1>6. f = [m EXCEPT !.blocks = rows]
  BY DEF AddOperand, Factory
<1>7. f.params = m.params /\ f.env = m.env /\ f.next = m.next /\ f.blocks = rows
  <2> HIDE DEF rows
  <2> QED
    BY <1>6 DEF Factory
<1>8. f \in Factory
  <2> HIDE DEF rows
  <2> QED
    BY <1>5, <1>6 DEF Factory
<1> HIDE DEF rows, row, instr, f
<1>9. \A b \in 1..Len(m.blocks) : Len(rows[b]) = Len(m.blocks[b])
  BY <1>4, <1>5
<1>10. \A q : q \in Slots(f) <=> q \in Slots(m)
  <2>1. ASSUME NEW q \in Slots(f)
        PROVE  q \in Slots(m)
    <3>1. q = <<q[1], q[2]>> /\ q[1] \in 1..Len(rows) /\ q[2] \in 1..Len(rows[q[1]])
      BY <1>7, <1>8, SlotShape
    <3> QED
      BY <1>5, <1>9, <3>1, SlotShape
  <2>2. ASSUME NEW q \in Slots(m)
        PROVE  q \in Slots(f)
    <3>1. q = <<q[1], q[2]>> /\ q[1] \in 1..Len(m.blocks) /\ q[2] \in 1..Len(m.blocks[q[1]])
      BY SlotShape
    <3>2. q[1] \in 1..Len(rows) /\ q[2] \in 1..Len(rows[q[1]])
      BY <1>5, <1>9, <3>1
    <3> QED
      BY <1>7, <1>8, <3>1, <3>2, SlotShape
  <2> QED
    BY <2>1, <2>2
<1>11. ASSUME NEW q \in Slots(m)
       PROVE  Slot(f, q) = IF q = p THEN [Slot(m, p) EXCEPT !.args = Append(@, a)] ELSE Slot(m, q)
  <2>1. q = <<q[1], q[2]>> /\ q[1] \in 1..Len(m.blocks) /\ q[2] \in 1..Len(m.blocks[q[1]])
    BY SlotShape
  <2>2. CASE q = p
    <3>1. rows[p[1]][p[2]] = instr
      BY <1>2, <1>4, <1>5
    <3> QED
      BY <1>7, <2>2, <3>1 DEF Slot, instr
  <2>3. CASE q # p
    <3>1. q[1] # p[1] \/ q[2] # p[2]
      BY <1>2, <2>1, <2>3
    <3>2. rows[q[1]][q[2]] = m.blocks[q[1]][q[2]]
      BY <1>4, <1>5, <2>1, <3>1
    <3> QED
      BY <1>7, <2>3, <3>2 DEF Slot
  <2> QED
    BY <2>2, <2>3
<1>12. Slots(f) = Slots(m)
  BY <1>10
<1> QED
  BY <1>5, <1>7, <1>8, <1>9, <1>11, <1>12 DEF f

\* What the operands of each shape read and name.
LEMMA OperandShapes ==
  /\ \A v \in Nat : V(v) \in Argument
  /\ \A b \in Nat : Lab(b) \in Argument
  /\ \A s \in Site : Phi(s) \in Argument
  /\ \A n \in Name : [kind |-> "global", name |-> n] \in Argument
  /\ Lit \in Argument /\ Fn \in Argument /\ Null = V(0)
BY DEF Argument, Null

LEMMA OperandReads ==
  /\ \A u, v : IsRead(V(u), v) <=> v = u
  /\ \A s, v : IsRead(Phi(s), v) <=> v = s.var
  /\ \A b, v : ~IsRead(Lab(b), v)
  /\ \A n, v : ~IsRead([kind |-> "global", name |-> n], v)
  /\ \A v : ~IsRead(Lit, v) /\ ~IsRead(Fn, v)
BY DEF IsRead, V, Phi, Lab, Lit, Fn

LEMMA OperandLabels ==
  /\ \A b, c : IsLabel(Lab(b), c) <=> c = b
  /\ \A u, c : ~IsLabel(V(u), c)
  /\ \A s, c : ~IsLabel(Phi(s), c)
  /\ \A n, c : ~IsLabel([kind |-> "global", name |-> n], c)
  /\ \A c : ~IsLabel(Lit, c) /\ ~IsLabel(Fn, c)
BY DEF IsLabel, V, Phi, Lab, Lit, Fn

LEMMA Args ==
  /\ \A v : ~ArgReads(<<>>, v) /\ ~ArgNames(<<>>, v)
  /\ \A o, v : /\ ArgReads(<<o>>, v) <=> IsRead(o, v)
               /\ ArgNames(<<o>>, v) <=> IsLabel(o, v)
  /\ \A o, p, v : /\ ArgReads(<<o, p>>, v) <=> IsRead(o, v) \/ IsRead(p, v)
                  /\ ArgNames(<<o, p>>, v) <=> IsLabel(o, v) \/ IsLabel(p, v)
  /\ \A o, p, q, v :
       /\ ArgReads(<<o, p, q>>, v) <=> IsRead(o, v) \/ IsRead(p, v) \/ IsRead(q, v)
       /\ ArgNames(<<o, p, q>>, v) <=> IsLabel(o, v) \/ IsLabel(p, v) \/ IsLabel(q, v)
<1>1. \A v : ~ArgReads(<<>>, v) /\ ~ArgNames(<<>>, v)
  BY DEF ArgReads, ArgNames
<1>2. \A o, v : /\ ArgReads(<<o>>, v) <=> IsRead(o, v)
                /\ ArgNames(<<o>>, v) <=> IsLabel(o, v)
  BY DEF ArgReads, ArgNames
<1>3. ASSUME NEW o, NEW p, NEW v
      PROVE  /\ ArgReads(<<o, p>>, v) <=> IsRead(o, v) \/ IsRead(p, v)
             /\ ArgNames(<<o, p>>, v) <=> IsLabel(o, v) \/ IsLabel(p, v)
  <2>1. DOMAIN <<o, p>> = {1, 2} /\ <<o, p>>[1] = o /\ <<o, p>>[2] = p
    OBVIOUS
  <2> QED
    BY <2>1 DEF ArgReads, ArgNames
<1>4. ASSUME NEW o, NEW p, NEW q, NEW v
      PROVE  /\ ArgReads(<<o, p, q>>, v) <=> IsRead(o, v) \/ IsRead(p, v) \/ IsRead(q, v)
             /\ ArgNames(<<o, p, q>>, v) <=> IsLabel(o, v) \/ IsLabel(p, v) \/ IsLabel(q, v)
  <2>1. /\ DOMAIN <<o, p, q>> = {1, 2, 3}
        /\ <<o, p, q>>[1] = o /\ <<o, p, q>>[2] = p /\ <<o, p, q>>[3] = q
    OBVIOUS
  <2> QED
    BY <2>1 DEF ArgReads, ArgNames
<1> QED
  BY <1>1, <1>2, <1>3, <1>4

-----------------------------------------------------------------------------
(* Sound code: one definition for each variable, before what reads it.  The *)
(* globals x that have entries of an earlier function excuse a phi.         *)

Produced(m) == m.params \cup ({Slot(m, p).res : p \in Slots(m)} \ {0})

Sound(m, x) ==
  /\ m \in Factory
  /\ \A v \in m.params : v # 0 /\ v < m.next
  /\ \A p \in Slots(m) :
       Slot(m, p).res < m.next /\ (Slot(m, p).res # 0 => Slot(m, p).res \notin m.params)
  /\ \A p, q \in Slots(m) : Slot(m, p).res # 0 /\ Slot(m, q).res = Slot(m, p).res => p = q
  /\ \A p \in Slots(m) : \A v :
       ArgReads(Slot(m, p).args, v) =>
         \/ v # 0 /\ (v \in m.params \/ \E q \in Slots(m) : Earlier(q, p) /\ Slot(m, q).res = v)
         \/ Slot(m, p).op = "CALL" /\ v = 0
         \/ Slot(m, p).op = "PHI" /\ x # {}

\* An edge from block a to block b, and the code m that o has grown into: what it
\* has added stands in the last block of o or in new ones, and each new block is
\* named by one of these in front of it.
Edge(m, a, b) == \E p \in Slots(m) : p[1] = a /\ ArgNames(Slot(m, p).args, b)

Grown(o, m) ==
  /\ m.params = o.params
  /\ o.next <= m.next
  /\ Len(o.blocks) <= Len(m.blocks)
  /\ Slots(o) \subseteq Slots(m)
  /\ Produced(o) \subseteq Produced(m)
  /\ \A v \in Produced(m) \ Produced(o) : o.next <= v
  /\ \A a, b : Edge(o, a, b) => Edge(m, a, b)
  /\ \A a, b : Edge(m, a, b) => Edge(o, a, b) \/ Len(o.blocks) <= a
  /\ \A b \in Len(o.blocks) + 1..Len(m.blocks) :
       \E a \in Len(o.blocks)..b - 1 : Edge(m, a, b)

LEMMA GrownFromItself ==
  ASSUME NEW m \in Factory
  PROVE  Grown(m, m)
<1>1. Len(m.blocks) \in Nat /\ m.next \in Nat
  BY DEF Factory
<1> QED
  BY <1>1 DEF Grown

\* What a put adds.
LEMMA PutAdds ==
  ASSUME NEW m \in Factory, NEW b \in 1..Len(m.blocks), NEW i \in Instruction,
         NEW n \in Nat \ {0}
  PROVE  LET f == AddTo(m, b, i, n)
         IN  /\ Produced(f) = Produced(m) \cup ({i.res} \ {0})
             /\ \A a, c : Edge(f, a, c) <=> Edge(m, a, c) \/ (a = b /\ ArgNames(i.args, c))
<1> DEFINE f == AddTo(m, b, i, n)
           new == <<b, Len(m.blocks[b]) + 1>>
<1>1. /\ f.params = m.params
      /\ Slots(f) = Slots(m) \cup {new}
      /\ \A p \in Slots(m) : Slot(f, p) = Slot(m, p)
      /\ Slot(f, new) = i
  BY PutFacts
<1>2. new[1] = b
  OBVIOUS
<1> HIDE DEF f, new
<1>3. Produced(f) = Produced(m) \cup ({i.res} \ {0})
  BY <1>1 DEF Produced
<1>4. \A a, c : Edge(f, a, c) <=> Edge(m, a, c) \/ (a = b /\ ArgNames(i.args, c))
  BY <1>1, <1>2 DEF Edge
<1> QED
  BY <1>3, <1>4 DEF f

LEMMA PutSound ==
  ASSUME NEW x, NEW m, Sound(m, x), NEW b \in 1..Len(m.blocks), NEW i \in Instruction,
         NEW n \in Nat, m.next <= n,
         i.res # 0 => i.res < n /\ i.res \notin Produced(m),
         \A v : ArgReads(i.args, v) => \/ b = Len(m.blocks) /\ v \in Produced(m)
                                       \/ i.op = "CALL" /\ v = 0
                                       \/ i.op = "PHI" /\ x # {}
  PROVE  Sound(AddTo(m, b, i, n), x)
<1> DEFINE f == AddTo(m, b, i, n)
           new == <<b, Len(m.blocks[b]) + 1>>
<1>1. m \in Factory /\ m.next \in Nat \ {0} /\ n \in Nat \ {0}
  BY DEF Sound, Factory
<1>2. /\ f \in Factory
      /\ f.params = m.params /\ f.next = n
      /\ Slots(f) = Slots(m) \cup {new}
      /\ new \notin Slots(m)
      /\ \A p \in Slots(m) : Slot(f, p) = Slot(m, p)
      /\ Slot(f, new) = i
  BY <1>1, PutFacts
<1>3. new[1] = b /\ new[2] = Len(m.blocks[b]) + 1
  OBVIOUS
<1> HIDE DEF f, new
<1>4. \A p \in Slots(m) : Slot(m, p).res \in Nat
  BY <1>1, SlotShape DEF Instruction
<1>5. i.res \in Nat
  BY DEF Instruction
<1>6. \A v \in f.params : v # 0 /\ v < f.next
  <2>1. \A v \in m.params : v \in Nat /\ v # 0 /\ v < m.next
    BY <1>1 DEF Sound, Factory
  <2> QED
    BY <1>1, <1>2, <2>1
<1>7. ASSUME NEW p \in Slots(f)
      PROVE  Slot(f, p).res < f.next /\ (Slot(f, p).res # 0 => Slot(f, p).res \notin f.params)
  <2>1. CASE p = new
    BY <1>1, <1>2, <2>1 DEF Produced
  <2>2. CASE p \in Slots(m)
    BY <1>1, <1>2, <1>4, <2>2 DEF Sound
  <2> QED
    BY <1>2, <2>1, <2>2
<1>8. ASSUME NEW p \in Slots(f), NEW q \in Slots(f),
             Slot(f, p).res # 0, Slot(f, q).res = Slot(f, p).res
      PROVE  p = q
  <2>1. CASE p \in Slots(m) /\ q \in Slots(m)
    BY <1>2, <1>8, <2>1 DEF Sound
  <2>2. CASE p = new /\ q \in Slots(m)
    BY <1>2, <1>8, <2>2 DEF Produced
  <2>3. CASE p \in Slots(m) /\ q = new
    BY <1>2, <1>8, <2>3 DEF Produced
  <2> QED
    BY <1>2, <2>1, <2>2, <2>3
<1>9. ASSUME NEW p \in Slots(f), NEW v, ArgReads(Slot(f, p).args, v)
      PROVE  \/ v # 0 /\ (v \in f.params \/ \E q \in Slots(f) : Earlier(q, p) /\ Slot(f, q).res = v)
             \/ Slot(f, p).op = "CALL" /\ v = 0
             \/ Slot(f, p).op = "PHI" /\ x # {}
  <2>1. CASE p \in Slots(m)
    BY <1>2, <1>9, <2>1 DEF Sound
  <2>2. CASE p = new /\ b = Len(m.blocks) /\ v \in Produced(m)
    <3>1. v # 0
      BY <1>2, <1>6, <2>2 DEF Produced
    <3>2. CASE v \in m.params
      BY <1>2, <3>1, <3>2
    <3>3. CASE v \notin m.params
      <4>1. PICK q \in Slots(m) : Slot(m, q).res = v
        BY <2>2, <3>3 DEF Produced
      <4>2. Earlier(q, new)
        <5>1. q[1] \in 1..Len(m.blocks) /\ q[2] \in 1..Len(m.blocks[q[1]]) /\ Len(m.blocks[q[1]]) \in Nat
          BY <1>1, SlotShape
        <5>2. q[1] < b \/ q[1] = b
          BY <2>2, <5>1
        <5>3. q[1] = b => q[2] < Len(m.blocks[b]) + 1
          BY <5>1
        <5> QED
          BY <1>3, <5>2, <5>3 DEF Earlier
      <4> QED
        BY <1>2, <2>2, <3>1, <4>1, <4>2
    <3> QED
      BY <3>2, <3>3
  <2>3. CASE p = new /\ ((i.op = "CALL" /\ v = 0) \/ (i.op = "PHI" /\ x # {}))
    BY <1>2, <2>3
  <2> QED
    BY <1>2, <1>9, <2>1, <2>2, <2>3
<1> QED
  BY <1>2, <1>6, <1>7, <1>8, <1>9 DEF Sound, f

LEMMA PutGrown ==
  ASSUME NEW o \in Factory, NEW m \in Factory, Grown(o, m),
         NEW b \in 1..Len(m.blocks), Len(o.blocks) <= b,
         NEW i \in Instruction, NEW n \in Nat, m.next <= n,
         i.res # 0 => o.next <= i.res
  PROVE  Grown(o, AddTo(m, b, i, n))
<1> DEFINE f == AddTo(m, b, i, n)
           new == <<b, Len(m.blocks[b]) + 1>>
<1>1. m.next \in Nat \ {0} /\ o.next \in Nat /\ Len(o.blocks) \in Nat
  BY DEF Factory
<1>8. m \in Factory /\ n \in Nat \ {0}
  BY <1>1
<1>2. /\ f \in Factory
      /\ f.params = m.params /\ f.env = m.env /\ f.next = n
      /\ Len(f.blocks) = Len(m.blocks)
      /\ Slots(f) = Slots(m) \cup {new}
  <2> HIDE DEF new
  <2>1. new = <<b, Len(m.blocks[b]) + 1>>
    BY DEF new
  <2>2. b \in 1..Len(m.blocks) /\ i \in Instruction
    OBVIOUS
  <2> QED
    BY ONLY <1>8, <2>1, <2>2, PutFacts DEF f
<1>3. /\ Produced(f) = Produced(m) \cup ({i.res} \ {0})
      /\ \A a, c : Edge(f, a, c) <=> Edge(m, a, c) \/ (a = b /\ ArgNames(i.args, c))
  BY <1>8, PutAdds
<1> HIDE DEF f
<1>4. o.next <= f.next
  BY <1>1, <1>2 DEF Grown
<1>5. \A v \in Produced(f) \ Produced(o) : o.next <= v
  BY <1>3 DEF Grown
<1>6. \A a, c : Edge(f, a, c) => Edge(o, a, c) \/ Len(o.blocks) <= a
  BY <1>3 DEF Grown
<1>7. \A c \in Len(o.blocks) + 1..Len(f.blocks) : \E a \in Len(o.blocks)..c - 1 : Edge(f, a, c)
  BY <1>2, <1>3 DEF Grown
<1> QED
  BY <1>2, <1>3, <1>4, <1>5, <1>6, <1>7 DEF Grown, f

-----------------------------------------------------------------------------
(* The operators that add instructions are puts.                            *)

\* The last element of an extended sequence is replaced.
LEMMA LastReplaced ==
  ASSUME NEW S, NEW s \in Seq(S), NEW i \in S, NEW j \in S
  PROVE  [Append(s, j) EXCEPT ![Len(s) + 1] = i] = Append(s, i)
<1> DEFINE f == [Append(s, j) EXCEPT ![Len(s) + 1] = i]
           t == Append(s, j)
<1>1. Len(s) \in Nat
  OBVIOUS
<1>2. t \in Seq(S) /\ Len(t) = Len(s) + 1 /\ \A k \in 1..Len(s) : t[k] = s[k]
  OBVIOUS
<1>3. Len(s) + 1 \in 1..Len(t)
  BY <1>1, <1>2
<1>4. f \in Seq(S) /\ Len(f) = Len(t) /\ \A k \in 1..Len(t) : f[k] = IF k = Len(s) + 1 THEN i ELSE t[k]
  <2> HIDE DEF t
  <2>1. f = [t EXCEPT ![Len(s) + 1] = i]
    BY DEF t
  <2> QED
    BY <1>2, <1>3, <2>1, ExceptSeq
<1>5. /\ Append(s, i) \in Seq(S)
      /\ Len(Append(s, i)) = Len(s) + 1
      /\ Append(s, i)[Len(s) + 1] = i
      /\ \A k \in 1..Len(s) : Append(s, i)[k] = s[k]
  OBVIOUS
<1> HIDE DEF f, t
<1>6. ASSUME NEW k \in 1..Len(f)
      PROVE  f[k] = Append(s, i)[k]
  <2>1. k \in 1..Len(s) + 1
    BY <1>2, <1>4
  <2>2. CASE k = Len(s) + 1
    BY <1>2, <1>4, <1>5, <2>1, <2>2
  <2>3. CASE k # Len(s) + 1
    <3>1. k \in 1..Len(s)
      BY <1>1, <2>1, <2>3
    <3> QED
      BY <1>2, <1>4, <1>5, <3>1, <2>3
  <2> QED
    BY <2>2, <2>3
<1>7. Len(f) = Len(Append(s, i))
  BY <1>2, <1>4, <1>5
<1> QED
  BY <1>4, <1>5, <1>6, <1>7, SeqEqual DEF f

LEMMA InsertIsPut ==
  ASSUME NEW m \in Factory, NEW b, NEW op, NEW args
  PROVE  InsertInto(m, b, op, args) = AddTo(m, b, Instr(op, args), m.next)
<1> DEFINE rows == [m.blocks EXCEPT ![b] = Append(@, Instr(op, args))]
<1>1. InsertInto(m, b, op, args) = [m EXCEPT !.blocks = rows]
  BY DEF InsertInto
<1>2. AddTo(m, b, Instr(op, args), m.next) = [m EXCEPT !.blocks = rows, !.next = m.next]
  BY DEF AddTo, Factory
<1> HIDE DEF rows
<1> QED
  BY <1>1, <1>2 DEF Factory

LEMMA ResultIsPut ==
  ASSUME NEW m \in Factory, 1 <= Len(m.blocks), NEW op \in Ops, NEW args \in Seq(Argument),
         NEW v \in Nat
  PROVE  SetResult(AddInstr(m, op, args), v)
           = AddTo(m, Len(m.blocks), [op |-> op, args |-> args, res |-> v], m.next)
<1> DEFINE L == Len(m.blocks)
           row == m.blocks[L]
           j == Instr(op, args)
           i == [op |-> op, args |-> args, res |-> v]
           a == AddInstr(m, op, args)
           long == [m.blocks EXCEPT ![L] = Append(row, j)]
<1>1. L \in 1..Len(m.blocks) /\ m.blocks \in Seq(Seq(Instruction)) /\ row \in Seq(Instruction)
  <2>1. m.blocks \in Seq(Seq(Instruction)) /\ Len(m.blocks) \in Nat
    BY DEF Factory
  <2> QED
    BY <2>1
<1>2. i \in Instruction /\ j \in Instruction
  BY DEF Instruction, Instr
<1>3. a = [m EXCEPT !.blocks = long]
  BY DEF AddInstr, InsertInto, LastBlock
<1>4. a.blocks = long
  <2> HIDE DEF long, a
  <2> QED
    BY <1>3 DEF Factory
<1>5. Len(long) = L /\ long[L] = Append(row, j)
  <2>1. Append(row, j) \in Seq(Instruction)
    BY <1>1, <1>2
  <2> QED
    BY <1>1, <2>1, ExceptSeq
<1>6. Last(long) = Append(row, j)
  BY <1>5 DEF Last
<1>7. LastInstr(a) = <<L, Len(row) + 1>>
  <2>1. Len(Append(row, j)) = Len(row) + 1
    BY <1>1, <1>2
  <2> QED
    BY <1>4, <1>5, <1>6, <2>1 DEF LastInstr, LastBlock
<1>8. SetResult(a, v) =
        [a EXCEPT !.blocks =
           [long EXCEPT ![L] =
              [Append(row, j) EXCEPT ![Len(row) + 1] =
                 [Append(row, j)[Len(row) + 1] EXCEPT !.res = v]]]]
  <2> DEFINE k == LastInstr(a)
  <2>1. k[1] = L /\ k[2] = Len(row) + 1
    BY <1>7
  <2>2. SetResult(a, v) = [a EXCEPT !.blocks[k[1]][k[2]].res = v]
    BY DEF SetResult
  <2> HIDE DEF a, long, row, j, k, L
  <2> QED
    BY <1>4, <1>5, <2>1, <2>2
<1>9. [Append(row, j)[Len(row) + 1] EXCEPT !.res = v] = i
  <2>1. Append(row, j)[Len(row) + 1] = j
    BY <1>1, <1>2
  <2> QED
    BY <2>1 DEF Instr
<1>10. [Append(row, j) EXCEPT ![Len(row) + 1] = [Append(row, j)[Len(row) + 1] EXCEPT !.res = v]]
         = Append(row, i)
  <2>1. [Append(row, j) EXCEPT ![Len(row) + 1] = i] = Append(row, i)
    <3> HIDE DEF row, i, j
    <3> QED
      BY <1>1, <1>2, LastReplaced
  <2> HIDE DEF row, i, j
  <2> QED
    BY <1>9, <2>1
<1>11. [long EXCEPT ![L] = Append(row, i)] = [m.blocks EXCEPT ![L] = Append(row, i)]
  <2> HIDE DEF row, i, j, L
  <2> QED
    BY DEF long
<1>12. SetResult(a, v) = [a EXCEPT !.blocks = [m.blocks EXCEPT ![L] = Append(row, i)]]
  <2> HIDE DEF row, i, j, L, a, long
  <2> QED
    BY <1>8, <1>10, <1>11
<1> DEFINE rows == [m.blocks EXCEPT ![L] = Append(row, i)]
<1>13. SetResult(a, v) = [m EXCEPT !.blocks = rows]
  <2> HIDE DEF rows, long, a
  <2> QED
    BY <1>3, <1>12 DEF Factory, rows
<1>14. AddTo(m, L, i, m.next) = [m EXCEPT !.blocks = rows, !.next = m.next]
  BY DEF AddTo, Factory
<1> HIDE DEF rows
<1> QED
  BY <1>13, <1>14 DEF Factory

LEMMA EmitIsPut ==
  ASSUME NEW m \in Factory, 1 <= Len(m.blocks), NEW op \in Ops, NEW args \in Seq(Argument)
  PROVE  Emit(m, op, args)
           = AddTo(m, Len(m.blocks), [op |-> op, args |-> args, res |-> m.next], m.next + 1)
<1> DEFINE L == Len(m.blocks)
           i == [op |-> op, args |-> args, res |-> m.next]
           a == AddInstr(m, op, args)
           rows == [m.blocks EXCEPT ![L] = Append(@, i)]
<1>1. m.next \in Nat
  BY DEF Factory
<1>2. SetResult(a, m.next) = AddTo(m, L, i, m.next)
  <2> HIDE DEF a
  <2> QED
    BY <1>1, ResultIsPut DEF a
<1>3. a.next = m.next
  BY DEF AddInstr, InsertInto, Factory
<1>4. Emit(m, op, args) = [AddTo(m, L, i, m.next) EXCEPT !.next = @ + 1]
  <2> HIDE DEF a
  <2>1. Emit(m, op, args) = CreateVar(SetResult(a, a.next))
    BY DEF Emit, AddResult, a
  <2> QED
    BY <1>2, <1>3, <2>1 DEF CreateVar
<1>5. AddTo(m, L, i, m.next) = [m EXCEPT !.blocks = rows, !.next = m.next]
  BY DEF AddTo, Factory
<1>6. AddTo(m, L, i, m.next + 1) = [m EXCEPT !.blocks = rows, !.next = m.next + 1]
  BY DEF AddTo, Factory
<1> HIDE DEF rows, i
<1> QED
  BY <1>4, <1>5, <1>6 DEF Factory, i

-----------------------------------------------------------------------------
(* Environments.  The scopes up to depth base are those of earlier functions, *)
(* with the entries that their branches have left behind.  A name that is not *)
(* one of the globals gs is found above them, where each entry is live.       *)

Held(e, d, n) == e[d][n] # None

Live(e, base, P) ==
  \A d \in 1..Len(e), n \in Name : base < d /\ Held(e, d, n) => e[d][n].var \in P

\* The entries below are those of e0, up to the variables of the globals.
Below(e0, e, base, gs) ==
  \A d \in 1..base, n \in Name :
    (Held(e, d, n) <=> Held(e0, d, n)) /\ (n \notin gs => e[d][n] = e0[d][n])

Keeps(e0, e, base, gs) ==
  /\ Len(e) = Len(e0)
  /\ \A d \in 1..Len(e), n \in Name : Held(e0, d, n) => Held(e, d, n)
  /\ Below(e0, e, base, gs)

\* What the arguments of an instruction may read, and the edges it adds to block a.
MayRead(op, args, P, x) ==
  \A v : ArgReads(args, v) => v \in P \/ (op = "CALL" /\ v = 0) \/ (op = "PHI" /\ x # {})
NoReads(args) == \A v : ~ArgReads(args, v)
NoLabels(args) == \A b : ~ArgNames(args, b)
SameEdges(m, f) == \A a, b : Edge(f, a, b) <=> Edge(m, a, b)
MoreEdges(m, f, a, args) ==
  \A b, c : Edge(f, b, c) <=> Edge(m, b, c) \/ (b = a /\ ArgNames(args, c))

\* The factory m that o has become in the middle of a statement.
Work(o, m, base, gs, x) ==
  /\ o \in Factory /\ 1 <= Len(o.blocks)
  /\ base \in Nat /\ base <= Len(o.env)
  /\ Sound(m, x)
  /\ Grown(o, m)
  /\ Keeps(o.env, m.env, base, gs)
  /\ Live(m.env, base, Produced(m))

LEMMA EdgesChained ==
  /\ \A m : SameEdges(m, m)
  /\ \A m, f, g : SameEdges(m, f) /\ SameEdges(f, g) => SameEdges(m, g)
  /\ \A m, f, a, args : MoreEdges(m, f, a, args) /\ NoLabels(args) => SameEdges(m, f)
BY DEF SameEdges, MoreEdges, NoLabels

LEMMA WorkTypes ==
  ASSUME NEW o, NEW m, NEW base, NEW gs, NEW x, Work(o, m, base, gs, x)
  PROVE  /\ m \in Factory
         /\ m.next \in Nat \ {0} /\ o.next \in Nat \ {0} /\ o.next <= m.next
         /\ Len(m.blocks) \in 1..Len(m.blocks)
         /\ Len(m.blocks) \in Nat /\ Len(o.blocks) \in Nat
         /\ 1 <= Len(o.blocks) /\ Len(o.blocks) <= Len(m.blocks)
         /\ Produced(m) \subseteq 1..m.next - 1
<1>1. m \in Factory /\ o \in Factory
  BY DEF Work, Sound
<1>2. m.next \in Nat \ {0} /\ o.next \in Nat \ {0} /\ o.next <= m.next
  BY <1>1 DEF Factory, Work, Grown
<1>3. Len(m.blocks) \in Nat /\ Len(o.blocks) \in Nat
  BY <1>1 DEF Factory
<1>4. 1 <= Len(o.blocks) /\ Len(o.blocks) <= Len(m.blocks)
  BY DEF Work, Grown
<1>5. ASSUME NEW v \in Produced(m)
      PROVE  v \in 1..m.next - 1
  <2>1. CASE v \in m.params
    <3>1. v \in Nat
      BY <1>1, <2>1 DEF Factory
    <3> QED
      BY <1>2, <2>1, <3>1 DEF Work, Sound
  <2>2. CASE v \notin m.params
    <3>1. PICK p \in Slots(m) : v = Slot(m, p).res /\ v # 0
      BY <2>2 DEF Produced
    <3>2. v \in Nat
      BY <1>1, <3>1, SlotShape DEF Instruction
    <3> QED
      BY <1>2, <3>1, <3>2 DEF Work, Sound
  <2> QED
    BY <2>1, <2>2
<1> QED
  BY <1>1, <1>2, <1>3, <1>4, <1>5

LEMMA WorkPut ==
  ASSUME NEW o, NEW m, NEW base, NEW gs, NEW x, Work(o, m, base, gs, x),
         NEW b \in 1..Len(m.blocks), Len(o.blocks) <= b,
         NEW i \in Instruction, NEW n \in Nat, m.next <= n,
         i.res # 0 => o.next <= i.res /\ i.res < n /\ i.res \notin Produced(m),
         \A v : ArgReads(i.args, v) => \/ b = Len(m.blocks) /\ v \in Produced(m)
                                       \/ i.op = "CALL" /\ v = 0
                                       \/ i.op = "PHI" /\ x # {}
  PROVE  Work(o, AddTo(m, b, i, n), base, gs, x)
<1> DEFINE f == AddTo(m, b, i, n)
<1>1. m \in Factory /\ o \in Factory /\ n \in Nat \ {0}
  <2>1. m \in Factory /\ m.next \in Nat \ {0}
    BY WorkTypes
  <2>2. o \in Factory
    BY DEF Work
  <2> QED
    BY <2>1, <2>2
<1>2. Sound(f, x)
  BY PutSound DEF Work
<1>3. Grown(o, f)
  <2>1. Grown(o, m)
    BY DEF Work
  <2> QED
    BY <1>1, <2>1, PutGrown
<1>4. f.env = m.env
  BY <1>1 DEF AddTo, Factory
<1>5. Produced(m) \subseteq Produced(f)
  <2>1. Produced(f) = Produced(m) \cup ({i.res} \ {0})
    BY <1>1, PutAdds
  <2> QED
    BY <2>1
<1> HIDE DEF f
<1>6. Live(f.env, base, Produced(f))
  BY <1>4, <1>5 DEF Live, Work
<1> QED
  BY <1>2, <1>3, <1>4, <1>6 DEF Work, f

\* The value of the last instruction has been produced, if there is one.
LEMMA LastVarProduced ==
  ASSUME NEW m \in Factory, 1 <= Len(m.blocks), LastVar(m) # 0
  PROVE  LastVar(m) \in Produced(m)
<1>1. Len(m.blocks) \in 1..Len(m.blocks)
  BY DEF Factory
<1>2. m.blocks[Len(m.blocks)] # <<>> /\ Last(m.blocks) = m.blocks[Len(m.blocks)]
  BY DEF LastVar, Last
<1> DEFINE p == <<Len(m.blocks), Len(m.blocks[Len(m.blocks)])>>
<1>3. Len(m.blocks[Len(m.blocks)]) \in 1..Len(m.blocks[Len(m.blocks)])
  <2>1. m.blocks[Len(m.blocks)] \in Seq(Instruction)
    BY <1>1, SlotShape
  <2> QED
    BY <1>2, <2>1
<1>4. p \in Slots(m)
  BY <1>1, <1>3, SlotShape
<1>5. LastVar(m) = Slot(m, p).res
  BY <1>2 DEF LastVar, Last, Slot
<1> HIDE DEF p
<1> QED
  BY <1>4, <1>5 DEF Produced

\* An instruction with a result is added.
LEMMA Emitting ==
  ASSUME NEW o, NEW m, NEW base, NEW gs, NEW x, Work(o, m, base, gs, x),
         NEW op \in Ops, NEW args \in Seq(Argument),
         MayRead(op, args, Produced(m), x)
  PROVE  LET f == Emit(m, op, args)
         IN  /\ Work(o, f, base, gs, x)
             /\ f.env = m.env /\ f.params = m.params
             /\ Len(f.blocks) = Len(m.blocks)
             /\ Produced(f) = Produced(m) \cup {m.next}
             /\ LastVar(f) = m.next /\ LastVar(f) \in Nat \ {0}
             /\ MoreEdges(m, f, Len(m.blocks), args)
             /\ LastInstr(f) \in Slots(f) /\ LastInstr(f)[1] = Len(m.blocks)
<1> DEFINE L == Len(m.blocks)
           i == [op |-> op, args |-> args, res |-> m.next]
           n == m.next + 1
           f == AddTo(m, L, i, n)
           new == <<L, Len(m.blocks[L]) + 1>>
<1>1. /\ m \in Factory /\ m.next \in Nat \ {0} /\ L \in 1..Len(m.blocks) /\ 1 <= L
      /\ o.next <= m.next /\ Len(o.blocks) <= L
      /\ Produced(m) \subseteq 1..m.next - 1
      /\ L \in Nat /\ Len(o.blocks) \in Nat /\ o.next \in Nat
  BY WorkTypes
<1>2. n \in Nat \ {0} /\ m.next <= n /\ m.next < n /\ m.next \notin 1..m.next - 1
  BY <1>1
<1>3. i \in Instruction /\ i.res = m.next /\ i.args = args /\ i.op = op
  BY <1>1 DEF Instruction
<1>4. Emit(m, op, args) = f
  BY <1>1, EmitIsPut
<1>5. /\ f.params = m.params /\ f.env = m.env
      /\ Len(f.blocks) = Len(m.blocks)
      /\ Len(f.blocks[L]) = Len(m.blocks[L]) + 1
      /\ Slots(f) = Slots(m) \cup {new}
      /\ Slot(f, new) = i
  <2> HIDE DEF i, L, n
  <2>1. i \in Instruction
    BY <1>3
  <2> QED
    BY ONLY <1>1, <1>2, <2>1, PutFacts DEF f, new
<1>6. Work(o, f, base, gs, x)
  <2> HIDE DEF i, n, L
  <2>1. i.res # 0 => o.next <= i.res /\ i.res < n /\ i.res \notin Produced(m)
    BY <1>1, <1>2, <1>3
  <2>2. \A v : ArgReads(i.args, v) => \/ L = Len(m.blocks) /\ v \in Produced(m)
                                      \/ i.op = "CALL" /\ v = 0
                                      \/ i.op = "PHI" /\ x # {}
    BY <1>3 DEF L, MayRead
  <2> QED
    BY <1>1, <1>2, <1>3, <2>1, <2>2, WorkPut
<1>7. /\ Produced(f) = Produced(m) \cup ({i.res} \ {0})
      /\ MoreEdges(m, f, L, i.args)
  <2> HIDE DEF i, L, n
  <2> QED
    BY <1>1, <1>2, <1>3, PutAdds DEF MoreEdges
<1>8. LastInstr(f) = new
  BY <1>5 DEF LastInstr, LastBlock, Last
<1>9. LastVar(f) = m.next
  <2>1. Last(f.blocks) = f.blocks[L]
    BY <1>5 DEF Last
  <2>2. f.blocks[L] # <<>>
    <3>1. Len(f.blocks[L]) # Len(<<>>)
      <4>1. Len(m.blocks[L]) \in Nat
        BY <1>1, SlotShape
      <4> QED
        BY <1>5, <4>1
    <3> QED
      BY <3>1
  <2>3. Last(f.blocks[L]) = i
    BY <1>5 DEF Last, Slot
  <2> QED
    BY <2>1, <2>2, <2>3 DEF LastVar
<1> HIDE DEF f, new, i
<1>10. new[1] = L /\ new \in Slots(f)
  BY <1>5 DEF new
<1> QED
  BY <1>1, <1>3, <1>4, <1>5, <1>6, <1>7, <1>8, <1>9, <1>10 DEF i

\* An instruction without a result is added, to a block that can be an earlier one.
LEMMA Inserting ==
  ASSUME NEW o, NEW m, NEW base, NEW gs, NEW x, Work(o, m, base, gs, x),
         NEW b \in 1..Len(m.blocks), Len(o.blocks) <= b,
         NEW op \in Ops, NEW args \in Seq(Argument),
         NoReads(args) \/ (b = Len(m.blocks) /\ MayRead(op, args, Produced(m), x))
  PROVE  LET f == InsertInto(m, b, op, args)
         IN  /\ Work(o, f, base, gs, x)
             /\ f.env = m.env /\ f.next = m.next
             /\ Len(f.blocks) = Len(m.blocks)
             /\ Produced(f) = Produced(m)
             /\ MoreEdges(m, f, b, args)
<1> DEFINE i == Instr(op, args)
           f == AddTo(m, b, i, m.next)
<1>1. m \in Factory /\ m.next \in Nat \ {0}
  BY WorkTypes
<1>2. i \in Instruction /\ i.res = 0 /\ i.args = args /\ i.op = op
  BY DEF Instruction, Instr
<1>3. InsertInto(m, b, op, args) = f
  BY <1>1, InsertIsPut
<1> HIDE DEF i
<1>4. m.next <= m.next
  BY <1>1
<1>5. Work(o, f, base, gs, x)
  <2>1. \A v : ArgReads(i.args, v) => \/ b = Len(m.blocks) /\ v \in Produced(m)
                                      \/ i.op = "CALL" /\ v = 0
                                      \/ i.op = "PHI" /\ x # {}
    BY <1>2 DEF MayRead, NoReads
  <2> QED
    BY <1>1, <1>2, <1>4, <2>1, WorkPut
<1>6. f.env = m.env /\ f.next = m.next /\ Len(f.blocks) = Len(m.blocks)
  <2>1. f.env = m.env /\ f.next = m.next
    BY <1>1 DEF AddTo, Factory
  <2>2. b \in 1..Len(m.blocks) /\ m.blocks \in Seq(Seq(Instruction))
    BY <1>1 DEF Factory
  <2>3. f.blocks = [m.blocks EXCEPT ![b] = Append(@, i)]
    BY <1>1 DEF AddTo, Factory
  <2>4. Append(m.blocks[b], i) \in Seq(Instruction)
    BY <1>2, <2>2
  <2> QED
    BY <2>1, <2>2, <2>3, <2>4, ExceptSeq
<1>7. /\ Produced(f) = Produced(m) \cup ({i.res} \ {0})
      /\ MoreEdges(m, f, b, i.args)
  BY <1>1, <1>2, PutAdds DEF MoreEdges
<1> HIDE DEF f
<1> QED
  BY <1>2, <1>3, <1>5, <1>6, <1>7

\* A block is added that an instruction behind o names.
LEMMA Linking ==
  ASSUME NEW o, NEW m, NEW base, NEW gs, NEW x, Work(o, m, base, gs, x),
         NEW a \in Len(o.blocks)..Len(m.blocks), Edge(m, a, Len(m.blocks) + 1)
  PROVE  LET f == AddBlock(m)
         IN  /\ Work(o, f, base, gs, x)
             /\ f.env = m.env
             /\ Len(f.blocks) = Len(m.blocks) + 1
             /\ Produced(f) = Produced(m)
             /\ SameEdges(m, f)
<1> DEFINE f == AddBlock(m)
<1>1. /\ m \in Factory /\ Len(m.blocks) \in Nat /\ Len(o.blocks) \in Nat
      /\ Len(o.blocks) <= Len(m.blocks)
  BY WorkTypes
<1>2. /\ f \in Factory
      /\ f.params = m.params /\ f.env = m.env /\ f.next = m.next
      /\ Len(f.blocks) = Len(m.blocks) + 1
      /\ Slots(f) = Slots(m)
      /\ \A p \in Slots(m) : Slot(f, p) = Slot(m, p)
  BY <1>1, BlockFacts
<1> HIDE DEF f
<1>3. Produced(f) = Produced(m)
  BY <1>2 DEF Produced
<1>4. SameEdges(m, f)
  BY <1>2 DEF Edge, SameEdges
<1>5. Sound(f, x)
  <2>1. Sound(m, x)
    BY DEF Work
  <2> QED
    BY <1>2, <2>1 DEF Sound
<1>6. Grown(o, f)
  <2>1. Grown(o, m)
    BY DEF Work
  <2>2. Len(o.blocks) <= Len(f.blocks)
    BY <1>1, <1>2
  <2>3. ASSUME NEW c \in Len(o.blocks) + 1..Len(f.blocks)
        PROVE  \E b \in Len(o.blocks)..c - 1 : Edge(f, b, c)
    <3>1. CASE c = Len(m.blocks) + 1
      <4>1. a \in Len(o.blocks)..c - 1
        BY <1>1, <3>1
      <4> QED
        BY <1>4, <3>1, <4>1 DEF SameEdges
    <3>2. CASE c # Len(m.blocks) + 1
      <4>1. c \in Len(o.blocks) + 1..Len(m.blocks)
        BY <1>1, <1>2, <3>2
      <4> QED
        BY <1>4, <2>1, <4>1 DEF Grown, SameEdges
    <3> QED
      BY <3>1, <3>2
  <2> QED
    BY <1>2, <1>3, <1>4, <2>1, <2>2, <2>3 DEF Grown, SameEdges
<1> QED
  BY <1>2, <1>3, <1>4, <1>5, <1>6 DEF Work, f

\* The same code, in another environment and with more variables.
LEMMA SameCode ==
  ASSUME NEW m \in Factory, NEW f \in Factory, NEW x,
         f.blocks = m.blocks, f.params = m.params, m.next <= f.next
  PROVE  /\ Slots(f) = Slots(m)
         /\ \A p \in Slots(m) : Slot(f, p) = Slot(m, p)
         /\ Produced(f) = Produced(m)
         /\ SameEdges(m, f)
         /\ LastVar(f) = LastVar(m) /\ LastInstr(f) = LastInstr(m)
         /\ Sound(m, x) => Sound(f, x)
<1>1. Slots(f) = Slots(m) /\ \A p : Slot(f, p) = Slot(m, p)
  BY DEF Slots, Slot
<1>2. Produced(f) = Produced(m)
  BY <1>1 DEF Produced
<1>3. SameEdges(m, f)
  BY <1>1 DEF Edge, SameEdges
<1>4. LastVar(f) = LastVar(m) /\ LastInstr(f) = LastInstr(m)
  BY DEF LastVar, LastInstr, LastBlock
<1>5. ASSUME Sound(m, x)
      PROVE  Sound(f, x)
  <2>1. m.next \in Nat /\ f.next \in Nat
    BY DEF Factory
  <2>2. \A p \in Slots(m) : Slot(m, p).res \in Nat
    BY SlotShape DEF Instruction
  <2>3. \A v \in m.params : v \in Nat
    BY DEF Factory
  <2>4. \A p \in Slots(m) : Slot(m, p).res < f.next
    BY <1>5, <2>1, <2>2 DEF Sound
  <2>5. \A v \in m.params : v < f.next
    BY <1>5, <2>1, <2>3 DEF Sound
  <2> QED
    BY <1>1, <1>5, <2>4, <2>5 DEF Sound
<1> QED
  BY <1>1, <1>2, <1>3, <1>4, <1>5

LEMMA SetEnvFacts ==
  ASSUME NEW m \in Factory, NEW e \in Seq(Env!Scope)
  PROVE  /\ SetEnv(m, e) \in Factory
         /\ SetEnv(m, e).blocks = m.blocks /\ SetEnv(m, e).params = m.params
         /\ SetEnv(m, e).next = m.next /\ SetEnv(m, e).env = e
BY DEF SetEnv, Factory

LEMMA SettingEnv ==
  ASSUME NEW o, NEW m, NEW base, NEW gs, NEW x, Work(o, m, base, gs, x),
         NEW e \in Seq(Env!Scope), Keeps(o.env, e, base, gs), Live(e, base, Produced(m))
  PROVE  LET f == SetEnv(m, e)
         IN  /\ Work(o, f, base, gs, x)
             /\ f.env = e /\ f.next = m.next /\ f.blocks = m.blocks
             /\ Produced(f) = Produced(m)
             /\ SameEdges(m, f)
             /\ LastVar(f) = LastVar(m) /\ LastInstr(f) = LastInstr(m)
<1> DEFINE f == SetEnv(m, e)
<1>1. m \in Factory /\ m.next \in Nat
  BY WorkTypes
<1>2. /\ f \in Factory /\ f.blocks = m.blocks /\ f.params = m.params
      /\ f.next = m.next /\ f.env = e
  BY <1>1, SetEnvFacts
<1> HIDE DEF f
<1>3. m.next <= f.next
  BY <1>1, <1>2
<1>4. /\ Slots(f) = Slots(m)
      /\ Produced(f) = Produced(m)
      /\ SameEdges(m, f)
      /\ LastVar(f) = LastVar(m) /\ LastInstr(f) = LastInstr(m)
      /\ Sound(m, x) => Sound(f, x)
  BY <1>1, <1>2, <1>3, SameCode
<1>5. Grown(o, f)
  BY <1>2, <1>4 DEF Work, Grown, SameEdges
<1> QED
  BY <1>2, <1>4, <1>5 DEF Work, f

-----------------------------------------------------------------------------
(* What the operators do to an environment.                                 *)

LEMMA ScopeEntries ==
  ASSUME NEW e \in Seq(Env!Scope)
  PROVE  /\ Len(e) \in Nat
         /\ \A d \in 1..Len(e), n \in Name : e[d][n] \in Site \cup {None}
         /\ \A d \in 1..Len(e), n \in Name : Held(e, d, n) => e[d][n] \in Site /\ e[d][n].var \in Nat
<1>1. \A d \in 1..Len(e) : e[d] \in Env!Scope
  OBVIOUS
<1>2. \A d \in 1..Len(e), n \in Name : e[d][n] \in Site \cup {None}
  BY <1>1 DEF Env!Scope
<1>3. \A s \in Site : s.var \in Nat
  BY DEF Site
<1> QED
  BY <1>2, <1>3 DEF Held

\* find() stops at the innermost scope that has the name.
LEMMA FindInnermost ==
  ASSUME NEW e \in Seq(Env!Scope), NEW n \in Name, Env!Contains(e, n)
  PROVE  LET k == Env!FindScope(e, n)
         IN  /\ k \in 1..Len(e) /\ Held(e, k, n)
             /\ \A d \in 1..Len(e) : Held(e, d, n) => d <= k
             /\ Env!Find(e, n) = e[k][n]
<1>1. Env!Holders(e, n) = {i \in 1..Len(e) : Held(e, i, n)}
  BY DEF Env!Holders, Held
<1>2. Env!Holders(e, n) \in SUBSET (0..Len(e)) /\ Env!Holders(e, n) # {} /\ Len(e) \in Nat
  BY <1>1 DEF Env!Contains
<1>3. \E i \in Env!Holders(e, n) : \A j \in Env!Holders(e, n) : j <= i
  BY <1>2, GreatestElement
<1>4. /\ Env!FindScope(e, n) \in Env!Holders(e, n)
      /\ \A j \in Env!Holders(e, n) : j <= Env!FindScope(e, n)
  BY <1>3 DEF Env!FindScope
<1> QED
  BY <1>1, <1>4 DEF Env!Find

\* An entry is replaced.
LEMMA EntryReplaced ==
  ASSUME NEW e \in Seq(Env!Scope), NEW k \in 1..Len(e), NEW n \in Name, NEW s \in Site
  PROVE  LET f == [e EXCEPT ![k][n] = s]
         IN  /\ f \in Seq(Env!Scope)
             /\ Len(f) = Len(e)
             /\ \A d \in 1..Len(e), p \in Name : f[d][p] = IF d = k /\ p = n THEN s ELSE e[d][p]
<1> DEFINE sc == [e[k] EXCEPT ![n] = s]
           f == [e EXCEPT ![k] = sc]
<1>1. e[k] \in Env!Scope
  OBVIOUS
<1>2. sc \in Env!Scope
  BY <1>1 DEF Env!Scope
<1>3. /\ f \in Seq(Env!Scope) /\ Len(f) = Len(e)
      /\ \A d \in 1..Len(e) : f[d] = IF d = k THEN sc ELSE e[d]
  BY <1>2, ExceptSeq
<1>4. \A p \in Name : sc[p] = IF p = n THEN s ELSE e[k][p]
  BY <1>1 DEF Env!Scope
<1>5. f = [e EXCEPT ![k][n] = s]
  OBVIOUS
<1> HIDE DEF f, sc
<1>6. \A d \in 1..Len(e), p \in Name : f[d][p] = IF d = k /\ p = n THEN s ELSE e[d][p]
  BY <1>3, <1>4
<1> QED
  BY <1>3, <1>5, <1>6

\* An entry above the base, or one of a global below it, is written.
LEMMA EntryWritten ==
  ASSUME None \notin Site,
         NEW base \in Nat, NEW gs, NEW P, NEW e0, NEW e \in Seq(Env!Scope),
         Keeps(e0, e, base, gs), Live(e, base, P), base <= Len(e),
         NEW k \in 1..Len(e), NEW n \in Name, NEW s \in Site, s.var \in P,
         base < k \/ (n \in gs /\ Held(e, k, n))
  PROVE  LET f == [e EXCEPT ![k][n] = s]
         IN  Keeps(e0, f, base, gs) /\ Live(f, base, P) /\ Held(f, k, n)
<1> DEFINE f == [e EXCEPT ![k][n] = s]
<1>1. /\ f \in Seq(Env!Scope)
      /\ Len(f) = Len(e)
      /\ \A d \in 1..Len(e), p \in Name : f[d][p] = IF d = k /\ p = n THEN s ELSE e[d][p]
  BY EntryReplaced
<1> HIDE DEF f
<1>2. \A d \in 1..Len(e), p \in Name : Held(f, d, p) <=> (d = k /\ p = n) \/ Held(e, d, p)
  BY <1>1 DEF Held
<1>3. Live(f, base, P)
  BY <1>1, <1>2 DEF Live
<1>4. Below(e0, f, base, gs)
  <2>1. ASSUME NEW d \in 1..base, NEW p \in Name
        PROVE  (Held(f, d, p) <=> Held(e0, d, p)) /\ (p \notin gs => f[d][p] = e0[d][p])
    <3>1. d \in 1..Len(e)
      <4>1. Len(e) \in Nat
        OBVIOUS
      <4> QED
        BY <4>1
    <3>2. (Held(e, d, p) <=> Held(e0, d, p)) /\ (p \notin gs => e[d][p] = e0[d][p])
      BY DEF Keeps, Below
    <3>3. CASE d = k /\ p = n
      <4>1. n \in gs /\ Held(e, k, n)
        BY <3>3
      <4> QED
        BY <1>2, <3>1, <3>2, <3>3, <4>1
    <3>4. CASE ~(d = k /\ p = n)
      BY <1>1, <1>2, <3>1, <3>2, <3>4
    <3> QED
      BY <3>3, <3>4
  <2> QED
    BY <2>1 DEF Below
<1>5. \A d \in 1..Len(f), p \in Name : Held(e0, d, p) => Held(f, d, p)
  BY <1>1, <1>2 DEF Keeps
<1>6. Len(f) = Len(e0)
  BY <1>1 DEF Keeps
<1>7. Held(f, k, n)
  BY <1>2
<1> QED
  BY <1>3, <1>4, <1>5, <1>6, <1>7 DEF Keeps, f

LEMMA WorkEnv ==
  ASSUME NEW o, NEW m, NEW base, NEW gs, NEW x, Work(o, m, base, gs, x)
  PROVE  /\ base \in Nat /\ m.env \in Seq(Env!Scope) /\ Len(m.env) = Len(o.env) /\ base <= Len(m.env)
         /\ Len(m.env) \in Nat
         /\ Keeps(o.env, m.env, base, gs) /\ Live(m.env, base, Produced(m))
<1>1. m \in Factory
  BY WorkTypes
<1>2. m.env \in Seq(Env!Scope) /\ Len(m.env) \in Nat
  BY <1>1 DEF Factory
<1> QED
  BY <1>2 DEF Work, Keeps

\* A name that can be looked up: a global, or one with an entry above the base.
Usable(e, n, base, gs) ==
  n \in Name /\ (n \in gs \/ \E d \in 1..Len(e) : base < d /\ Held(e, d, n))

LEMMA UsableKept ==
  ASSUME NEW o, NEW m, NEW base, NEW ls, NEW x, Work(o, m, base, ls, x),
         NEW gs, NEW n, Usable(o.env, n, base, gs)
  PROVE  Usable(m.env, n, base, gs)
BY WorkEnv DEF Usable, Keeps

\* var_bind: a new name in the current scope.
LEMMA Binding ==
  ASSUME MirAssumption,
         NEW o, NEW m, NEW base, NEW gs, NEW x, Work(o, m, base, gs, x), base < Len(m.env),
         NEW n \in Name, CanBind(m, n), NEW v \in Produced(m)
  PROVE  LET f == VarBind(m, n, v)
         IN  /\ Work(o, f, base, gs, x)
             /\ Len(f.blocks) = Len(m.blocks)
             /\ Produced(m) \subseteq Produced(f)
             /\ SameEdges(m, f)
             /\ Held(f.env, Len(m.env), n)
<1> DEFINE b == Emit(m, "BIND", <<V(v)>>)
           s == At(LastBlock(m), LastVar(b))
           e == [m.env EXCEPT ![Len(m.env)][n] = s]
           f == SetEnv(b, e)
<1>1. v \in Nat /\ Len(m.blocks) \in Nat
  <2>1. Produced(m) \subseteq 1..m.next - 1 /\ m.next \in Nat /\ Len(m.blocks) \in Nat
    BY WorkTypes
  <2> QED
    BY <2>1
<1>2. <<V(v)>> \in Seq(Argument)
  BY <1>1, OperandShapes
<1>3. MayRead("BIND", <<V(v)>>, Produced(m), x) /\ NoLabels(<<V(v)>>)
  BY Args, OperandReads, OperandLabels DEF MayRead, NoLabels
<1>4. /\ Work(o, b, base, gs, x)
      /\ b.env = m.env
      /\ Len(b.blocks) = Len(m.blocks)
      /\ Produced(b) = Produced(m) \cup {m.next}
      /\ LastVar(b) = m.next /\ LastVar(b) \in Nat \ {0}
      /\ MoreEdges(m, b, Len(m.blocks), <<V(v)>>)
  <2> HIDE DEF b
  <2>1. "BIND" \in Ops
    BY DEF Ops
  <2> DEFINE args == <<V(v)>>
  <2>2. Work(o, m, base, gs, x) /\ MayRead("BIND", args, Produced(m), x) /\ args \in Seq(Argument)
    BY <1>2, <1>3
  <2>3. b = Emit(m, "BIND", args)
    BY DEF b
  <2> HIDE DEF args
  <2>4. /\ Work(o, b, base, gs, x)
        /\ b.env = m.env
        /\ Len(b.blocks) = Len(m.blocks)
        /\ Produced(b) = Produced(m) \cup {m.next}
        /\ LastVar(b) = m.next /\ LastVar(b) \in Nat \ {0}
        /\ MoreEdges(m, b, Len(m.blocks), args)
    BY ONLY <2>1, <2>2, <2>3, Emitting
  <2> QED
    BY <2>4 DEF args
<1> HIDE DEF b
<1>5. s \in Site /\ s.var = LastVar(b)
  BY <1>1, <1>4 DEF Site, At, LastBlock
<1>6. VarBind(m, n, v) = f
  BY DEF VarBind, Env!Insert, CanBind, b
<1> HIDE DEF s
<1>7. /\ base \in Nat /\ b.env \in Seq(Env!Scope) /\ base <= Len(b.env) /\ Len(b.env) \in Nat
      /\ Keeps(o.env, b.env, base, gs) /\ Live(b.env, base, Produced(b))
  BY <1>4, WorkEnv
<1>8. Len(m.env) \in 1..Len(b.env) /\ base < Len(m.env)
  BY <1>4, <1>7
<1>9. Keeps(o.env, e, base, gs) /\ Live(e, base, Produced(b)) /\ Held(e, Len(m.env), n)
  <2>1. s.var \in Produced(b)
    BY <1>4, <1>5
  <2>2. e = [b.env EXCEPT ![Len(m.env)][n] = s]
    BY <1>4
  <2> HIDE DEF e
  <2> QED
    BY <1>5, <1>7, <1>8, <2>1, <2>2, EntryWritten DEF MirAssumption
<1>10. e \in Seq(Env!Scope)
  BY <1>4, <1>5, <1>7, <1>8, EntryReplaced
<1> HIDE DEF e
<1>11. /\ Work(o, f, base, gs, x) /\ f.env = e /\ f.blocks = b.blocks
       /\ Produced(f) = Produced(b)
       /\ SameEdges(b, f)
  <2>1. Work(o, b, base, gs, x) /\ Keeps(o.env, e, base, gs) /\ Live(e, base, Produced(b))
    BY <1>4, <1>9
  <2> QED
    BY ONLY <1>10, <2>1, SettingEnv
<1> HIDE DEF f
<1> QED
  BY <1>3, <1>4, <1>6, <1>9, <1>11, EdgesChained

\* add_update: a name that is known gets a new variable.
LEMMA Updating ==
  ASSUME MirAssumption,
         NEW o, NEW m, NEW base, NEW gs, NEW x, Work(o, m, base, gs, x),
         NEW n, Usable(m.env, n, base, gs), Knows(m, n), NEW v \in Produced(m)
  PROVE  LET f == AddUpdate(m, n, v)
         IN  /\ Work(o, f, base, gs, x)
             /\ Len(f.blocks) = Len(m.blocks)
             /\ Produced(m) \subseteq Produced(f)
             /\ LastVar(f) \in Produced(f) /\ LastVar(f) # 0
             /\ SameEdges(m, f)
<1> DEFINE b == Emit(m, "UPDATE", <<V(v)>>)
           s == At(LastBlock(m), LastVar(b))
           k == Env!FindScope(m.env, n)
           e == [m.env EXCEPT ![k][n] = s]
           f == SetEnv(b, e)
<1>1. v \in Nat /\ Len(m.blocks) \in Nat
  <2>1. Produced(m) \subseteq 1..m.next - 1 /\ m.next \in Nat /\ Len(m.blocks) \in Nat
    BY WorkTypes
  <2> QED
    BY <2>1
<1>2. <<V(v)>> \in Seq(Argument)
  BY <1>1, OperandShapes
<1>3. MayRead("UPDATE", <<V(v)>>, Produced(m), x) /\ NoLabels(<<V(v)>>)
  BY Args, OperandReads, OperandLabels DEF MayRead, NoLabels
<1>4. /\ Work(o, b, base, gs, x)
      /\ b.env = m.env
      /\ Len(b.blocks) = Len(m.blocks)
      /\ Produced(b) = Produced(m) \cup {m.next}
      /\ LastVar(b) = m.next /\ LastVar(b) \in Nat \ {0}
      /\ MoreEdges(m, b, Len(m.blocks), <<V(v)>>)
  <2> HIDE DEF b
  <2>1. "UPDATE" \in Ops
    BY DEF Ops
  <2> DEFINE args == <<V(v)>>
  <2>2. Work(o, m, base, gs, x) /\ MayRead("UPDATE", args, Produced(m), x) /\ args \in Seq(Argument)
    BY <1>2, <1>3
  <2>3. b = Emit(m, "UPDATE", args)
    BY DEF b
  <2> HIDE DEF args
  <2>4. /\ Work(o, b, base, gs, x)
        /\ b.env = m.env
        /\ Len(b.blocks) = Len(m.blocks)
        /\ Produced(b) = Produced(m) \cup {m.next}
        /\ LastVar(b) = m.next /\ LastVar(b) \in Nat \ {0}
        /\ MoreEdges(m, b, Len(m.blocks), args)
    BY ONLY <2>1, <2>2, <2>3, Emitting
  <2> QED
    BY <2>4 DEF args
<1> HIDE DEF b
<1>5. s \in Site /\ s.var = LastVar(b)
  BY <1>1, <1>4 DEF Site, At, LastBlock
<1>6. AddUpdate(m, n, v) = f
  BY DEF AddUpdate, Env!Assign, b
<1>7. /\ base \in Nat /\ b.env \in Seq(Env!Scope) /\ base <= Len(b.env) /\ Len(b.env) \in Nat
      /\ Keeps(o.env, b.env, base, gs) /\ Live(b.env, base, Produced(b))
  BY <1>4, WorkEnv
<1>8. k \in 1..Len(b.env) /\ Held(b.env, k, n) /\ n \in Name
      /\ \A d \in 1..Len(b.env) : Held(b.env, d, n) => d <= k
  <2>1. Env!Contains(m.env, n) /\ n \in Name
    BY DEF Knows, Usable
  <2> QED
    BY <1>4, <1>7, <2>1, FindInnermost
<1> HIDE DEF s, k
<1>9. base < k \/ (n \in gs /\ Held(b.env, k, n))
  <2>1. CASE n \in gs
    BY <1>8, <2>1
  <2>2. CASE n \notin gs
    <3>1. PICK d \in 1..Len(b.env) : base < d /\ Held(b.env, d, n)
      BY <1>4, <2>2 DEF Usable
    <3>2. d <= k
      BY <1>8, <3>1
    <3> QED
      BY <1>7, <1>8, <3>1, <3>2
  <2> QED
    BY <2>1, <2>2
<1>10. Keeps(o.env, e, base, gs) /\ Live(e, base, Produced(b))
  <2>1. s.var \in Produced(b)
    BY <1>4, <1>5
  <2>2. e = [b.env EXCEPT ![k][n] = s]
    BY <1>4
  <2> HIDE DEF e
  <2> QED
    BY <1>5, <1>7, <1>8, <1>9, <2>1, <2>2, EntryWritten DEF MirAssumption
<1>11. e \in Seq(Env!Scope)
  BY <1>4, <1>5, <1>7, <1>8, EntryReplaced
<1> HIDE DEF e
<1>12. /\ Work(o, f, base, gs, x) /\ f.env = e /\ f.blocks = b.blocks
       /\ Produced(f) = Produced(b) /\ LastVar(f) = LastVar(b)
       /\ SameEdges(b, f)
  <2>1. Work(o, b, base, gs, x) /\ Keeps(o.env, e, base, gs) /\ Live(e, base, Produced(b))
    BY <1>4, <1>10
  <2> QED
    BY ONLY <1>11, <2>1, SettingEnv
<1> HIDE DEF f
<1> QED
  BY <1>3, <1>4, <1>6, <1>12, EdgesChained

\* add_variable_ref.
LEMMA Reading ==
  ASSUME MirAssumption,
         NEW o, NEW m, NEW base, NEW ls, NEW x, Work(o, m, base, ls, x),
         NEW gs, gs \subseteq ls, NEW n, Usable(o.env, n, base, gs)
  PROVE  LET f == VariableRef(m, n, gs)
         IN  /\ Work(o, f, base, ls, x)
             /\ Len(f.blocks) = Len(m.blocks)
             /\ Produced(m) \subseteq Produced(f)
             /\ LastVar(f) \in Produced(f) /\ LastVar(f) # 0
             /\ SameEdges(m, f)
<1>1. Usable(m.env, n, base, gs)
  BY UsableKept
<1>2. CASE n \in gs
  <2> DEFINE args == <<[kind |-> "global", name |-> n]>>
             f == Emit(m, "LOAD", args)
  <2>1. args \in Seq(Argument) /\ n \in Name
    BY <1>1, OperandShapes DEF Usable
  <2>2. MayRead("LOAD", args, Produced(m), x) /\ NoLabels(args)
    BY Args, OperandReads, OperandLabels DEF MayRead, NoLabels
  <2>3. VariableRef(m, n, gs) = f
    BY <1>2 DEF VariableRef
  <2> HIDE DEF args
  <2>4. /\ Work(o, f, base, ls, x)
        /\ Len(f.blocks) = Len(m.blocks)
        /\ Produced(f) = Produced(m) \cup {m.next}
        /\ LastVar(f) = m.next /\ LastVar(f) \in Nat \ {0}
        /\ MoreEdges(m, f, Len(m.blocks), args)
    <3>1. "LOAD" \in Ops
      BY DEF Ops
    <3> HIDE DEF f
    <3> QED
      BY <2>1, <2>2, <3>1, Emitting DEF f
  <2> HIDE DEF f
  <2> QED
    BY <2>2, <2>3, <2>4, EdgesChained
<1>3. CASE n \notin gs
  <2>1. PICK d \in 1..Len(m.env) : base < d /\ Held(m.env, d, n)
    BY <1>1, <1>3 DEF Usable
  <2>2. n \in Name
    BY <1>1 DEF Usable
  <2>3. /\ base \in Nat /\ m.env \in Seq(Env!Scope) /\ Len(m.env) \in Nat
        /\ Live(m.env, base, Produced(m))
    BY WorkEnv
  <2>4. Knows(m, n)
    <3>1. d \in DOMAIN m.env /\ m.env[d][n] # None
      BY <2>1, <2>3 DEF Held
    <3> QED
      BY <3>1 DEF Knows, Env!Contains, Env!Holders
  <2> DEFINE k == Env!FindScope(m.env, n)
  <2>5. /\ k \in 1..Len(m.env) /\ Held(m.env, k, n) /\ Env!Find(m.env, n) = m.env[k][n]
        /\ \A i \in 1..Len(m.env) : Held(m.env, i, n) => i <= k
    BY <2>2, <2>3, <2>4, FindInnermost DEF Knows
  <2> HIDE DEF k
  <2>6. base < k
    <3>1. d <= k
      BY <2>1, <2>5
    <3> QED
      BY <2>1, <2>3, <2>5, <3>1
  <2>7. VarOf(m.env, n) \in Produced(m)
    BY <2>2, <2>3, <2>5, <2>6 DEF VarOf, Live
  <2>8. VariableRef(m, n, gs) = AddUpdate(m, n, VarOf(m.env, n))
    BY <1>3 DEF VariableRef
  <2>9. Usable(m.env, n, base, ls)
    BY <1>1 DEF Usable
  <2> QED
    BY <2>4, <2>7, <2>8, <2>9, Updating
<1> QED
  BY <1>2, <1>3

-----------------------------------------------------------------------------
(* Expressions.                                                             *)

\* Between two factories of a statement.
LEMMA WorkItself ==
  ASSUME NEW o, NEW m, NEW base, NEW gs, NEW x, Work(o, m, base, gs, x)
  PROVE  Work(m, m, base, gs, x)
<1>1. m \in Factory /\ 1 <= Len(m.blocks)
  <2>1. m \in Factory /\ Len(m.blocks) \in Nat /\ Len(o.blocks) \in Nat
        /\ 1 <= Len(o.blocks) /\ Len(o.blocks) <= Len(m.blocks)
    BY WorkTypes
  <2> QED
    BY <2>1
<1>2. base \in Nat /\ base <= Len(m.env) /\ Live(m.env, base, Produced(m))
  BY WorkEnv
<1>3. Grown(m, m)
  BY <1>1, GrownFromItself
<1>4. Keeps(m.env, m.env, base, gs)
  BY DEF Keeps, Below
<1> QED
  BY <1>1, <1>2, <1>3, <1>4 DEF Work

LEMMA WorkChained ==
  ASSUME NEW o, NEW m, NEW f, NEW base, NEW gs, NEW x,
         Work(o, m, base, gs, x), Work(m, f, base, gs, x)
  PROVE  Work(o, f, base, gs, x)
<1>1. /\ Len(o.blocks) \in Nat /\ Len(m.blocks) \in Nat /\ Len(f.blocks) \in Nat
      /\ Len(o.blocks) <= Len(m.blocks) /\ Len(m.blocks) <= Len(f.blocks)
      /\ o.next \in Nat /\ m.next \in Nat /\ f.next \in Nat
      /\ o.next <= m.next /\ m.next <= f.next
      /\ Produced(f) \subseteq 1..f.next - 1
  BY WorkTypes
<1>2. Grown(o, m) /\ Grown(m, f)
  BY DEF Work
<1>3. Grown(o, f)
  <2>1. o.next <= f.next /\ Len(o.blocks) <= Len(f.blocks)
    BY <1>1
  <2>2. \A v \in Produced(f) \ Produced(o) : o.next <= v
    <3>1. \A v \in Produced(f) : v \in Nat
      BY <1>1
    <3> QED
      BY <1>1, <1>2, <3>1 DEF Grown
  <2>3. ASSUME NEW a, NEW b, Edge(f, a, b), ~Edge(o, a, b)
        PROVE  Len(o.blocks) <= a
    <3>1. CASE Edge(m, a, b)
      BY <1>2, <2>3, <3>1 DEF Grown
    <3>2. CASE ~Edge(m, a, b)
      <4>1. a \in Nat
        <5>1. PICK p \in Slots(f) : p[1] = a
          BY <2>3 DEF Edge
        <5>2. f \in Factory
          BY WorkTypes
        <5>3. p[1] \in 1..Len(f.blocks)
          BY <5>2, SlotShape
        <5> QED
          BY <5>1, <5>3
      <4>2. Len(m.blocks) <= a
        BY <1>2, <2>3, <3>2 DEF Grown
      <4> QED
        BY <1>1, <4>1, <4>2
    <3> QED
      BY <3>1, <3>2
  <2>4. ASSUME NEW b \in Len(o.blocks) + 1..Len(f.blocks)
        PROVE  \E a \in Len(o.blocks)..b - 1 : Edge(f, a, b)
    <3>1. CASE b <= Len(m.blocks)
      <4>1. b \in Len(o.blocks) + 1..Len(m.blocks)
        BY <1>1, <3>1
      <4> QED
        BY <1>2, <4>1 DEF Grown
    <3>2. CASE ~(b <= Len(m.blocks))
      <4>1. b \in Len(m.blocks) + 1..Len(f.blocks)
        BY <1>1, <3>2
      <4>2. PICK a \in Len(m.blocks)..b - 1 : Edge(f, a, b)
        BY <1>2, <4>1 DEF Grown
      <4>3. a \in Len(o.blocks)..b - 1
        BY <1>1, <4>1
      <4> QED
        BY <4>2, <4>3
    <3> QED
      BY <3>1, <3>2
  <2> HIDE DEF Edge
  <2> QED
    BY <1>2, <2>1, <2>2, <2>3, <2>4 DEF Grown
<1>4. Keeps(o.env, f.env, base, gs)
  BY DEF Work, Keeps, Below
<1> QED
  BY <1>3, <1>4 DEF Work

\* f is m with instructions that compute a value.
GivesValue(o, m, f, base, gs, x) ==
  /\ Work(o, f, base, gs, x)
  /\ Len(f.blocks) = Len(m.blocks)
  /\ Produced(m) \subseteq Produced(f)
  /\ LastVar(f) \in Produced(f)
  /\ SameEdges(m, f)

LEMMA ReadingValue ==
  ASSUME MirAssumption,
         NEW o, NEW m, NEW base, NEW ls, NEW x, Work(o, m, base, ls, x),
         NEW gs, gs \subseteq ls, NEW n, Usable(o.env, n, base, gs)
  PROVE  GivesValue(o, m, VariableRef(m, n, gs), base, ls, x)
BY Reading DEF GivesValue

\* The operands of what computes a value.
ValueArgs(op, args, P, x) ==
  args \in Seq(Argument) /\ MayRead(op, args, P, x) /\ NoLabels(args)

LEMMA ValueShapes ==
  ASSUME NEW op, NEW P, NEW x, P \subseteq Nat
  PROVE  /\ ValueArgs(op, <<>>, P, x)
         /\ ValueArgs(op, <<Lit>>, P, x)
         /\ \A v \in P : /\ ValueArgs(op, <<V(v)>>, P, x)
                         /\ ValueArgs(op, <<Lit, V(v)>>, P, x)
                         /\ ValueArgs(op, <<V(v), Lit>>, P, x)
                         /\ ValueArgs("CALL", <<Fn, Null, V(v)>>, P, x)
         /\ \A v, w \in P : ValueArgs(op, <<V(v), V(w)>>, P, x)
         /\ \A u, v, w \in P : ValueArgs(op, <<V(u), V(v), V(w)>>, P, x)
<1>1. \A v \in P : V(v) \in Argument
  BY OperandShapes
<1>2. Lit \in Argument /\ Fn \in Argument /\ Null \in Argument /\ Null = V(0)
  BY OperandShapes
<1>3. ValueArgs(op, <<>>, P, x)
  BY Args DEF ValueArgs, MayRead, NoLabels
<1>4. ValueArgs(op, <<Lit>>, P, x)
  BY <1>2, Args, OperandReads, OperandLabels DEF ValueArgs, MayRead, NoLabels
<1>5. ASSUME NEW v \in P
      PROVE  /\ ValueArgs(op, <<V(v)>>, P, x)
             /\ ValueArgs(op, <<Lit, V(v)>>, P, x)
             /\ ValueArgs(op, <<V(v), Lit>>, P, x)
             /\ ValueArgs("CALL", <<Fn, Null, V(v)>>, P, x)
  <2>1. /\ <<V(v)>> \in Seq(Argument) /\ <<Lit, V(v)>> \in Seq(Argument)
        /\ <<V(v), Lit>> \in Seq(Argument) /\ <<Fn, Null, V(v)>> \in Seq(Argument)
    BY <1>1, <1>2
  <2>2. /\ NoLabels(<<V(v)>>) /\ NoLabels(<<Lit, V(v)>>)
        /\ NoLabels(<<V(v), Lit>>) /\ NoLabels(<<Fn, Null, V(v)>>)
    BY <1>2, Args, OperandLabels DEF NoLabels
  <2>3. MayRead(op, <<V(v)>>, P, x)
    BY Args, OperandReads DEF MayRead
  <2>4. MayRead(op, <<Lit, V(v)>>, P, x)
    BY Args, OperandReads DEF MayRead
  <2>5. MayRead(op, <<V(v), Lit>>, P, x)
    BY Args, OperandReads DEF MayRead
  <2>6. MayRead("CALL", <<Fn, Null, V(v)>>, P, x)
    BY <1>2, Args, OperandReads DEF MayRead
  <2> QED
    BY <2>1, <2>2, <2>3, <2>4, <2>5, <2>6 DEF ValueArgs
<1>6. ASSUME NEW v \in P, NEW w \in P
      PROVE  ValueArgs(op, <<V(v), V(w)>>, P, x)
  <2>1. <<V(v), V(w)>> \in Seq(Argument)
    BY <1>1
  <2>2. MayRead(op, <<V(v), V(w)>>, P, x) /\ NoLabels(<<V(v), V(w)>>)
    BY Args, OperandReads, OperandLabels DEF MayRead, NoLabels
  <2> QED
    BY <2>1, <2>2 DEF ValueArgs
<1>7. ASSUME NEW u \in P, NEW v \in P, NEW w \in P
      PROVE  ValueArgs(op, <<V(u), V(v), V(w)>>, P, x)
  <2>1. <<V(u), V(v), V(w)>> \in Seq(Argument)
    BY <1>1
  <2>2. MayRead(op, <<V(u), V(v), V(w)>>, P, x) /\ NoLabels(<<V(u), V(v), V(w)>>)
    BY Args, OperandReads, OperandLabels DEF MayRead, NoLabels
  <2> QED
    BY <2>1, <2>2 DEF ValueArgs
<1> QED
  BY <1>3, <1>4, <1>5, <1>6, <1>7

LEMMA EmittingValue ==
  ASSUME NEW o, NEW m, NEW base, NEW gs, NEW x, Work(o, m, base, gs, x),
         NEW op \in Ops, NEW args, ValueArgs(op, args, Produced(m), x)
  PROVE  GivesValue(o, m, Emit(m, op, args), base, gs, x)
<1> DEFINE f == Emit(m, op, args)
<1>1. /\ Work(o, f, base, gs, x)
      /\ Len(f.blocks) = Len(m.blocks)
      /\ Produced(f) = Produced(m) \cup {m.next}
      /\ LastVar(f) = m.next /\ LastVar(f) \in Nat \ {0}
      /\ MoreEdges(m, f, Len(m.blocks), args)
  <2>1. args \in Seq(Argument) /\ MayRead(op, args, Produced(m), x) /\ Work(o, m, base, gs, x) /\ op \in Ops
    BY DEF ValueArgs
  <2> QED
    BY ONLY <2>1, Emitting
<1>2. NoLabels(args)
  BY DEF ValueArgs
<1> HIDE DEF f
<1>3. SameEdges(m, f)
  BY <1>1, <1>2, EdgesChained
<1> QED
  BY <1>1, <1>3 DEF GivesValue, f

\* Instructions that compute no value.
LEMMA AddingInstr ==
  ASSUME NEW o, NEW m, NEW base, NEW gs, NEW x, Work(o, m, base, gs, x),
         NEW op \in Ops, NEW args, ValueArgs(op, args, Produced(m), x)
  PROVE  LET f == AddInstr(m, op, args)
         IN  /\ Work(o, f, base, gs, x) /\ f.env = m.env /\ f.next = m.next
             /\ Len(f.blocks) = Len(m.blocks)
             /\ Produced(f) = Produced(m)
             /\ SameEdges(m, f)
<1> DEFINE L == Len(m.blocks)
           f == InsertInto(m, L, op, args)
<1>1. L \in 1..Len(m.blocks) /\ Len(o.blocks) <= L
  BY WorkTypes
<1>2. args \in Seq(Argument) /\ NoLabels(args) /\ L = Len(m.blocks) /\ MayRead(op, args, Produced(m), x)
  BY DEF ValueArgs
<1>3. AddInstr(m, op, args) = f
  BY DEF AddInstr, LastBlock
<1> HIDE DEF L
<1>4. /\ Work(o, f, base, gs, x) /\ f.env = m.env /\ f.next = m.next
      /\ Len(f.blocks) = Len(m.blocks)
      /\ Produced(f) = Produced(m)
      /\ MoreEdges(m, f, L, args)
  BY <1>1, <1>2, Inserting
<1> HIDE DEF f
<1> QED
  BY <1>2, <1>3, <1>4, EdgesChained

LEMMA Jumping ==
  ASSUME NEW o, NEW m, NEW base, NEW gs, NEW x, Work(o, m, base, gs, x),
         NEW b \in 1..Len(m.blocks), Len(o.blocks) <= b, NEW t \in Nat
  PROVE  LET f == InsertJump(m, b, t)
         IN  /\ Work(o, f, base, gs, x) /\ f.env = m.env /\ f.next = m.next
             /\ Len(f.blocks) = Len(m.blocks)
             /\ Produced(f) = Produced(m)
             /\ \A a, c : Edge(f, a, c) <=> Edge(m, a, c) \/ (a = b /\ c = t)
<1> DEFINE args == <<Lab(t)>>
           f == InsertInto(m, b, "JUMP", args)
<1>1. args \in Seq(Argument)
  BY OperandShapes
<1>2. NoReads(args) /\ \A c : ArgNames(args, c) <=> c = t
  BY Args, OperandReads, OperandLabels DEF NoReads
<1>3. InsertJump(m, b, t) = f
  BY DEF InsertJump
<1>4. "JUMP" \in Ops
  BY DEF Ops
<1> HIDE DEF args
<1>5. /\ Work(o, f, base, gs, x) /\ f.env = m.env /\ f.next = m.next
      /\ Len(f.blocks) = Len(m.blocks)
      /\ Produced(f) = Produced(m)
      /\ MoreEdges(m, f, b, args)
  BY <1>1, <1>2, <1>4, Inserting
<1> HIDE DEF f
<1>6. \A a, c : Edge(f, a, c) <=> Edge(m, a, c) \/ (a = b /\ c = t)
  BY <1>2, <1>5 DEF MoreEdges
<1> QED
  BY <1>3, <1>5, <1>6

\* A conditional jump to two blocks.
LEMMA Branching ==
  ASSUME NEW o, NEW m, NEW base, NEW gs, NEW x, Work(o, m, base, gs, x),
         NEW v \in Produced(m), NEW s \in Nat, NEW t \in Nat
  PROVE  LET f == Emit(m, "COND_JUMP", <<V(v), Lab(s), Lab(t)>>)
         IN  /\ Work(o, f, base, gs, x) /\ f.env = m.env
             /\ Len(f.blocks) = Len(m.blocks)
             /\ Produced(m) \subseteq Produced(f)
             /\ LastVar(f) \in Produced(f)
             /\ \A a, c : Edge(f, a, c) <=> Edge(m, a, c) \/ (a = Len(m.blocks) /\ c \in {s, t})
<1> DEFINE args == <<V(v), Lab(s), Lab(t)>>
           f == Emit(m, "COND_JUMP", args)
<1>1. v \in Nat
  <2>1. Produced(m) \subseteq 1..m.next - 1
    BY WorkTypes
  <2> QED
    BY <2>1
<1>2. args \in Seq(Argument)
  <2>1. V(v) \in Argument /\ Lab(s) \in Argument /\ Lab(t) \in Argument
    BY <1>1, OperandShapes
  <2> QED
    BY <2>1
<1>3. MayRead("COND_JUMP", args, Produced(m), x) /\ \A c : ArgNames(args, c) <=> c \in {s, t}
  BY Args, OperandReads, OperandLabels DEF MayRead
<1>4. "COND_JUMP" \in Ops
  BY DEF Ops
<1> HIDE DEF args
<1>5. /\ Work(o, f, base, gs, x) /\ f.env = m.env
      /\ Len(f.blocks) = Len(m.blocks)
      /\ Produced(f) = Produced(m) \cup {m.next}
      /\ LastVar(f) = m.next
      /\ MoreEdges(m, f, Len(m.blocks), args)
  <2>1. Work(o, m, base, gs, x)
    OBVIOUS
  <2> QED
    BY ONLY <1>2, <1>3, <1>4, <2>1, Emitting
<1> HIDE DEF f
<1>6. \A a, c : Edge(f, a, c) <=> Edge(m, a, c) \/ (a = Len(m.blocks) /\ c \in {s, t})
  BY <1>3, <1>5 DEF MoreEdges
<1>7. Produced(m) \subseteq Produced(f) /\ LastVar(f) \in Produced(f)
  BY <1>5
<1> QED
  BY <1>5, <1>6, <1>7 DEF f, args

\* One operand in front of two.
LEMMA Prefixed ==
  ASSUME NEW u, NEW p, NEW q
  PROVE  <<u>> \o <<p, q>> = <<u, p, q>>
<1> DEFINE S == {u, p, q}
           s == <<u>>
           t == <<p, q>>
           c == s \o t
<1>1. s \in Seq(S) /\ Len(s) = 1 /\ s[1] = u
  OBVIOUS
<1>2. t \in Seq(S) /\ Len(t) = 2 /\ t[1] = p /\ t[2] = q
  OBVIOUS
<1> HIDE DEF s, t, S
<1> HIDE DEF c
<1>9. /\ c \in Seq(S)
      /\ Len(c) = Len(s) + Len(t)
      /\ \A i \in 1..Len(s) + Len(t) : c[i] = IF i <= Len(s) THEN s[i] ELSE t[i - Len(s)]
  BY <1>1, <1>2, ConcatProperties, Zenon DEF c
<1>3. Len(c) = 3
  BY <1>1, <1>2, <1>9
<1>4. \A i \in 1..3 : c[i] = IF i <= 1 THEN s[i] ELSE t[i - 1]
  BY <1>1, <1>2, <1>9
<1>5. c[1] = u /\ c[2] = p /\ c[3] = q
  BY <1>1, <1>2, <1>4
<1> DEFINE d == <<u, p, q>>
<1>6. d \in Seq(S) /\ Len(d) = 3 /\ d[1] = u /\ d[2] = p /\ d[3] = q
  BY DEF S
<1> HIDE DEF d
<1>7. \A i \in 1..Len(c) : c[i] = d[i]
  BY <1>3, <1>5, <1>6
<1>8. c = d
  BY <1>3, <1>6, <1>7, <1>9, SeqEqual
<1> QED
  BY <1>8 DEF c, d, s, t

\* No edge leads further than block t.
Aimed(m, t) == \A a, b : Edge(m, a, b) => b \in 1..t

LEMMA AimedKept ==
  ASSUME NEW m, NEW f, NEW t
  PROVE  SameEdges(m, f) /\ Aimed(m, t) => Aimed(f, t)
BY DEF SameEdges, Aimed

\* And, Or: three blocks, each of which is named before it is added.
LEMMA LogicWork ==
  ASSUME MirAssumption,
         NEW o, NEW m, NEW base, NEW ls, globals \subseteq ls, NEW x, Work(o, m, base, ls, x),
         NEW e, Usable(o.env, e.left, base, globals), Usable(o.env, e.right, base, globals)
  PROVE  LET f == Logic(m, e)
         IN  /\ Work(o, f, base, ls, x)
             /\ Aimed(m, Len(m.blocks)) => Aimed(f, Len(f.blocks))
<1> DEFINE L == Len(m.blocks)
           j == AddInstr(m, "JUMP", <<Lab(L + 1)>>)
           m1 == AddBlock(j)
           left == Ref(m1, e.left)
           targets == IF e.kind = "and" THEN <<Lab(L + 2), Lab(L + 3)>> ELSE <<Lab(L + 3), Lab(L + 2)>>
           cjmp == Emit(left, "COND_JUMP", <<V(LastVar(left))>> \o targets)
           m2 == AddBlock(cjmp)
           right == Ref(m2, e.right)
           m3 == AddBlock(right)
           short == Emit(m3, "CONST_BOOL", <<Lit>>)
           phi == Emit(short, "PHI", <<V(LastVar(cjmp)), V(LastVar(right)), V(LastVar(short))>>)
           f1 == InsertJump(phi, L + 1, L + 3)
           f2 == InsertJump(f1, L + 2, L + 3)
<1>1. Logic(m, e) = f2
  BY DEF Logic, LastBlock
<1>2. /\ L \in 1..Len(m.blocks) /\ L \in Nat /\ Len(o.blocks) \in Nat /\ Len(o.blocks) <= L
  BY WorkTypes
<1>3. /\ Work(o, j, base, ls, x) /\ Len(j.blocks) = L /\ Edge(j, L, L + 1)
      /\ Aimed(m, L) => Aimed(j, L + 3)
  <2>1. j = InsertJump(m, L, L + 1)
    BY DEF AddInstr, InsertJump, LastBlock
  <2>2. L + 1 \in Nat
    BY <1>2
  <2> DEFINE g == InsertJump(m, L, L + 1)
  <2>3. /\ Work(o, g, base, ls, x) /\ Len(g.blocks) = L
        /\ \A a, c : Edge(g, a, c) <=> Edge(m, a, c) \/ (a = L /\ c = L + 1)
    <3> DEFINE b == L + 1
    <3> HIDE DEF L, b
    <3>1. b \in Nat /\ L \in 1..Len(m.blocks) /\ Len(o.blocks) <= L /\ Work(o, m, base, ls, x)
      BY <1>2, <2>2 DEF b
    <3>2. L = Len(m.blocks)
      BY DEF L
    <3> QED
      BY ONLY <3>1, <3>2, Jumping DEF b
  <2>4. L + 1 \in 1..L + 3 /\ \A c \in 1..L : c \in 1..L + 3
    BY <1>2
  <2> HIDE DEF g, j, L
  <2>5. Aimed(m, L) => Aimed(g, L + 3)
    BY <2>3, <2>4 DEF Aimed
  <2> QED
    BY <2>1, <2>3, <2>5 DEF g
<1> HIDE DEF j
<1>4. /\ Work(o, m1, base, ls, x) /\ Len(m1.blocks) = L + 1
      /\ Aimed(m, L) => Aimed(m1, L + 3)
  <2>1. L \in Len(o.blocks)..Len(j.blocks) /\ Edge(j, L, Len(j.blocks) + 1)
    BY <1>2, <1>3
  <2> HIDE DEF L
  <2>2. Work(o, m1, base, ls, x) /\ Len(m1.blocks) = Len(j.blocks) + 1 /\ SameEdges(j, m1)
    BY <1>3, <2>1, Linking
  <2> QED
    BY <1>3, <2>2, AimedKept
<1> HIDE DEF m1
<1>5. GivesValue(o, m1, left, base, ls, x)
  BY <1>4, ReadingValue DEF Ref
<1> HIDE DEF left
<1>6. /\ Work(o, cjmp, base, ls, x) /\ Len(cjmp.blocks) = L + 1
      /\ LastVar(cjmp) \in Produced(cjmp)
      /\ Edge(cjmp, L + 1, L + 2) /\ Edge(cjmp, L + 1, L + 3)
      /\ Aimed(m, L) => Aimed(cjmp, L + 3)
  <2> DEFINE s == IF e.kind = "and" THEN L + 2 ELSE L + 3
             t == IF e.kind = "and" THEN L + 3 ELSE L + 2
             v == LastVar(left)
             g == Emit(left, "COND_JUMP", <<V(v), Lab(s), Lab(t)>>)
  <2>1. cjmp = g
    <3>1. <<V(v)>> \o targets = <<V(v), Lab(s), Lab(t)>>
      <4>1. CASE e.kind = "and"
        <5> DEFINE p == Lab(L + 2)
                   q == Lab(L + 3)
                   u == V(v)
        <5>1. targets = <<p, q>> /\ Lab(s) = p /\ Lab(t) = q
          BY <4>1
        <5> HIDE DEF targets, p, q, u, s, t
        <5>2. <<u>> \o <<p, q>> = <<u, p, q>>
          BY Prefixed
        <5> QED
          BY <5>1, <5>2 DEF u
      <4>2. CASE e.kind # "and"
        <5> DEFINE p == Lab(L + 3)
                   q == Lab(L + 2)
                   u == V(v)
        <5>1. targets = <<p, q>> /\ Lab(s) = p /\ Lab(t) = q
          BY <4>2
        <5> HIDE DEF targets, p, q, u, s, t
        <5>2. <<u>> \o <<p, q>> = <<u, p, q>>
          BY Prefixed
        <5> QED
          BY <5>1, <5>2 DEF u
      <4> QED
        BY <4>1, <4>2
    <3> HIDE DEF targets, s, t
    <3> QED
      BY <3>1
  <2>2. s \in Nat /\ t \in Nat /\ {s, t} = {L + 2, L + 3}
    BY <1>2
  <2>3. Work(o, left, base, ls, x) /\ v \in Produced(left) /\ Len(left.blocks) = L + 1
    BY <1>4, <1>5 DEF GivesValue
  <2> HIDE DEF s, t, v
  <2>4. /\ Work(o, g, base, ls, x)
        /\ Len(g.blocks) = Len(left.blocks)
        /\ LastVar(g) \in Produced(g)
        /\ \A a, c : Edge(g, a, c) <=> Edge(left, a, c) \/ (a = Len(left.blocks) /\ c \in {s, t})
    BY ONLY <2>2, <2>3, Branching
  <2> HIDE DEF g, cjmp
  <2>5. Edge(cjmp, L + 1, L + 2) /\ Edge(cjmp, L + 1, L + 3)
    BY <2>1, <2>2, <2>3, <2>4
  <2>6. L + 2 \in 1..L + 3 /\ L + 3 \in 1..L + 3
    BY <1>2
  <2>7. Aimed(m, L) => Aimed(left, L + 3)
    BY <1>4, <1>5, AimedKept DEF GivesValue
  <2>8. Aimed(m, L) => Aimed(g, L + 3)
    BY <2>2, <2>4, <2>6, <2>7 DEF Aimed
  <2> QED
    BY <2>1, <2>3, <2>4, <2>5, <2>8
<1> HIDE DEF cjmp
<1>7. /\ Work(o, m2, base, ls, x) /\ Len(m2.blocks) = L + 2
      /\ Produced(m2) = Produced(cjmp) /\ SameEdges(cjmp, m2)
  <2> DEFINE b == L + 1
  <2>1. b \in Len(o.blocks)..Len(cjmp.blocks) /\ Edge(cjmp, b, Len(cjmp.blocks) + 1) /\ Len(cjmp.blocks) + 1 = L + 2
    BY <1>2, <1>6
  <2> HIDE DEF L, b
  <2>2. /\ Work(o, m2, base, ls, x) /\ Len(m2.blocks) = Len(cjmp.blocks) + 1
        /\ Produced(m2) = Produced(cjmp) /\ SameEdges(cjmp, m2)
    BY <1>6, <2>1, Linking
  <2> QED
    BY <2>1, <2>2
<1> HIDE DEF m2
<1>8. GivesValue(o, m2, right, base, ls, x)
  BY <1>7, ReadingValue DEF Ref
<1> HIDE DEF right
<1>9. /\ Work(o, right, base, ls, x) /\ Len(right.blocks) = L + 2
      /\ LastVar(right) \in Produced(right) /\ LastVar(cjmp) \in Produced(right)
      /\ Edge(right, L + 1, L + 3)
      /\ Aimed(m, L) => Aimed(right, L + 3)
  <2>1. Aimed(m, L) => Aimed(right, L + 3)
    BY <1>6, <1>7, <1>8, AimedKept DEF GivesValue
  <2> QED
    BY <1>6, <1>7, <1>8, <2>1 DEF GivesValue, SameEdges
<1>10. /\ Work(o, m3, base, ls, x) /\ Len(m3.blocks) = L + 3
       /\ Produced(m3) = Produced(right) /\ SameEdges(right, m3)
  <2> DEFINE b == L + 1
  <2>1. b \in Len(o.blocks)..Len(right.blocks) /\ Edge(right, b, Len(right.blocks) + 1) /\ Len(right.blocks) + 1 = L + 3
    BY <1>2, <1>9
  <2> HIDE DEF L, b
  <2>2. /\ Work(o, m3, base, ls, x) /\ Len(m3.blocks) = Len(right.blocks) + 1
        /\ Produced(m3) = Produced(right) /\ SameEdges(right, m3)
    BY <1>9, <2>1, Linking
  <2> QED
    BY <2>1, <2>2
<1> HIDE DEF m3
<1>11. GivesValue(o, m3, short, base, ls, x)
  <2>1. Produced(m3) \subseteq Nat
    BY <1>10, WorkTypes
  <2>2. ValueArgs("CONST_BOOL", <<Lit>>, Produced(m3), x)
    BY <2>1, ValueShapes
  <2>3. "CONST_BOOL" \in Ops
    BY DEF Ops
  <2> QED
    BY <1>10, <2>2, <2>3, EmittingValue
<1> HIDE DEF short
<1>12. GivesValue(o, short, phi, base, ls, x)
  <2>1. Work(o, short, base, ls, x)
    BY <1>11 DEF GivesValue
  <2>2. Produced(short) \subseteq Nat
    BY <2>1, WorkTypes
  <2>3. LastVar(cjmp) \in Produced(short) /\ LastVar(right) \in Produced(short) /\ LastVar(short) \in Produced(short)
    BY <1>9, <1>10, <1>11 DEF GivesValue
  <2> DEFINE args == <<V(LastVar(cjmp)), V(LastVar(right)), V(LastVar(short))>>
  <2>4. ValueArgs("PHI", args, Produced(short), x)
    BY <2>2, <2>3, ValueShapes
  <2>5. "PHI" \in Ops
    BY DEF Ops
  <2> HIDE DEF args
  <2>6. GivesValue(o, short, Emit(short, "PHI", args), base, ls, x)
    BY <2>1, <2>4, <2>5, EmittingValue
  <2> QED
    BY <2>6 DEF args
<1> HIDE DEF phi
<1>13. /\ Work(o, phi, base, ls, x) /\ Len(phi.blocks) = L + 3
       /\ Aimed(m, L) => Aimed(phi, L + 3)
  <2>1. SameEdges(right, phi)
    BY <1>10, <1>11, <1>12, EdgesChained DEF GivesValue
  <2> QED
    BY <1>9, <1>10, <1>11, <1>12, <2>1, AimedKept DEF GivesValue
<1>14. /\ L + 1 \in 1..L + 3 /\ L + 2 \in 1..L + 3 /\ L + 3 \in Nat /\ L + 3 \in 1..L + 3
       /\ Len(o.blocks) <= L + 1 /\ Len(o.blocks) <= L + 2
  BY <1>2
<1> DEFINE p == L + 1
           q == L + 2
           t == L + 3
<1> HIDE DEF L, p, q, t
<1>15. /\ Work(o, InsertJump(phi, p, t), base, ls, x) /\ Len(InsertJump(phi, p, t).blocks) = t
       /\ Aimed(m, L) => Aimed(InsertJump(phi, p, t), t)
  <2>1. p \in 1..Len(phi.blocks) /\ Len(o.blocks) <= p /\ t \in Nat
    BY <1>13, <1>14 DEF p, t
  <2>2. t = Len(phi.blocks)
    BY <1>13 DEF t
  <2> DEFINE g == InsertJump(phi, p, t)
  <2>3. /\ Work(o, g, base, ls, x) /\ Len(g.blocks) = Len(phi.blocks)
        /\ \A a, c : Edge(g, a, c) <=> Edge(phi, a, c) \/ (a = p /\ c = t)
    BY <1>13, <2>1, <2>2, Jumping
  <2> HIDE DEF g
  <2>4. Aimed(m, L) => Aimed(g, t)
    BY <1>13, <1>14, <2>3 DEF Aimed, t
  <2> QED
    BY <2>2, <2>3, <2>4 DEF g
<1>16. LET f == InsertJump(InsertJump(phi, p, t), q, t)
       IN  /\ Work(o, f, base, ls, x) /\ Len(f.blocks) = t
           /\ Aimed(m, L) => Aimed(f, t)
  <2> DEFINE g == InsertJump(phi, p, t)
  <2>1. q \in 1..Len(g.blocks) /\ Len(o.blocks) <= q /\ t \in Nat
    BY <1>14, <1>15 DEF q, t
  <2>2. Work(o, g, base, ls, x)
    BY <1>15
  <2> HIDE DEF g
  <2> DEFINE h == InsertJump(g, q, t)
  <2>3. /\ Work(o, h, base, ls, x) /\ Len(h.blocks) = Len(g.blocks)
        /\ \A a, c : Edge(h, a, c) <=> Edge(g, a, c) \/ (a = q /\ c = t)
    BY <2>1, <2>2, Jumping
  <2> HIDE DEF h
  <2>4. (Aimed(m, L) => Aimed(g, t)) /\ Len(g.blocks) = t /\ t \in 1..t
    BY <1>14, <1>15 DEF g, t
  <2>5. Aimed(m, L) => Aimed(h, t)
    BY <2>3, <2>4 DEF Aimed
  <2> QED
    BY <2>3, <2>4, <2>5 DEF g, h
<1> QED
  BY <1>1, <1>16 DEF p, q, t, L

\* f is m after an expression.
Evaluated(o, m, f, base, gs, x) ==
  /\ Work(o, f, base, gs, x)
  /\ Aimed(m, Len(m.blocks)) => Aimed(f, Len(f.blocks))

LEMMA ValueEvaluated ==
  ASSUME NEW o, NEW m, NEW f, NEW base, NEW gs, NEW x, GivesValue(o, m, f, base, gs, x)
  PROVE  Evaluated(o, m, f, base, gs, x)
BY AimedKept DEF Evaluated, GivesValue

LEMMA EvaluatedChained ==
  ASSUME NEW o, NEW m, NEW f, NEW g, NEW base, NEW gs, NEW x,
         Evaluated(o, m, f, base, gs, x), Evaluated(o, f, g, base, gs, x)
  PROVE  Evaluated(o, m, g, base, gs, x)
BY DEF Evaluated

\* The kinds of expressions and their opcodes.
ExprKind == {"lit", "flag", "real", "name", "neg", "not", "call", "and", "or"} \cup DOMAIN Opcode

LEMMA ExprKinds ==
  ASSUME NEW names, NEW e \in ExprsOver(names)
  PROVE  /\ e.kind \in ExprKind
         /\ e.kind \in {"name", "neg", "not", "call"} => e.left \in names
         /\ e.kind \in {"and", "or"} \cup DOMAIN Opcode => e.left \in names /\ e.right \in names
<1> DEFINE A == {"lit"} \cup (DOMAIN LiteralOpcode \cap Features)
           B == {"name", "neg", "not", "call"} \cap Features
           C == ({"and", "or"} \cup DOMAIN Opcode) \cap Features
<1>1. \/ e \in [kind : A] \/ e \in [kind : B, left : names]
      \/ e \in [kind : C, left : names, right : names]
  BY DEF ExprsOver
<1>2. A \subseteq {"lit", "flag", "real"}
  BY DEF LiteralOpcode
<1>3. B \subseteq {"name", "neg", "not", "call"} /\ C \subseteq {"and", "or"} \cup DOMAIN Opcode
  OBVIOUS
<1>4. \A k \in {"lit", "flag", "real"} : k \notin {"name", "neg", "not", "call", "and", "or"} \cup DOMAIN Opcode
  BY DEF Opcode
<1>5. \A k \in {"name", "neg", "not", "call"} : k \notin {"and", "or"} \cup DOMAIN Opcode
  BY DEF Opcode
<1> HIDE DEF A, B, C
<1>6. CASE e \in [kind : A]
  <2>1. e.kind \in {"lit", "flag", "real"}
    BY <1>2, <1>6
  <2> QED
    BY <1>4, <2>1 DEF ExprKind
<1>7. CASE e \in [kind : B, left : names]
  <2>1. e.kind \in {"name", "neg", "not", "call"} /\ e.left \in names
    BY <1>3, <1>7
  <2> QED
    BY <1>5, <2>1 DEF ExprKind
<1>8. CASE e \in [kind : C, left : names, right : names]
  <2>1. e.kind \in {"and", "or"} \cup DOMAIN Opcode /\ e.left \in names /\ e.right \in names
    BY <1>3, <1>8
  <2> QED
    BY <2>1 DEF ExprKind
<1> QED
  BY <1>1, <1>6, <1>7, <1>8

LEMMA OpcodesAreOps ==
  /\ \A k \in DOMAIN Opcode : Opcode[k] \in Ops
  /\ \A k \in {"lit", "flag", "real"} : k \in DOMAIN LiteralOpcode /\ LiteralOpcode[k] \in Ops
  /\ {"name", "neg", "not", "call", "and", "or"} \cap DOMAIN Opcode = {}
  /\ ({"name", "neg", "not", "call", "and", "or"} \cup DOMAIN Opcode) \cap DOMAIN LiteralOpcode = {}
<1>1. \A k \in DOMAIN Opcode : Opcode[k] \in Ops
  BY DEF Opcode, Ops
<1>2. \A k \in {"lit", "flag", "real"} : k \in DOMAIN LiteralOpcode /\ LiteralOpcode[k] \in Ops
  BY DEF LiteralOpcode, Ops
<1>3. {"name", "neg", "not", "call", "and", "or"} \cap DOMAIN Opcode = {}
  BY DEF Opcode
<1>4. ({"name", "neg", "not", "call", "and", "or"} \cup DOMAIN Opcode) \cap DOMAIN LiteralOpcode = {}
  BY DEF Opcode, LiteralOpcode
<1> QED
  BY <1>1, <1>2, <1>3, <1>4

\* What Eval does for each kind.
LEMMA EvalCases ==
  ASSUME NEW m, NEW e
  PROVE  /\ e.kind \in {"lit", "flag", "real"} => Eval(m, e) = Emit(m, LiteralOpcode[e.kind], <<Lit>>)
         /\ e.kind = "name" => Eval(m, e) = Ref(m, e.left)
         /\ e.kind = "neg" => Eval(m, e) = Emit(Ref(m, e.left), "ISUB", <<Lit, V(LastVar(Ref(m, e.left)))>>)
         /\ e.kind \in DOMAIN Opcode =>
              LET left == Ref(m, e.left)
                  right == Ref(left, e.right)
              IN  Eval(m, e) = Emit(right, Opcode[e.kind], <<V(LastVar(left)), V(LastVar(right))>>)
         /\ e.kind = "not" => Eval(m, e) = m
         /\ e.kind = "call" => Eval(m, e) = AddInstr(Ref(m, e.left), "CALL", <<Fn, Null, V(LastVar(Ref(m, e.left)))>>)
         /\ e.kind \in {"and", "or"} => Eval(m, e) = Logic(m, e)
<1> DEFINE D == DOMAIN Opcode
           C == DOMAIN LiteralOpcode
<1>1. /\ \A k \in {"name", "neg", "not", "call", "and", "or"} : k \notin D /\ k \notin C
      /\ \A k \in {"lit", "flag", "real"} : k \in C
      /\ \A k \in D : k \notin C /\ k \notin {"name", "neg", "not", "call", "and", "or"}
  BY OpcodesAreOps
<1> HIDE DEF D, C
<1>2. CASE e.kind \in {"lit", "flag", "real"}
  <2>1. e.kind \in DOMAIN LiteralOpcode /\ e.kind \notin {"name", "neg", "not", "call", "and", "or"} \cup D
    BY <1>1, <1>2 DEF C
  <2> QED
    BY <2>1 DEF Eval, C, D
<1>3. CASE e.kind = "name"
  BY <1>1, <1>3, Zenon DEF Eval, C, D
<1>4. CASE e.kind = "neg"
  BY <1>1, <1>4 DEF Eval, C, D
<1>5. CASE e.kind \in D
  <2>1. e.kind \notin C /\ e.kind \notin {"name", "neg", "not", "call", "and", "or"}
    BY <1>1, <1>5
  <2> QED
    BY <1>1, <1>5, <2>1 DEF Eval, C, D
<1>6. CASE e.kind = "not"
  BY <1>1, <1>6 DEF Eval, C, D
<1>7. CASE e.kind = "call"
  BY <1>1, <1>7 DEF Eval, C, D
<1>8. CASE e.kind \in {"and", "or"}
  <2>1. e.kind \notin C /\ e.kind \notin D /\ e.kind \notin {"name", "neg", "not", "call"}
    BY <1>1, <1>8
  <2> QED
    BY <1>1, <1>8, <2>1 DEF Eval, C, D
<1>9. CASE e.kind \notin {"lit", "flag", "real", "name", "neg", "not", "call", "and", "or"} \cup D
  BY <1>9 DEF D
<1> QED
  BY <1>2, <1>3, <1>4, <1>5, <1>6, <1>7, <1>8, <1>9

\* An expression over names that can be looked up.
LEMMA EvalWork ==
  ASSUME MirAssumption,
         NEW o, NEW m, NEW base, NEW ls, globals \subseteq ls, NEW x, Work(o, m, base, ls, x),
         NEW names, \A n \in names : Usable(o.env, n, base, globals),
         NEW e \in ExprsOver(names)
  PROVE  Evaluated(o, m, Eval(m, e), base, ls, x)
<1>1. /\ e.kind \in ExprKind
      /\ e.kind \in {"name", "neg", "not", "call"} => e.left \in names
      /\ e.kind \in {"and", "or"} \cup DOMAIN Opcode => e.left \in names /\ e.right \in names
  BY ExprKinds
<1>2. Produced(m) \subseteq Nat
  <2>1. Produced(m) \subseteq 1..m.next - 1
    BY WorkTypes
  <2> QED
    BY <2>1
<1>3. CASE e.kind \in {"lit", "flag", "real"}
  <2> DEFINE op == LiteralOpcode[e.kind]
             args == <<Lit>>
  <2>1. op \in Ops /\ ValueArgs(op, args, Produced(m), x)
    BY <1>2, <1>3, OpcodesAreOps, ValueShapes
  <2>2. Eval(m, e) = Emit(m, op, args)
    BY <1>3, EvalCases
  <2> HIDE DEF op, args
  <2>3. GivesValue(o, m, Emit(m, op, args), base, ls, x)
    BY <2>1, EmittingValue
  <2> QED
    BY <2>2, <2>3, ValueEvaluated
<1>4. ASSUME NEW n \in names
      PROVE  GivesValue(o, m, Ref(m, n), base, ls, x)
  BY ReadingValue DEF Ref
<1> DEFINE left == Ref(m, e.left)
<1>5. ASSUME e.left \in names
      PROVE  /\ GivesValue(o, m, left, base, ls, x)
             /\ Work(o, left, base, ls, x)
             /\ LastVar(left) \in Produced(left)
             /\ Produced(left) \subseteq Nat
  <2>1. GivesValue(o, m, left, base, ls, x)
    BY <1>4, <1>5
  <2> HIDE DEF left
  <2>2. Work(o, left, base, ls, x) /\ LastVar(left) \in Produced(left)
    BY <2>1 DEF GivesValue
  <2>3. Produced(left) \subseteq 1..left.next - 1
    BY <2>2, WorkTypes
  <2>4. Produced(left) \subseteq Nat
    BY <2>3
  <2> QED
    BY <2>1, <2>2, <2>4
<1>6. CASE e.kind = "name"
  <2>1. GivesValue(o, m, left, base, ls, x)
    BY <1>1, <1>5, <1>6
  <2>2. Eval(m, e) = left
    BY <1>6, EvalCases
  <2> HIDE DEF left
  <2> QED
    BY <2>1, <2>2, ValueEvaluated
<1>7. CASE e.kind = "neg"
  <2> DEFINE args == <<Lit, V(LastVar(left))>>
             f == Emit(left, "ISUB", args)
  <2>1. Eval(m, e) = f
    BY <1>7, EvalCases
  <2> HIDE DEF left
  <2>2. /\ Work(o, left, base, ls, x) /\ GivesValue(o, m, left, base, ls, x)
        /\ LastVar(left) \in Produced(left) /\ Produced(left) \subseteq Nat
    BY <1>1, <1>5, <1>7
  <2>3. ValueArgs("ISUB", args, Produced(left), x) /\ "ISUB" \in Ops
    BY <2>2, ValueShapes DEF Ops
  <2> HIDE DEF args
  <2>4. GivesValue(o, left, f, base, ls, x)
    BY <2>2, <2>3, EmittingValue
  <2> HIDE DEF f
  <2> QED
    BY <2>1, <2>2, <2>4, ValueEvaluated, EvaluatedChained
<1>8. CASE e.kind = "call"
  <2> DEFINE args == <<Fn, Null, V(LastVar(left))>>
             f == AddInstr(left, "CALL", args)
  <2>1. Eval(m, e) = f
    BY <1>8, EvalCases
  <2> HIDE DEF left
  <2>2. /\ Work(o, left, base, ls, x) /\ GivesValue(o, m, left, base, ls, x)
        /\ LastVar(left) \in Produced(left) /\ Produced(left) \subseteq Nat
    BY <1>1, <1>5, <1>8
  <2>3. ValueArgs("CALL", args, Produced(left), x) /\ "CALL" \in Ops
    BY <2>2, ValueShapes DEF Ops
  <2> HIDE DEF args
  <2>4. Work(o, f, base, ls, x) /\ Len(f.blocks) = Len(left.blocks) /\ SameEdges(left, f)
    BY <2>2, <2>3, AddingInstr
  <2> HIDE DEF f
  <2>5. Evaluated(o, left, f, base, ls, x)
    BY <2>4, AimedKept DEF Evaluated
  <2> QED
    BY <2>1, <2>2, <2>5, ValueEvaluated, EvaluatedChained
<1>9. CASE e.kind \in DOMAIN Opcode
  <2> DEFINE right == Ref(left, e.right)
             op == Opcode[e.kind]
             args == <<V(LastVar(left)), V(LastVar(right))>>
             f == Emit(right, op, args)
  <2>1. Eval(m, e) = f
    BY <1>9, EvalCases
  <2>2. /\ Work(o, left, base, ls, x) /\ GivesValue(o, m, left, base, ls, x)
        /\ LastVar(left) \in Produced(left)
    BY <1>1, <1>5, <1>9
  <2> HIDE DEF left
  <2>3. e.right \in names /\ op \in Ops
    BY <1>1, <1>9, OpcodesAreOps
  <2>4. GivesValue(o, left, right, base, ls, x)
    BY <2>2, <2>3, ReadingValue DEF Ref
  <2> HIDE DEF right, op
  <2>5. /\ Work(o, right, base, ls, x)
        /\ LastVar(left) \in Produced(right) /\ LastVar(right) \in Produced(right)
    BY <2>2, <2>4 DEF GivesValue
  <2>6. Produced(right) \subseteq Nat
    <3>1. Produced(right) \subseteq 1..right.next - 1
      BY <2>5, WorkTypes
    <3> QED
      BY <3>1
  <2>7. ValueArgs(op, args, Produced(right), x)
    BY <2>5, <2>6, ValueShapes
  <2> HIDE DEF args
  <2>8. GivesValue(o, right, f, base, ls, x)
    BY <2>3, <2>5, <2>7, EmittingValue
  <2> HIDE DEF f
  <2> QED
    BY <2>1, <2>2, <2>4, <2>8, ValueEvaluated, EvaluatedChained
<1>10. CASE e.kind = "not"
  BY <1>10, EvalCases DEF Evaluated
<1>11. CASE e.kind \in {"and", "or"}
  <2>1. Usable(o.env, e.left, base, globals) /\ Usable(o.env, e.right, base, globals)
    BY <1>1, <1>11
  <2>2. /\ Work(o, Logic(m, e), base, ls, x)
        /\ Aimed(m, Len(m.blocks)) => Aimed(Logic(m, e), Len(Logic(m, e).blocks))
    BY <2>1, LogicWork
  <2> QED
    BY <1>11, <2>2, EvalCases DEF Evaluated
<1> HIDE DEF left
<1> QED
  BY <1>1, <1>3, <1>6, <1>7, <1>8, <1>9, <1>10, <1>11 DEF ExprKind

-----------------------------------------------------------------------------
(* The environments of two branches are merged.                             *)

\* The common entries of two environments that differ are finitely many.
LEMMA DifferingFinite ==
  ASSUME MirAssumption, NEW e1 \in Seq(Env!Scope), NEW e2 \in Seq(Env!Scope), NEW reached
  PROVE  IsFiniteSet(Differing(e1, e2, reached))
<1>1. IsFiniteSet(Common(e1, e2))
  <2>1. Len(e1) \in Nat /\ Len(e2) \in Nat
    OBVIOUS
  <2>2. \E k \in Nat : Common(e1, e2) = 1..k
    BY <2>1 DEF Common
  <2> QED
    BY <2>2, FS_Interval
<1>2. IsFiniteSet(Common(e1, e2) \X Name)
  BY <1>1, FS_Product DEF MirAssumption
<1>3. Differing(e1, e2, reached) \subseteq Common(e1, e2) \X Name
  BY DEF Differing
<1> QED
  BY <1>2, <1>3, FS_Subset

\* A finite set can be put into a sequence.
LEMMA InSequence ==
  ASSUME NEW S, IsFiniteSet(S)
  PROVE  SetToSeq(S) \in Seq(S)
<1>1. Cardinality(S) \in Nat /\ \E f \in [1..Cardinality(S) -> S] : IsInjective(f)
  <2>1. Cardinality(S) \in Nat /\ ExistsBijection(1..Cardinality(S), S)
    BY FS_CardinalityType
  <2>2. PICK f : f \in Bijection(1..Cardinality(S), S)
    BY <2>1 DEF ExistsBijection
  <2>3. f \in [1..Cardinality(S) -> S] /\ IsInjective(f)
    BY <2>2 DEF Bijection, Injection, IsInjective
  <2> QED
    BY <2>1, <2>3
<1>2. SetToSeq(S) \in [1..Cardinality(S) -> S]
  BY <1>1 DEF SetToSeq
<1> QED
  BY <1>1, <1>2

\* The globals that have an entry of an earlier function.
Left(e, base, gs) == {n \in gs : \E d \in 1..base : Held(e, d, n)}

\* The environments of two branches of the code m.
Forked(m, e1, e2, base, gs, x) ==
  /\ e1 \in Seq(Env!Scope) /\ e2 \in Seq(Env!Scope) /\ base \in Nat
  /\ base <= Len(e1) /\ base <= Len(e2)
  /\ Live(e1, base, Produced(m)) /\ Live(e2, base, Produced(m))
  /\ Below(e1, e2, base, gs)
  /\ x = Left(e1, base, gs)

LEMMA Differs ==
  ASSUME NEW m, NEW e1, NEW e2, NEW base, NEW gs, NEW x, Forked(m, e1, e2, base, gs, x),
         NEW reached, NEW p \in Differing(e1, e2, reached)
  PROVE  LET s1 == e1[p[1]][p[2]]
             s2 == e2[p[1]][p[2]]
         IN  /\ p[1] \in 1..Len(e1) /\ p[2] \in Name /\ Held(e1, p[1], p[2])
             /\ base < p[1] \/ p[2] \in gs
             /\ s1 \in Site /\ s2 \in Site
             /\ MayRead("PHI", <<Phi(s1), Phi(s2)>>, Produced(m), x)
<1> DEFINE d == p[1]
           n == p[2]
           s1 == e1[d][n]
           s2 == e2[d][n]
<1>1. /\ e1 \in Seq(Env!Scope) /\ e2 \in Seq(Env!Scope) /\ base \in Nat
      /\ Len(e1) \in Nat /\ Len(e2) \in Nat
      /\ Live(e1, base, Produced(m)) /\ Live(e2, base, Produced(m))
      /\ Below(e1, e2, base, gs)
      /\ x = Left(e1, base, gs)
  BY DEF Forked
<1>2. d \in Common(e1, e2) /\ n \in Name /\ n \in Visited(e1, e2, d, reached) /\ s1.var # s2.var
  BY DEF Differing
<1>3. d \in 1..Len(e1) /\ d \in 1..Len(e2)
  BY <1>1, <1>2 DEF Common
<1> HIDE DEF d, n
<1>4. Held(e1, d, n) /\ Held(e2, d, n)
  BY <1>2 DEF Visited, Entries, Held
<1>5. s1 \in Site /\ s2 \in Site
  BY <1>1, <1>2, <1>3, <1>4, ScopeEntries
<1>6. base < d \/ (d \in 1..base /\ n \in gs)
  <2>1. CASE base < d
    BY <2>1
  <2>2. CASE ~(base < d)
    <3>1. d \in 1..base
      BY <1>1, <1>3, <2>2
    <3>2. n \notin gs => s1 = s2
      BY <1>1, <1>2, <3>1 DEF Below
    <3> QED
      BY <1>2, <3>1, <3>2
  <2> QED
    BY <2>1, <2>2
<1>7. (s1.var \in Produced(m) /\ s2.var \in Produced(m)) \/ x # {}
  <2>1. CASE base < d
    BY <1>1, <1>2, <1>3, <1>4, <2>1 DEF Live
  <2>2. CASE d \in 1..base /\ n \in gs
    BY <1>1, <1>4, <2>2 DEF Left
  <2> QED
    BY <1>6, <2>1, <2>2
<1> HIDE DEF s1, s2
<1>8. MayRead("PHI", <<Phi(s1), Phi(s2)>>, Produced(m), x)
  BY <1>7, Args, OperandReads DEF MayRead
<1> QED
  BY <1>2, <1>3, <1>4, <1>5, <1>6, <1>8 DEF d, n, s1, s2

LEMMA MergingEntry ==
  ASSUME MirAssumption,
         NEW o, NEW m, NEW base, NEW gs, NEW x, Work(o, m, base, gs, x),
         NEW e1, NEW e2, NEW p,
         p[1] \in 1..Len(m.env), p[2] \in Name, Held(m.env, p[1], p[2]),
         base < p[1] \/ p[2] \in gs,
         e1[p[1]][p[2]] \in Site, e2[p[1]][p[2]] \in Site,
         MayRead("PHI", <<Phi(e1[p[1]][p[2]]), Phi(e2[p[1]][p[2]])>>, Produced(m), x)
  PROVE  GivesValue(o, m, MergeEntry(m, e1, e2, p), base, gs, x)
<1> DEFINE s1 == e1[p[1]][p[2]]
           s2 == e2[p[1]][p[2]]
           args == <<Phi(s1), Phi(s2)>>
           b == Emit(m, "PHI", args)
           d == p[1]
           n == p[2]
           s == [b.env[d][n] EXCEPT !.var = LastVar(b)]
           e == [b.env EXCEPT ![d][n] = s]
           f == SetEnv(b, e)
<1>1. args \in Seq(Argument) /\ NoLabels(args)
  BY OperandShapes, Args, OperandLabels DEF NoLabels
<1>2. MayRead("PHI", args, Produced(m), x) /\ "PHI" \in Ops
  BY DEF Ops
<1>3. MergeEntry(m, e1, e2, p) = f
  BY DEF MergeEntry, SetEnv
<1> HIDE DEF args
<1>4. /\ Work(o, b, base, gs, x)
      /\ b.env = m.env
      /\ Len(b.blocks) = Len(m.blocks)
      /\ Produced(b) = Produced(m) \cup {m.next}
      /\ LastVar(b) = m.next /\ LastVar(b) \in Nat \ {0}
      /\ MoreEdges(m, b, Len(m.blocks), args)
  <2>1. Work(o, m, base, gs, x)
    OBVIOUS
  <2> QED
    BY ONLY <1>1, <1>2, <2>1, Emitting
<1>5. /\ d \in 1..Len(b.env) /\ n \in Name /\ Held(b.env, d, n)
      /\ base < d \/ (n \in gs /\ Held(b.env, d, n))
  BY <1>4
<1> HIDE DEF b, d, n
<1>6. /\ base \in Nat /\ b.env \in Seq(Env!Scope) /\ base <= Len(b.env) /\ Len(b.env) \in Nat
      /\ Keeps(o.env, b.env, base, gs) /\ Live(b.env, base, Produced(b))
  BY <1>4, WorkEnv
<1>7. s \in Site /\ s.var = LastVar(b)
  <2>1. b.env[d][n] \in Site
    BY <1>5, <1>6, ScopeEntries
  <2> QED
    BY <1>4, <2>1 DEF Site
<1> HIDE DEF s
<1>8. e \in Seq(Env!Scope)
  BY <1>5, <1>6, <1>7, EntryReplaced
<1>9. Keeps(o.env, e, base, gs) /\ Live(e, base, Produced(b))
  <2>1. s.var \in Produced(b)
    BY <1>4, <1>7
  <2> QED
    BY <1>5, <1>6, <1>7, <2>1, EntryWritten DEF MirAssumption
<1> HIDE DEF e
<1>10. /\ Work(o, f, base, gs, x) /\ f.blocks = b.blocks
       /\ Produced(f) = Produced(b) /\ LastVar(f) = LastVar(b)
       /\ SameEdges(b, f)
  <2>1. Work(o, b, base, gs, x)
    BY <1>4
  <2> QED
    BY ONLY <1>8, <1>9, <2>1, SettingEnv
<1> HIDE DEF f
<1> QED
  BY <1>1, <1>3, <1>4, <1>10, EdgesChained DEF GivesValue

\* The code m goes on in another environment, that of a saved visit.
LEMMA Rebased ==
  ASSUME NEW m, NEW base, NEW gs, NEW x, Work(m, m, base, gs, x),
         NEW e \in Seq(Env!Scope), base <= Len(e), Live(e, base, Produced(m))
  PROVE  LET f == SetEnv(m, e)
         IN  /\ Work(f, f, base, gs, x)
             /\ f.env = e /\ f.next = m.next /\ f.blocks = m.blocks /\ f.params = m.params
             /\ Produced(f) = Produced(m) /\ Slots(f) = Slots(m)
             /\ SameEdges(m, f)
<1> DEFINE f == SetEnv(m, e)
<1>1. m \in Factory /\ m.next \in Nat /\ m.next <= m.next
  <2>1. m \in Factory /\ m.next \in Nat
    BY WorkTypes
  <2> QED
    BY <2>1
<1>2. /\ f \in Factory /\ f.blocks = m.blocks /\ f.params = m.params
      /\ f.next = m.next /\ f.env = e
  BY <1>1, SetEnvFacts
<1> HIDE DEF f
<1>3. /\ Slots(f) = Slots(m)
      /\ Produced(f) = Produced(m)
      /\ SameEdges(m, f)
      /\ Sound(m, x) => Sound(f, x)
  BY <1>1, <1>2, SameCode
<1>4. Grown(f, f)
  BY <1>2, GrownFromItself
<1>5. Keeps(f.env, f.env, base, gs)
  BY DEF Keeps, Below
<1> QED
  BY <1>2, <1>3, <1>4, <1>5 DEF Work, f

\* The entries of a list are merged one after the other.
LEMMA MergingWork ==
  ASSUME MirAssumption,
         NEW m, NEW base, NEW gs, NEW x, Work(m, m, base, gs, x),
         NEW e1, NEW e2, Forked(m, e1, e2, base, gs, x), NEW reached,
         NEW todo \in Seq(Differing(e1, e2, reached))
  PROVE  LET f == Merging(m, e1, e2, todo)
         IN  /\ Work(SetEnv(m, e1), f, base, gs, x)
             /\ Len(f.blocks) = Len(m.blocks)
             /\ Produced(m) \subseteq Produced(f)
             /\ SameEdges(m, f)
<1> DEFINE n == Len(todo)
           z == SetEnv(m, e1)
           S == {f \in Factory : /\ Work(z, f, base, gs, x)
                                 /\ Len(f.blocks) = Len(m.blocks)
                                 /\ Produced(m) \subseteq Produced(f)
                                 /\ SameEdges(m, f)}
           Solves(w) == w = [k \in 0..n |-> IF k = 0 THEN SetEnv(m, e1)
                                            ELSE MergeEntry(w[k - 1], e1, e2, todo[k])]
           F == [k \in 1..n |-> [f \in S |-> MergeEntry(f, e1, e2, todo[k])]]
<1>1. n \in Nat /\ \A k \in 1..n : todo[k] \in Differing(e1, e2, reached)
  BY ElementOfSeq
<1>2. /\ Work(z, z, base, gs, x) /\ z.env = e1 /\ z.blocks = m.blocks
      /\ Produced(z) = Produced(m) /\ SameEdges(m, z)
  <2>1. e1 \in Seq(Env!Scope) /\ base <= Len(e1) /\ Live(e1, base, Produced(m))
    BY DEF Forked
  <2> QED
    BY <2>1, Rebased
<1> HIDE DEF z
<1>3. z \in S
  <2>1. z \in Factory
    BY <1>2, WorkTypes
  <2> QED
    BY <1>2, <2>1
<1>4. ASSUME NEW k \in 1..n, NEW f \in S
      PROVE  MergeEntry(f, e1, e2, todo[k]) \in S
  <2> DEFINE p == todo[k]
             g == MergeEntry(f, e1, e2, p)
  <2>1. p \in Differing(e1, e2, reached)
    BY <1>1
  <2> HIDE DEF p
  <2>2. /\ p[1] \in 1..Len(e1) /\ p[2] \in Name /\ Held(e1, p[1], p[2])
        /\ base < p[1] \/ p[2] \in gs
        /\ e1[p[1]][p[2]] \in Site /\ e2[p[1]][p[2]] \in Site
        /\ MayRead("PHI", <<Phi(e1[p[1]][p[2]]), Phi(e2[p[1]][p[2]])>>, Produced(m), x)
    BY <2>1, Differs
  <2>3. Work(z, f, base, gs, x) /\ Len(f.env) = Len(e1) /\ Keeps(e1, f.env, base, gs)
    BY <1>2, WorkEnv
  <2>4. p[1] \in 1..Len(f.env) /\ Held(f.env, p[1], p[2])
    BY <2>2, <2>3 DEF Keeps
  <2>5. MayRead("PHI", <<Phi(e1[p[1]][p[2]]), Phi(e2[p[1]][p[2]])>>, Produced(f), x)
    BY <2>2 DEF MayRead
  <2>6. GivesValue(z, f, g, base, gs, x)
    BY <2>2, <2>3, <2>4, <2>5, MergingEntry
  <2> HIDE DEF g
  <2>7. g \in Factory
    BY <2>6, WorkTypes DEF GivesValue
  <2>8. /\ Work(z, g, base, gs, x)
        /\ Len(g.blocks) = Len(m.blocks)
        /\ Produced(m) \subseteq Produced(g)
        /\ SameEdges(m, g)
    BY <2>6, EdgesChained DEF GivesValue
  <2>9. g \in S
    BY <2>7, <2>8
  <2> QED
    BY <2>9 DEF g, p
<1> HIDE DEF S
<1>5. F \in Steps(n, S)
  BY <1>4 DEF Steps
<1>6. PICK b \in [0..n -> S] :
        \A k \in 0..n : b[k] = IF k = 0 THEN z ELSE F[k][b[k - 1]]
  <2> HIDE DEF F, n
  <2>1. Solved(n, S, z, F)
    BY <1>1, <1>3, <1>5, Solution
  <2> QED
    BY <2>1, Zenon DEF Solved
<1>7. \A k \in 0..n : b[k] = IF k = 0 THEN z ELSE MergeEntry(b[k - 1], e1, e2, todo[k])
  <2>1. \A k \in 0..n : k # 0 => k \in 1..n /\ b[k - 1] \in S
    BY <1>1
  <2>2. \A k \in 1..n, f \in S : F[k][f] = MergeEntry(f, e1, e2, todo[k])
    OBVIOUS
  <2> HIDE DEF F, n
  <2> QED
    BY <1>6, <2>1, <2>2
<1>8. Solves(b)
  <2>1. b = [k \in 0..n |-> b[k]]
    OBVIOUS
  <2> HIDE DEF n
  <2> QED
    BY <1>7, <2>1 DEF z
<1> DEFINE merged == CHOOSE w : Solves(w)
<1>9. Merging(m, e1, e2, todo) = merged[n]
  BY DEF Merging
<1>10. Solves(merged)
  <2> HIDE DEF Solves
  <2> QED
    BY <1>8
<1>11. \A k \in 0..n : merged[k] = IF k = 0 THEN z ELSE MergeEntry(merged[k - 1], e1, e2, todo[k])
  <2> HIDE DEF n, merged
  <2> QED
    BY <1>10 DEF z
<1> HIDE DEF merged, n
<1>12. merged[n] \in S
  <2> DEFINE T == {k \in 0..n : merged[k] \in S}
  <2>1. 0 \in T
    BY <1>1, <1>3, <1>11
  <2>2. ASSUME NEW k \in 1..n, k - 1 \in T
        PROVE  k \in T
    <3>1. k \in 0..n /\ k # 0
      BY <1>1
    <3>2. merged[k] = MergeEntry(merged[k - 1], e1, e2, todo[k])
      BY <1>11, <3>1
    <3> QED
      BY <1>4, <2>2, <3>1, <3>2
  <2> HIDE DEF T
  <2>3. \A k \in 0..n : k \in T
    BY <1>1, <2>1, <2>2, Upwards
  <2>4. n \in 0..n
    BY <1>1
  <2> QED
    BY <2>3, <2>4 DEF T
<1> QED
  BY <1>9, <1>12 DEF S, z

\* merge_envs.
LEMMA MergeEnvsWork ==
  ASSUME MirAssumption,
         NEW m, NEW base, NEW gs, NEW x, Work(m, m, base, gs, x),
         NEW e1, NEW e2, Forked(m, e1, e2, base, gs, x), NEW reached
  PROVE  LET f == MergeEnvs(m, e1, e2, reached)
         IN  /\ Work(SetEnv(m, e1), f, base, gs, x)
             /\ Len(f.blocks) = Len(m.blocks)
             /\ Produced(m) \subseteq Produced(f)
             /\ SameEdges(m, f)
<1> DEFINE D == Differing(e1, e2, reached)
           todo == SetToSeq(D)
<1>1. IsFiniteSet(D)
  BY DifferingFinite DEF Forked
<1>2. todo \in Seq(Differing(e1, e2, reached))
  BY <1>1, InSequence
<1>3. MergeEnvs(m, e1, e2, reached) = Merging(m, e1, e2, todo)
  BY DEF MergeEnvs
<1> HIDE DEF todo
<1> QED
  BY <1>2, <1>3, MergingWork

-----------------------------------------------------------------------------
(* The invariant.  While a function is translated, the scopes above base are *)
(* its own: one for each scope of the checker but the module's, and those    *)
(* that branches have left behind.                                           *)

\* What is visible in the first l scopes of the checker has an entry of its own,
\* which stays when the scopes inside of its own are popped.
Bound(e, base, gs, vis, l) ==
  /\ base + l <= Len(e) + 1
  /\ \A i \in 2..l : \A n \in vis[i] \ gs :
       \E d \in 1..Len(e) : base < d /\ d + (l - i) <= Len(e) /\ Held(e, d, n)

\* The environment e of a suspended visit, the statement around which is in the
\* first l scopes of the checker.
Saved(m, e, base, gs, ls, vis, l) ==
  /\ e \in Seq(Env!Scope)
  /\ Live(e, base, Produced(m))
  /\ Below(m.env, e, base, ls)
  /\ Bound(e, base, gs, vis, l)

Frame ==
  [kind : {"then"}, alt : BOOLEAN, cond : Nat \X Nat, block : Nat, main : Seq(Env!Scope)]
  \cup [kind : {"else"}, then : Nat, block : Nat, env : Seq(Env!Scope)]
  \cup [kind : {"loop"}, cond : Nat \X Nat, expr : Nat, post : Name]

Suspended(m, f, base, gs, ls, vis, l) ==
  /\ f.kind = "then" => /\ f.cond \in Slots(m) /\ f.block \in 1..Len(m.blocks)
                        /\ Saved(m, f.main, base, gs, ls, vis, l)
  /\ f.kind = "else" => /\ f.then \in 1..Len(m.blocks) /\ f.block \in 1..Len(m.blocks)
                        /\ Saved(m, f.env, base, gs, ls, vis, l)
  /\ f.kind = "loop" => f.cond \in Slots(m) /\ {f.expr, f.expr + 1} \subseteq 1..Len(m.blocks)

\* A function under construction: m is its code, gs the globals, fs the suspended
\* visits and vis the scopes of the checker.
Building(m, base, gs, ls, fs, vis) ==
  /\ Work(m, m, base, ls, Left(m.env, base, ls))
  /\ gs \subseteq ls /\ ls \subseteq Name
  /\ vis \in Seq(SUBSET Name) /\ vis[1] = gs
  /\ fs \in Seq(Frame) /\ Len(vis) = Len(fs) + 2
  /\ Bound(m.env, base, gs, vis, Len(vis))
  /\ \A k \in 1..Len(fs) : Suspended(m, fs[k], base, gs, ls, vis, k + 1)

\* What a step leaves to the suspended visits.
Evolves(m, f, base, ls) ==
  /\ Slots(m) \subseteq Slots(f)
  /\ Len(m.blocks) <= Len(f.blocks)
  /\ Produced(m) \subseteq Produced(f)
  /\ Below(m.env, f.env, base, ls)

LEMMA SavedKept ==
  ASSUME NEW m, NEW f, NEW base, NEW gs, NEW ls, Evolves(m, f, base, ls),
         NEW e, NEW vis, NEW vis2, NEW l, Saved(m, e, base, gs, ls, vis, l),
         \A i \in 2..l : vis2[i] = vis[i]
  PROVE  Saved(f, e, base, gs, ls, vis2, l)
<1>1. Live(e, base, Produced(f))
  BY DEF Saved, Live, Evolves
<1>2. Below(f.env, e, base, ls)
  BY DEF Saved, Below, Evolves
<1>3. Bound(e, base, gs, vis2, l)
  BY DEF Saved, Bound
<1> QED
  BY <1>1, <1>2, <1>3 DEF Saved

LEMMA SuspendedKept ==
  ASSUME NEW m \in Factory, NEW f \in Factory, NEW base, NEW gs, NEW ls, Evolves(m, f, base, ls),
         NEW fr, NEW vis, NEW vis2, NEW l, Suspended(m, fr, base, gs, ls, vis, l),
         \A i \in 2..l : vis2[i] = vis[i]
  PROVE  Suspended(f, fr, base, gs, ls, vis2, l)
<1>1. \A b \in 1..Len(m.blocks) : b \in 1..Len(f.blocks)
  <2>1. Len(m.blocks) \in Nat /\ Len(f.blocks) \in Nat
    BY DEF Factory
  <2> QED
    BY <2>1 DEF Evolves
<1>2. Slots(m) \subseteq Slots(f)
  BY DEF Evolves
<1>3. \A e : Saved(m, e, base, gs, ls, vis, l) => Saved(f, e, base, gs, ls, vis2, l)
  BY SavedKept
<1> QED
  BY <1>1, <1>2, <1>3 DEF Suspended

LEMMA BoundKept ==
  ASSUME NEW e0, NEW e, NEW base, NEW gs, NEW ls, NEW vis, NEW l, Bound(e0, base, gs, vis, l),
         vis \in Seq(SUBSET Name), l \in 0..Len(vis), Keeps(e0, e, base, ls)
  PROVE  Bound(e, base, gs, vis, l)
<1>1. \A i \in 2..l : vis[i] \subseteq Name
  <2>1. \A i \in 2..l : i \in 1..Len(vis)
    OBVIOUS
  <2> QED
    BY <2>1
<1> QED
  BY <1>1 DEF Bound, Keeps

\* The entries of earlier functions stay.
LEMMA LeftKept ==
  ASSUME NEW e0, NEW e, NEW base, NEW ls, Below(e0, e, base, ls), ls \subseteq Name
  PROVE  Left(e, base, ls) = Left(e0, base, ls)
BY DEF Below, Left

LEMMA BuildingParts ==
  ASSUME NEW m, NEW base, NEW gs, NEW ls, NEW fs, NEW vis, Building(m, base, gs, ls, fs, vis)
  PROVE  /\ Work(m, m, base, ls, Left(m.env, base, ls))
         /\ fs \in Seq(Frame) /\ vis \in Seq(SUBSET Name) /\ vis[1] = gs
         /\ Bound(m.env, base, gs, vis, Len(vis))
BY DEF Building

LEMMA BuildingTypes ==
  ASSUME NEW m, NEW base, NEW gs, NEW ls, NEW fs, NEW vis, Building(m, base, gs, ls, fs, vis)
  PROVE  /\ m \in Factory /\ 1 <= Len(m.blocks) /\ Len(m.blocks) \in Nat
         /\ m.env \in Seq(Env!Scope) /\ Len(m.env) \in Nat /\ m.next \in Nat
         /\ base \in Nat /\ base <= Len(m.env) /\ base < Len(m.env)
         /\ Live(m.env, base, Produced(m))
         /\ gs \subseteq ls /\ ls \subseteq Name /\ Len(vis) \in Nat /\ Len(fs) \in Nat
         /\ \A i \in 1..Len(vis) : vis[i] \subseteq Name
         /\ Len(vis) = Len(fs) + 2
<1>1. Work(m, m, base, ls, Left(m.env, base, ls)) /\ gs \subseteq ls /\ ls \subseteq Name
      /\ vis \in Seq(SUBSET Name) /\ vis[1] = gs
      /\ fs \in Seq(Frame) /\ Len(vis) = Len(fs) + 2 /\ base + Len(vis) <= Len(m.env) + 1
  BY DEF Building, Bound
<1>2. /\ m \in Factory /\ Len(m.blocks) \in Nat /\ 1 <= Len(m.blocks) /\ m.next \in Nat
  BY <1>1, WorkTypes
<1>3. m.env \in Seq(Env!Scope) /\ Len(m.env) \in Nat /\ base \in Nat /\ base <= Len(m.env)
      /\ Live(m.env, base, Produced(m))
  BY <1>1, WorkEnv
<1>4. Len(vis) \in Nat /\ Len(fs) \in Nat
  BY <1>1
<1>5. 1 \in 1..Len(vis) /\ base < Len(m.env)
  BY <1>1, <1>3, <1>4
<1>6. \A i \in 1..Len(vis) : vis[i] \subseteq Name
  BY <1>1
<1> QED
  BY <1>1, <1>2, <1>3, <1>4, <1>5, <1>6

\* A statement without a body.
LEMMA BuildingKept ==
  ASSUME NEW m, NEW base, NEW gs, NEW ls, NEW fs, NEW vis, Building(m, base, gs, ls, fs, vis),
         NEW f, Work(m, f, base, ls, Left(m.env, base, ls))
  PROVE  Building(f, base, gs, ls, fs, vis)
<1>1. m \in Factory /\ ls \subseteq Name /\ Len(vis) \in Nat /\ Len(fs) \in Nat /\ Len(vis) = Len(fs) + 2
  BY BuildingTypes
<1>2. f \in Factory
  BY WorkTypes
<1>3. Keeps(m.env, f.env, base, ls) /\ Grown(m, f)
  BY DEF Work
<1>4. Left(f.env, base, ls) = Left(m.env, base, ls)
  BY <1>1, <1>3, LeftKept DEF Keeps
<1>5. Work(f, f, base, ls, Left(f.env, base, ls))
  BY <1>4, WorkItself
<1>6. Evolves(m, f, base, ls)
  BY <1>3 DEF Evolves, Keeps, Grown
<1>7. Bound(f.env, base, gs, vis, Len(vis))
  <2>1. Len(vis) \in 0..Len(vis) /\ vis \in Seq(SUBSET Name) /\ Bound(m.env, base, gs, vis, Len(vis))
    BY <1>1 DEF Building
  <2> QED
    BY <1>3, <2>1, BoundKept
<1>8. \A k \in 1..Len(fs) : Suspended(f, fs[k], base, gs, ls, vis, k + 1)
  <2>1. \A k \in 1..Len(fs) : Suspended(m, fs[k], base, gs, ls, vis, k + 1)
    BY DEF Building
  <2> QED
    BY <1>1, <1>2, <1>6, <2>1, SuspendedKept
<1> QED
  BY <1>5, <1>7, <1>8 DEF Building

\* A new name in the innermost scope.
LEMMA BuildingNamed ==
  ASSUME NEW m, NEW base, NEW gs, NEW ls, NEW fs, NEW vis, Building(m, base, gs, ls, fs, vis),
         NEW n \in Name, Held(m.env, Len(m.env), n)
  PROVE  Building(m, base, gs, ls, fs, [vis EXCEPT ![Len(vis)] = @ \cup {n}])
<1> DEFINE L == Len(vis)
           more == [vis EXCEPT ![L] = @ \cup {n}]
<1>1. /\ m \in Factory /\ L \in Nat /\ Len(fs) \in Nat /\ L = Len(fs) + 2
      /\ base \in Nat /\ base < Len(m.env) /\ Len(m.env) \in Nat
      /\ Len(m.blocks) \in Nat
      /\ \A i \in 1..L : vis[i] \subseteq Name
  BY BuildingTypes
<1>2. /\ vis \in Seq(SUBSET Name) /\ vis[1] = gs /\ fs \in Seq(Frame)
      /\ Work(m, m, base, ls, Left(m.env, base, ls))
      /\ Bound(m.env, base, gs, vis, L)
      /\ \A k \in 1..Len(fs) : Suspended(m, fs[k], base, gs, ls, vis, k + 1)
  BY DEF Building
<1>3. /\ more \in Seq(SUBSET Name) /\ Len(more) = L
      /\ \A i \in 1..L : more[i] = IF i = L THEN vis[L] \cup {n} ELSE vis[i]
  <2>1. L \in 1..Len(vis)
    BY <1>1
  <2>2. vis[L] \cup {n} \in SUBSET Name
    BY <1>1, <2>1
  <2> QED
    BY <1>2, <2>1, <2>2, ExceptSeq
<1> HIDE DEF more, L
<1>4. Bound(m.env, base, gs, more, L)
  <2>1. ASSUME NEW i \in 2..L, NEW p \in more[i] \ gs
        PROVE  \E d \in 1..Len(m.env) : base < d /\ d + (L - i) <= Len(m.env) /\ Held(m.env, d, p)
    <3>1. i \in 1..L
      BY <1>1
    <3>2. CASE p \in vis[i]
      BY <1>2, <2>1, <3>2 DEF Bound
    <3>3. CASE p \notin vis[i]
      <4>1. i = L /\ p = n
        BY <1>3, <2>1, <3>1, <3>3
      <4>2. Len(m.env) \in 1..Len(m.env) /\ Len(m.env) + (L - L) <= Len(m.env)
        BY <1>1
      <4> QED
        BY <1>1, <4>1, <4>2
    <3> QED
      BY <3>2, <3>3
  <2> QED
    BY <1>2, <2>1 DEF Bound
<1>5. ASSUME NEW k \in 1..Len(fs)
      PROVE  Suspended(m, fs[k], base, gs, ls, more, k + 1)
  <2>1. Suspended(m, fs[k], base, gs, ls, vis, k + 1)
    BY <1>2
  <2>2. Evolves(m, m, base, ls)
    <3>1. Len(m.blocks) <= Len(m.blocks)
      BY <1>1
    <3> QED
      BY <3>1 DEF Evolves, Below
  <2>3. \A i \in 2..k + 1 : i \in 1..L /\ i # L
    BY <1>1
  <2>4. \A i \in 2..k + 1 : more[i] = vis[i]
    BY <1>3, <2>3
  <2> QED
    BY <1>1, <2>1, <2>2, <2>4, SuspendedKept
<1>6. more[1] = gs
  <2>1. 1 \in 1..L /\ 1 # L
    BY <1>1
  <2> QED
    BY <1>2, <1>3, <2>1
<1> QED
  BY <1>1, <1>2, <1>3, <1>4, <1>5, <1>6 DEF Building, more, L

\* What is in scope can be looked up.
LEMMA ScopeUsable ==
  ASSUME NEW m, NEW base, NEW gs, NEW ls, NEW fs, NEW vis, Building(m, base, gs, ls, fs, vis),
         NEW n \in UNION Range(vis)
  PROVE  Usable(m.env, n, base, gs) /\ (n \notin gs => Knows(m, n))
<1>1. /\ Len(vis) \in Nat /\ \A i \in 1..Len(vis) : vis[i] \subseteq Name
      /\ m.env \in Seq(Env!Scope) /\ base \in Nat
  BY BuildingTypes
<1>2. vis \in Seq(SUBSET Name) /\ vis[1] = gs /\ Bound(m.env, base, gs, vis, Len(vis))
  BY DEF Building
<1>3. PICK i \in 1..Len(vis) : n \in vis[i]
  BY <1>2 DEF Range
<1>4. n \in Name
  BY <1>1, <1>3
<1>5. CASE n \in gs
  BY <1>4, <1>5 DEF Usable
<1>6. CASE n \notin gs
  <2>1. i \in 2..Len(vis)
    BY <1>1, <1>2, <1>3, <1>6
  <2>2. PICK d \in 1..Len(m.env) : base < d /\ Held(m.env, d, n)
    BY <1>2, <1>3, <1>6, <2>1 DEF Bound
  <2>3. Knows(m, n)
    BY <1>1, <2>2 DEF Knows, Env!Contains, Env!Holders, Held
  <2> QED
    BY <1>4, <2>2, <2>3 DEF Usable
<1> QED
  BY <1>5, <1>6

-----------------------------------------------------------------------------
(* Control: which blocks can be reached.                                    *)

\* b is in each set of blocks that has the roots and goes on along the edges.
Closed(m, R) == \A a, b : a \in R /\ Edge(m, a, b) => b \in R
Reaches(m, roots, b) == \A R : roots \subseteq R /\ Closed(m, R) => b \in R

\* The blocks of the first k loops that are not linked before the loop ends.
Roots(fs, k) ==
  {1} \cup UNION {{fs[j].expr, fs[j].expr + 1} : j \in {j \in 1..k : fs[j].kind = "loop"}}

Linked(m, fs) ==
  /\ Aimed(m, Len(m.blocks))
  /\ \A b \in 1..Len(m.blocks) : Reaches(m, Roots(fs, Len(fs)), b)
  /\ \A k \in 1..Len(fs) :
       fs[k].kind = "loop" => Reaches(m, Roots(fs, k - 1), fs[k].cond[1])

\* The code m has got more edges, and blocks that these lead to.
Extends(m, f) ==
  /\ Len(m.blocks) <= Len(f.blocks)
  /\ \A a, b : Edge(m, a, b) => Edge(f, a, b)
  /\ \A b \in Len(m.blocks) + 1..Len(f.blocks) : \E a \in 1..b - 1 : Edge(f, a, b)

LEMMA ReachesKept ==
  ASSUME NEW m, NEW f, \A a, b : Edge(m, a, b) => Edge(f, a, b),
         NEW roots, NEW b, Reaches(m, roots, b)
  PROVE  Reaches(f, roots, b)
BY DEF Reaches, Closed

\* New blocks that have edges from earlier ones are reached, too.
LEMMA AllReached ==
  ASSUME NEW m \in Factory, NEW f \in Factory, Extends(m, f),
         NEW roots, \A b \in 1..Len(m.blocks) : Reaches(m, roots, b)
  PROVE  \A b \in 1..Len(f.blocks) : Reaches(f, roots, b)
<1>1. Len(m.blocks) \in Nat /\ Len(f.blocks) \in Nat
  BY DEF Factory
<1>2. SUFFICES ASSUME NEW R, roots \subseteq R, Closed(f, R),
                      NEW b \in 1..Len(f.blocks), b \notin R
               PROVE  FALSE
  BY DEF Reaches
<1>3. \A c \in 1..Len(m.blocks) : c \in R
  <2>1. \A c \in 1..Len(m.blocks) : Reaches(f, roots, c)
    BY ReachesKept DEF Extends
  <2> QED
    BY <1>2, <2>1 DEF Reaches
<1> DEFINE T == {c \in 1..Len(f.blocks) : c \notin R}
<1>4. PICK c \in T : \A a \in T : c <= a
  <2>1. T \subseteq Nat /\ T # {}
    BY <1>2
  <2> HIDE DEF T
  <2> QED
    BY <2>1, LeastElement
<1>5. c \in Len(m.blocks) + 1..Len(f.blocks) /\ c \notin R
  BY <1>1, <1>3, <1>4
<1>6. PICK a \in 1..c - 1 : Edge(f, a, c)
  BY <1>5 DEF Extends
<1>7. a \in 1..Len(f.blocks) /\ ~(c <= a)
  BY <1>1, <1>5, <1>6
<1>8. a \in R
  BY <1>4, <1>7
<1> QED
  BY <1>2, <1>5, <1>6, <1>8 DEF Closed

\* A step that leaves the suspended visits.
LEMMA LinkedKept ==
  ASSUME NEW m \in Factory, NEW f \in Factory, NEW fs, Linked(m, fs),
         Extends(m, f), Aimed(f, Len(f.blocks))
  PROVE  Linked(f, fs)
<1>1. \A b \in 1..Len(f.blocks) : Reaches(f, Roots(fs, Len(fs)), b)
  BY AllReached DEF Linked
<1>2. \A k \in 1..Len(fs) : fs[k].kind = "loop" => Reaches(f, Roots(fs, k - 1), fs[k].cond[1])
  BY ReachesKept DEF Linked, Extends
<1> QED
  BY <1>1, <1>2 DEF Linked

LEMMA GrownExtends ==
  ASSUME NEW m \in Factory, NEW f, Grown(m, f), 1 <= Len(m.blocks)
  PROVE  Extends(m, f)
<1>1. Len(m.blocks) \in Nat
  BY DEF Factory
<1>2. ASSUME NEW b \in Len(m.blocks) + 1..Len(f.blocks)
      PROVE  \E a \in 1..b - 1 : Edge(f, a, b)
  <2>1. PICK a \in Len(m.blocks)..b - 1 : Edge(f, a, b)
    BY DEF Grown
  <2>2. a \in 1..b - 1
    BY <1>1
  <2> QED
    BY <2>1, <2>2
<1> QED
  BY <1>2 DEF Grown, Extends

\* The roots of visits, whatever has been suspended since.
LEMMA RootsAgree ==
  ASSUME NEW fs, NEW fs2, NEW k \in Nat, \A j \in 1..k : fs2[j] = fs[j]
  PROVE  Roots(fs2, k) = Roots(fs, k)
<1>1. {j \in 1..k : fs2[j].kind = "loop"} = {j \in 1..k : fs[j].kind = "loop"}
  OBVIOUS
<1> QED
  BY <1>1 DEF Roots

LEMMA RootsOfOneMore ==
  ASSUME NEW fs, NEW k \in Nat
  PROVE  /\ fs[k + 1].kind # "loop" => Roots(fs, k + 1) = Roots(fs, k)
         /\ fs[k + 1].kind = "loop" =>
              Roots(fs, k + 1) = Roots(fs, k) \cup {fs[k + 1].expr, fs[k + 1].expr + 1}
<1> DEFINE J(i) == {j \in 1..i : fs[j].kind = "loop"}
<1>1. \A j : j \in 1..k + 1 <=> j \in 1..k \/ j = k + 1
  OBVIOUS
<1>2. fs[k + 1].kind # "loop" => J(k + 1) = J(k)
  BY <1>1
<1>3. fs[k + 1].kind = "loop" => J(k + 1) = J(k) \cup {k + 1}
  BY <1>1
<1>4. \A i : Roots(fs, i) = {1} \cup UNION {{fs[j].expr, fs[j].expr + 1} : j \in J(i)}
  BY DEF Roots
<1> HIDE DEF J
<1> QED
  BY <1>2, <1>3, <1>4

-----------------------------------------------------------------------------
(* Statements without a body.                                               *)

\* The names whose entries of earlier functions can have been assigned to, before a
\* step and after it.
Loose == globals \cup taken
Looser == globals \cup taken'

MirInv ==
  /\ profile \in Profiles /\ Loose \subseteq Name
  /\ \E base \in Nat :
       /\ base <= Len(mir.env)
       /\ Sound(mir, Left(mir.env, base, Loose))
       /\ status \in {"function", "not_defined"} =>
            Building(mir, base, globals, Loose, frames, visible)
  /\ status = "function" => Linked(mir, frames)
  /\ status = "module" => frames = <<>> /\ visible = <<globals>>

\* What each step leaves of the history.
Noted == UNCHANGED profile /\ taken \subseteq taken' /\ taken' \subseteq Name

\* More names with entries that can have been assigned to.
LEMMA SoundMore ==
  ASSUME NEW m, NEW x, NEW y, Sound(m, x), x # {} => y # {}
  PROVE  Sound(m, y)
BY DEF Sound

LEMMA LeftMore ==
  ASSUME NEW m, NEW base, NEW ls, NEW more, ls \subseteq more, Sound(m, Left(m.env, base, ls))
  PROVE  Sound(m, Left(m.env, base, more))
<1>1. Left(m.env, base, ls) \subseteq Left(m.env, base, more)
  BY DEF Left
<1> QED
  BY <1>1, SoundMore

LEMMA BuildingMore ==
  ASSUME NEW m, NEW base, NEW gs, NEW ls, NEW fs, NEW vis, Building(m, base, gs, ls, fs, vis),
         NEW more, ls \subseteq more, more \subseteq Name
  PROVE  Building(m, base, gs, more, fs, vis)
<1>1. Work(m, m, base, more, Left(m.env, base, more))
  <2>1. Sound(m, Left(m.env, base, more))
    BY LeftMore DEF Building, Work
  <2>2. Keeps(m.env, m.env, base, more)
    BY DEF Keeps, Below
  <2> QED
    BY <2>1, <2>2 DEF Building, Work
<1>2. \A e, l : Saved(m, e, base, gs, ls, vis, l) => Saved(m, e, base, gs, more, vis, l)
  BY DEF Saved, Below
<1>3. \A k \in 1..Len(fs) : Suspended(m, fs[k], base, gs, more, vis, k + 1)
  <2>1. \A k \in 1..Len(fs) : Suspended(m, fs[k], base, gs, ls, vis, k + 1)
    BY DEF Building
  <2> QED
    BY <1>2, <2>1 DEF Suspended
<1>4. gs \subseteq more
  BY DEF Building
<1> HIDE DEF Work, Suspended
<1> QED
  BY <1>1, <1>3, <1>4 DEF Building

LEMMA MirMore ==
  ASSUME MirInv, Noted
  PROVE  /\ Looser \subseteq Name
         /\ \E base \in Nat :
              /\ base <= Len(mir.env)
              /\ Sound(mir, Left(mir.env, base, Looser))
              /\ status \in {"function", "not_defined"} =>
                   Building(mir, base, globals, Looser, frames, visible)
<1>1. Loose \subseteq Looser /\ Looser \subseteq Name
  BY DEF MirInv, Noted, Loose, Looser
<1>2. PICK base \in Nat :
        /\ base <= Len(mir.env)
        /\ Sound(mir, Left(mir.env, base, Loose))
        /\ status \in {"function", "not_defined"} =>
             Building(mir, base, globals, Loose, frames, visible)
  BY DEF MirInv
<1>3. Sound(mir, Left(mir.env, base, Looser))
  BY <1>1, <1>2, LeftMore
<1>4. ASSUME status \in {"function", "not_defined"}
      PROVE  Building(mir, base, globals, Looser, frames, visible)
  BY <1>1, <1>2, <1>4, BuildingMore
<1> QED
  BY <1>1, <1>2, <1>3, <1>4

\* f is the code after a part of a statement.
Stated(f, base) == Evaluated(mir, mir, f, base, Looser, Left(mir.env, base, Looser))

LEMMA StatedStart ==
  ASSUME NEW base, Building(mir, base, globals, Looser, frames, visible)
  PROVE  Stated(mir, base)
BY DEF Stated, Evaluated, Building

LEMMA StatedOn ==
  ASSUME NEW base, NEW m, Stated(m, base), NEW f,
         GivesValue(mir, m, f, base, Looser, Left(mir.env, base, Looser))
  PROVE  Stated(f, base)
BY ValueEvaluated, EvaluatedChained DEF Stated

LEMMA StatedEval ==
  ASSUME MirAssumption, NEW base, Building(mir, base, globals, Looser, frames, visible),
         NEW m, Stated(m, base), NEW e \in Exprs
  PROVE  /\ Stated(Eval(m, e), base)
         /\ LastVar(Eval(m, e)) # 0 => LastVar(Eval(m, e)) \in Produced(Eval(m, e))
<1> DEFINE f == Eval(m, e)
           x == Left(mir.env, base, Looser)
<1>1. \A n \in InScope : Usable(mir.env, n, base, globals)
  BY ScopeUsable DEF InScope
<1>2. Work(mir, m, base, Looser, x)
  BY DEF Stated, Evaluated
<1>3. Evaluated(mir, m, f, base, Looser, x)
  <2> DEFINE names == InScope
  <2>1. /\ e \in ExprsOver(names) /\ \A n \in names : Usable(mir.env, n, base, globals)
        /\ globals \subseteq Looser
    BY <1>1 DEF Exprs, Looser
  <2> HIDE DEF x, names
  <2> QED
    BY <1>2, <2>1, EvalWork
<1> HIDE DEF f, x
<1>4. Stated(f, base)
  BY <1>3, EvaluatedChained DEF Stated, x
<1>5. f \in Factory /\ 1 <= Len(f.blocks)
  <2>1. Work(mir, f, base, Looser, x)
    BY <1>3 DEF Evaluated
  <2>2. /\ f \in Factory /\ Len(f.blocks) \in Nat /\ Len(mir.blocks) \in Nat
        /\ 1 <= Len(mir.blocks) /\ Len(mir.blocks) <= Len(f.blocks)
    BY <2>1, WorkTypes
  <2> QED
    BY <2>2
<1> QED
  BY <1>4, <1>5, LastVarProduced DEF f

\* A result variable is created ahead of its instruction.
LEMMA CreatingVar ==
  ASSUME NEW o, NEW m, NEW base, NEW ls, NEW x, Work(o, m, base, ls, x)
  PROVE  LET f == CreateVar(m)
         IN  /\ Work(o, f, base, ls, x)
             /\ f.env = m.env /\ f.blocks = m.blocks /\ f.next = m.next + 1
             /\ Produced(f) = Produced(m)
             /\ SameEdges(m, f)
<1> DEFINE f == CreateVar(m)
<1>1. m \in Factory /\ m.next \in Nat /\ o.next \in Nat /\ o.next <= m.next
  BY WorkTypes
<1>2. /\ f \in Factory /\ f.blocks = m.blocks /\ f.params = m.params
      /\ f.next = m.next + 1 /\ f.env = m.env
  <2> DEFINE n == m.next + 1
  <2>1. n \in Nat \ {0}
    BY <1>1
  <2>2. f = [m EXCEPT !.next = n]
    BY DEF CreateVar
  <2> HIDE DEF n, f
  <2> QED
    BY <1>1, <2>1, <2>2 DEF Factory, n
<1> HIDE DEF f
<1>3. m.next <= f.next /\ o.next <= f.next
  BY <1>1, <1>2
<1>4. /\ Slots(f) = Slots(m)
      /\ Produced(f) = Produced(m)
      /\ SameEdges(m, f)
      /\ Sound(m, x) => Sound(f, x)
  BY <1>1, <1>2, <1>3, SameCode
<1>5. Grown(o, f)
  BY <1>2, <1>3, <1>4 DEF Work, Grown, SameEdges
<1> QED
  BY <1>2, <1>4, <1>5 DEF Work, f

LEMMA StatedCreate ==
  ASSUME NEW base, Building(mir, base, globals, Looser, frames, visible)
  PROVE  Stated(CreateVar(mir), base)
<1> DEFINE x == Left(mir.env, base, Looser)
           f == CreateVar(mir)
<1>1. Work(mir, mir, base, Looser, x)
  BY DEF Building
<1> HIDE DEF x
<1>2. Work(mir, f, base, Looser, x) /\ f.blocks = mir.blocks /\ SameEdges(mir, f)
  BY <1>1, CreatingVar
<1> HIDE DEF f
<1> QED
  BY <1>2, AimedKept DEF Stated, Evaluated, x, f

\* The translation throws.
LEMMA ThrowStep ==
  ASSUME MirInv, NEW s, s \notin {"module", "function"}, Throw(s), Noted,
         s = "not_defined" => status = "function"
  PROVE  MirInv'
<1>1. PICK base \in Nat :
        /\ base <= Len(mir.env)
        /\ Sound(mir, Left(mir.env, base, Looser))
        /\ status \in {"function", "not_defined"} =>
             Building(mir, base, globals, Looser, frames, visible)
  BY MirMore
<1>2. /\ mir' = mir /\ globals' = globals /\ frames' = frames /\ visible' = visible
      /\ status' = s /\ Loose' = Looser
  BY DEF Throw, Loose, Looser
<1>3. /\ Sound(mir', Left(mir'.env, base, Loose'))
      /\ status' = "not_defined" => Building(mir', base, globals', Loose', frames', visible')
  BY <1>1, <1>2
<1>4. profile' \in Profiles /\ Loose' \subseteq Name
  BY <1>2, MirMore DEF MirInv, Noted
<1> QED
  BY <1>1, <1>2, <1>3, <1>4 DEF MirInv

LEMMA PlainStep ==
  ASSUME MirInv, status = "function",
         NEW base, Building(mir, base, globals, Looser, frames, visible),
         NEW m, Stated(m, base), Emits(m), Noted
  PROVE  MirInv'
<1> DEFINE x == Left(mir.env, base, Looser)
<1>1. /\ mir' = m /\ globals' = globals /\ frames' = frames /\ visible' = visible
      /\ status' = status
  BY DEF Emits
<1>2. Work(mir, m, base, Looser, x) /\ (Aimed(mir, Len(mir.blocks)) => Aimed(m, Len(m.blocks)))
  BY DEF Stated, Evaluated
<1>3. Building(m, base, globals, Looser, frames, visible)
  BY <1>2, BuildingKept
<1>4. Linked(m, frames)
  <2>1. mir \in Factory /\ m \in Factory /\ 1 <= Len(mir.blocks)
    BY <1>3, BuildingTypes
  <2>2. Extends(mir, m)
    BY <1>2, <2>1, GrownExtends DEF Work
  <2>3. Linked(mir, frames)
    BY DEF MirInv
  <2> QED
    BY <1>2, <2>1, <2>2, <2>3, LinkedKept DEF Linked
<1>5. base \in Nat /\ base <= Len(m.env)
  BY <1>3, BuildingTypes
<1>6. Sound(m, Left(m.env, base, Looser))
  BY <1>3 DEF Building, Work
<1>7. Loose' = Looser /\ Looser \subseteq Name
  BY <1>1, MirMore DEF Loose, Looser
<1>9. profile' \in Profiles
  BY DEF MirInv, Noted
<1>8. Building(mir', base, globals', Loose', frames', visible') /\ Linked(mir', frames')
      /\ base <= Len(mir'.env) /\ Sound(mir', Left(mir'.env, base, Loose'))
  BY <1>1, <1>3, <1>4, <1>5, <1>6, <1>7
<1> QED
  BY <1>1, <1>5, <1>7, <1>8, <1>9 DEF MirInv

LEMMA ABuilding ==
  ASSUME MirInv, status = "function", Noted
  PROVE  \E base \in Nat : Building(mir, base, globals, Looser, frames, visible)
BY MirMore

\* An instruction that computes no value.
LEMMA StatedInstr ==
  ASSUME NEW base, NEW m, Stated(m, base),
         NEW op \in Ops, NEW args, ValueArgs(op, args, Produced(m), Left(mir.env, base, Looser))
  PROVE  Stated(AddInstr(m, op, args), base)
<1> DEFINE x == Left(mir.env, base, Looser)
           f == AddInstr(m, op, args)
<1>1. Work(mir, m, base, Looser, x)
  BY DEF Stated, Evaluated
<1> HIDE DEF x
<1>2. Work(mir, f, base, Looser, x) /\ Len(f.blocks) = Len(m.blocks) /\ SameEdges(m, f)
  BY <1>1, AddingInstr DEF x
<1> HIDE DEF f
<1>3. Evaluated(mir, m, f, base, Looser, x)
  BY <1>2, AimedKept DEF Evaluated
<1> QED
  BY <1>3, EvaluatedChained DEF Stated, x, f

LEMMA StatedNats ==
  ASSUME NEW base, NEW m, Stated(m, base)
  PROVE  Produced(m) \subseteq Nat
<1>1. Produced(m) \subseteq 1..m.next - 1
  BY WorkTypes DEF Stated, Evaluated
<1> QED
  BY <1>1

\* Return, Continue, Break, Defer and a call.
LEMMA ReturnStep ==
  ASSUME MirAssumption, MirInv, NEW e \in Exprs \cup {None}, VisitReturn(e), Noted
  PROVE  MirInv'
<1>1. status = "function"
  BY DEF VisitReturn, Stmt
<1>2. PICK base \in Nat : Building(mir, base, globals, Looser, frames, visible)
  BY <1>1, ABuilding
<1>3. "RETURN" \in Ops
  BY DEF Ops
<1>4. CASE e = None
  <2> DEFINE f == AddInstr(mir, "RETURN", <<>>)
  <2>1. Stated(mir, base)
    BY <1>2, StatedStart
  <2>2. ValueArgs("RETURN", <<>>, Produced(mir), Left(mir.env, base, Looser))
    BY <2>1, StatedNats, ValueShapes
  <2>3. Stated(f, base)
    BY <1>3, <2>1, <2>2, StatedInstr
  <2>4. Emits(f)
    BY <1>4 DEF VisitReturn
  <2> QED
    BY <1>1, <1>2, <2>3, <2>4, PlainStep
<1>5. CASE e # None
  <2> DEFINE m == Eval(mir, e)
             f == AddInstr(m, "RETURN", <<V(LastVar(m))>>)
  <2>1. WithValue(m, Emits(f))
    BY <1>5 DEF VisitReturn
  <2>2. Stated(m, base) /\ (LastVar(m) # 0 => LastVar(m) \in Produced(m))
    BY <1>2, <1>5, StatedStart, StatedEval
  <2> HIDE DEF m
  <2>3. CASE LastVar(m) # 0
    <3>1. ValueArgs("RETURN", <<V(LastVar(m))>>, Produced(m), Left(mir.env, base, Looser))
      BY <2>2, <2>3, StatedNats, ValueShapes
    <3>2. Stated(f, base)
      BY <1>3, <2>2, <3>1, StatedInstr
    <3>3. Emits(f)
      BY <2>1, <2>3 DEF WithValue
    <3> QED
      BY <1>1, <1>2, <3>2, <3>3, PlainStep
  <2>4. CASE LastVar(m) = 0
    BY <2>1, <2>4, ThrowStep DEF WithValue
  <2> QED
    BY <2>3, <2>4
<1> QED
  BY <1>4, <1>5

LEMMA JumpStep ==
  ASSUME MirInv, NEW op \in {"CONTINUE", "BREAK"}, VisitJump(op), Noted
  PROVE  MirInv'
<1>1. status = "function" /\ Emits(AddInstr(mir, op, <<>>))
  BY DEF VisitJump, Stmt
<1>2. PICK base \in Nat : Building(mir, base, globals, Looser, frames, visible)
  BY <1>1, ABuilding
<1>3. Stated(mir, base) /\ op \in Ops
  BY <1>2, StatedStart DEF Ops
<1>4. ValueArgs(op, <<>>, Produced(mir), Left(mir.env, base, Looser))
  BY <1>3, StatedNats, ValueShapes
<1>5. Stated(AddInstr(mir, op, <<>>), base)
  BY <1>3, <1>4, StatedInstr
<1> QED
  BY <1>1, <1>2, <1>5, PlainStep

LEMMA DeferStep ==
  ASSUME MirInv, VisitDefer, Noted
  PROVE  MirInv'
<1>1. status = "function" /\ Emits(mir)
  BY DEF VisitDefer, Stmt
<1>2. PICK base \in Nat : Building(mir, base, globals, Looser, frames, visible)
  BY <1>1, ABuilding
<1> QED
  BY <1>1, <1>2, StatedStart, PlainStep

LEMMA CallStep ==
  ASSUME MirAssumption, MirInv, NEW e \in Exprs, VisitCall(e), Noted
  PROVE  MirInv'
<1>1. status = "function" /\ Emits(Eval(mir, e))
  BY DEF VisitCall, Stmt
<1>2. PICK base \in Nat : Building(mir, base, globals, Looser, frames, visible)
  BY <1>1, ABuilding
<1>3. Stated(Eval(mir, e), base)
  BY <1>2, StatedStart, StatedEval
<1> QED
  BY <1>1, <1>2, <1>3, PlainStep

\* Assignments: the name gets the result of an update.
LEMMA UpdatesStep ==
  ASSUME MirAssumption, MirInv, status = "function",
         NEW base \in Nat, Building(mir, base, globals, Looser, frames, visible),
         NEW m, Stated(m, base), NEW n \in InScope, NEW v \in Produced(m),
         Updates(m, n, v), Noted
  PROVE  MirInv'
<1> DEFINE x == Left(mir.env, base, Looser)
           f == AddUpdate(m, n, v)
<1>1. CASE Knows(m, n)
  <2>1. Usable(mir.env, n, base, globals)
    BY ScopeUsable DEF InScope
  <2>2. Work(mir, m, base, Looser, x)
    BY DEF Stated, Evaluated
  <2> HIDE DEF x
  <2>3. Usable(m.env, n, base, Looser)
    <3>1. Usable(m.env, n, base, globals)
      BY <2>1, <2>2, UsableKept
    <3> QED
      BY <3>1 DEF Usable, Looser
  <2>4. GivesValue(mir, m, f, base, Looser, x)
    BY <1>1, <2>2, <2>3, Updating DEF GivesValue
  <2>5. Stated(f, base)
    BY <2>4, StatedOn DEF x
  <2>6. Emits(f)
    BY <1>1 DEF Updates
  <2> HIDE DEF f
  <2> QED
    BY <2>5, <2>6, PlainStep
<1>2. CASE ~Knows(m, n)
  BY <1>2, ThrowStep DEF Updates
<1> QED
  BY <1>1, <1>2

LEMMA AssignStep ==
  ASSUME MirAssumption, MirInv, NEW n, NEW e \in Exprs, VisitAssign(n, e), Noted
  PROVE  MirInv'
<1> DEFINE m == Eval(CreateVar(mir), e)
<1>1. status = "function" /\ n \in InScope /\ WithValue(m, Updates(m, n, LastVar(m)))
  BY DEF VisitAssign, Stmt
<1>2. PICK base \in Nat : Building(mir, base, globals, Looser, frames, visible)
  BY <1>1, ABuilding
<1>3. Stated(m, base) /\ (LastVar(m) # 0 => LastVar(m) \in Produced(m))
  BY <1>2, StatedCreate, StatedEval
<1> HIDE DEF m
<1>4. CASE LastVar(m) # 0
  BY <1>1, <1>2, <1>3, <1>4, UpdatesStep DEF WithValue
<1>5. CASE LastVar(m) = 0
  BY <1>1, <1>5, ThrowStep DEF WithValue
<1> QED
  BY <1>4, <1>5

LEMMA StatedRef ==
  ASSUME MirAssumption, NEW base, Building(mir, base, globals, Looser, frames, visible),
         NEW m, Stated(m, base), NEW n \in InScope
  PROVE  LET f == Ref(m, n)
         IN  /\ Stated(f, base) /\ LastVar(f) \in Produced(f)
             /\ Produced(m) \subseteq Produced(f) /\ m.next <= f.next
<1> DEFINE x == Left(mir.env, base, Looser)
           f == Ref(m, n)
<1>1. Usable(mir.env, n, base, globals)
  BY ScopeUsable DEF InScope
<1>2. Work(mir, m, base, Looser, x) /\ globals \subseteq Looser
  BY DEF Stated, Evaluated, Looser
<1> HIDE DEF x
<1>3. GivesValue(mir, m, f, base, Looser, x)
  BY <1>1, <1>2, ReadingValue DEF Ref
<1>4. m.next <= f.next
  <2>1. Usable(m.env, n, base, globals) /\ Work(m, m, base, Looser, x)
    BY <1>1, <1>2, UsableKept, WorkItself
  <2>2. GivesValue(m, m, f, base, Looser, x)
    BY <1>2, <2>1, ReadingValue DEF Ref
  <2>3. Work(m, f, base, Looser, x)
    BY <2>2 DEF GivesValue
  <2> HIDE DEF f
  <2> QED
    BY <2>3, WorkTypes
<1> HIDE DEF f
<1>5. Stated(f, base)
  BY <1>3, StatedOn DEF x
<1> QED
  BY <1>3, <1>4, <1>5 DEF GivesValue, f

LEMMA IncrementStep ==
  ASSUME MirAssumption, MirInv, NEW n, NEW op \in {"sum", "difference"},
         VisitIncrement(n, op), Noted
  PROVE  MirInv'
<1> DEFINE m == Ref(mir, n)
           args == <<V(LastVar(m)), Lit>>
           f == AddInstr(m, Opcode[op], args)
<1>1. status = "function" /\ n \in InScope /\ Emits(f)
  BY DEF VisitIncrement, Stmt
<1>2. PICK base \in Nat : Building(mir, base, globals, Looser, frames, visible)
  BY <1>1, ABuilding
<1>3. Stated(m, base) /\ LastVar(m) \in Produced(m)
  BY <1>1, <1>2, StatedStart, StatedRef
<1>4. Opcode[op] \in Ops
  BY DEF Opcode, Ops
<1> HIDE DEF m
<1>5. ValueArgs(Opcode[op], args, Produced(m), Left(mir.env, base, Looser))
  BY <1>3, StatedNats, ValueShapes
<1> HIDE DEF args
<1>6. Stated(f, base)
  BY <1>3, <1>4, <1>5, StatedInstr
<1> HIDE DEF f
<1> QED
  BY <1>1, <1>2, <1>6, PlainStep

\* The result is the variable that was created before the operands were read.
LEMMA StatedCompute ==
  ASSUME MirAssumption, NEW base, Building(mir, base, globals, Looser, frames, visible),
         NEW n \in InScope, NEW e \in Exprs, NEW op \in CompoundOps,
         LastVar(Eval(CreateVar(mir), e)) # 0
  PROVE  LET f == Compute(mir, n, e, op)
         IN  Stated(f, base) /\ mir.next \in Produced(f)
<1> DEFINE x == Left(mir.env, base, Looser)
           created == CreateVar(mir)
           right == Eval(created, e)
           left == Ref(right, n)
           args == <<V(LastVar(left)), V(LastVar(right))>>
           code == Opcode[op]
           L == Len(left.blocks)
           i == [op |-> code, args |-> args, res |-> mir.next]
           f == AddTo(left, L, i, left.next)
<1>1. Stated(created, base)
  BY StatedCreate
<1>2. /\ Work(mir, created, base, Looser, x) /\ Work(created, created, base, Looser, x)
      /\ created.next = mir.next + 1
      /\ Produced(created) = Produced(mir) /\ created.env = mir.env
      /\ Produced(mir) \subseteq 1..mir.next - 1 /\ mir.next \in Nat \ {0}
  <2>1. Work(mir, mir, base, Looser, x)
    BY DEF Building
  <2> HIDE DEF x
  <2>2. /\ Work(mir, created, base, Looser, x) /\ created.next = mir.next + 1
        /\ Produced(created) = Produced(mir) /\ created.env = mir.env
    BY <2>1, CreatingVar
  <2> HIDE DEF created
  <2>3. Work(created, created, base, Looser, x)
    BY <2>2, WorkItself
  <2>4. Produced(mir) \subseteq 1..mir.next - 1 /\ mir.next \in Nat \ {0}
    BY <2>1, WorkTypes
  <2> QED
    BY <2>2, <2>3, <2>4
<1>3. Stated(right, base) /\ LastVar(right) \in Produced(right)
  <2> HIDE DEF created
  <2> QED
    BY <1>1, StatedEval DEF created
<1>4. Work(created, right, base, Looser, x)
  <2> DEFINE names == InScope
  <2>1. \A p \in names : Usable(created.env, p, base, globals)
    BY <1>2, ScopeUsable DEF InScope
  <2>2. e \in ExprsOver(names) /\ globals \subseteq Looser
    BY DEF Exprs, Looser
  <2> HIDE DEF x, names, created
  <2>3. Evaluated(created, created, right, base, Looser, x)
    BY <1>2, <2>1, <2>2, EvalWork
  <2> QED
    BY <2>3 DEF Evaluated
<1> HIDE DEF created, right
<1>5. /\ Stated(left, base) /\ LastVar(left) \in Produced(left) /\ LastVar(right) \in Produced(left)
      /\ Work(created, left, base, Looser, x)
  <2>1. /\ Stated(left, base) /\ LastVar(left) \in Produced(left)
        /\ Produced(right) \subseteq Produced(left)
    BY <1>3, StatedRef
  <2>2. Usable(created.env, n, base, globals) /\ globals \subseteq Looser
    BY <1>2, ScopeUsable DEF InScope, Looser
  <2> HIDE DEF x
  <2>3. GivesValue(created, right, left, base, Looser, x)
    BY <1>4, <2>2, ReadingValue DEF Ref
  <2> QED
    BY <1>3, <2>1, <2>3 DEF GivesValue
<1> HIDE DEF left
<1>6. /\ Work(mir, left, base, Looser, x) /\ left \in Factory
      /\ 1 <= L /\ L \in 1..Len(left.blocks) /\ L \in Nat /\ Len(mir.blocks) <= L
      /\ left.next \in Nat \ {0} /\ mir.next + 1 <= left.next
  <2>1. Work(mir, left, base, Looser, x)
    BY <1>5 DEF Stated, Evaluated
  <2> HIDE DEF x
  <2>2. /\ left \in Factory /\ L \in 1..Len(left.blocks) /\ L \in Nat /\ Len(mir.blocks) <= L
        /\ Len(mir.blocks) \in Nat /\ 1 <= Len(mir.blocks)
    BY <2>1, WorkTypes
  <2>3. left.next \in Nat \ {0} /\ created.next <= left.next
    BY <1>5, WorkTypes
  <2> QED
    BY <1>2, <2>1, <2>2, <2>3
<1>7. mir.next \notin Produced(left)
  <2>1. \A v \in Produced(left) \ Produced(created) : created.next <= v
    BY <1>5 DEF Work, Grown
  <2>2. ~(created.next <= mir.next) /\ mir.next \notin Produced(created)
    BY <1>2
  <2> QED
    BY <2>1, <2>2
<1>8. code \in Ops
  BY DEF Opcode, Ops, CompoundOps
<1>9. ValueArgs(code, args, Produced(left), x)
  BY <1>5, StatedNats, ValueShapes
<1>10. Compute(mir, n, e, op) = f
  <2>1. Compute(mir, n, e, op) = SetResult(AddInstr(left, code, args), mir.next)
    BY DEF Compute, left, right, created
  <2>2. mir.next \in Nat /\ args \in Seq(Argument)
    BY <1>2, <1>9 DEF ValueArgs
  <2> HIDE DEF args, code, i
  <2>3. SetResult(AddInstr(left, code, args), mir.next)
          = AddTo(left, L, [op |-> code, args |-> args, res |-> mir.next], left.next)
    BY <1>6, <1>8, <2>2, ResultIsPut
  <2> QED
    BY <2>1, <2>3 DEF i
<1>11. i \in Instruction /\ i.res = mir.next /\ i.args = args /\ i.op = code
  <2>1. args \in Seq(Argument)
    BY <1>9 DEF ValueArgs
  <2> HIDE DEF args, code
  <2> QED
    BY <1>2, <1>8, <2>1 DEF Instruction
<1> HIDE DEF args, code, i, L, x
<1>12. Work(mir, f, base, Looser, x)
  <2>1. i.res # 0 => mir.next <= i.res /\ i.res < left.next /\ i.res \notin Produced(left)
    BY <1>2, <1>6, <1>7, <1>11
  <2>2. \A v : ArgReads(i.args, v) => \/ L = Len(left.blocks) /\ v \in Produced(left)
                                      \/ i.op = "CALL" /\ v = 0
                                      \/ i.op = "PHI" /\ x # {}
    BY <1>9, <1>11 DEF ValueArgs, MayRead, L
  <2>3. left.next \in Nat /\ left.next <= left.next
    BY <1>6
  <2> QED
    BY <1>6, <1>11, <2>1, <2>2, <2>3, WorkPut
<1>13. Produced(f) = Produced(left) \cup {mir.next} /\ SameEdges(left, f) /\ Len(f.blocks) = Len(left.blocks)
  <2>1. Produced(f) = Produced(left) \cup ({i.res} \ {0}) /\ MoreEdges(left, f, L, i.args)
    BY <1>6, <1>11, PutAdds DEF MoreEdges
  <2>2. SameEdges(left, f)
    BY <1>9, <1>11, <2>1, EdgesChained DEF ValueArgs
  <2>3. Len(f.blocks) = Len(left.blocks)
    <3>1. left.blocks \in Seq(Seq(Instruction)) /\ L \in 1..Len(left.blocks)
      BY <1>6 DEF Factory
    <3>2. f.blocks = [left.blocks EXCEPT ![L] = Append(@, i)]
      BY <1>6 DEF AddTo, Factory
    <3>3. Append(left.blocks[L], i) \in Seq(Instruction)
      BY <1>11, <3>1
    <3> QED
      BY <3>1, <3>2, <3>3, ExceptSeq
  <2> QED
    BY <1>2, <1>11, <2>1, <2>2, <2>3
<1> HIDE DEF f
<1>14. Evaluated(mir, left, f, base, Looser, x)
  BY <1>12, <1>13, AimedKept DEF Evaluated
<1>15. Stated(f, base)
  BY <1>5, <1>14, EvaluatedChained DEF Stated, x
<1> QED
  BY <1>10, <1>13, <1>15

LEMMA CompoundStep ==
  ASSUME MirAssumption, MirInv, NEW n, NEW e \in Exprs, NEW op \in CompoundOps,
         VisitCompound(n, e, op), Noted
  PROVE  MirInv'
<1> DEFINE right == Eval(CreateVar(mir), e)
           m == Compute(mir, n, e, op)
<1>1. /\ status = "function" /\ n \in InScope
      /\ WithValue(right, IF op = "remainder" THEN Emits(m) ELSE Updates(m, n, mir.next))
  BY DEF VisitCompound, Stmt
<1>2. PICK base \in Nat : Building(mir, base, globals, Looser, frames, visible)
  BY <1>1, ABuilding
<1>3. CASE LastVar(right) # 0
  <2>1. Stated(m, base) /\ mir.next \in Produced(m)
    BY <1>1, <1>2, <1>3, StatedCompute
  <2>2. Emits(m) \/ Updates(m, n, mir.next)
    BY <1>1, <1>3 DEF WithValue
  <2> HIDE DEF m, right
  <2> QED
    BY <1>1, <1>2, <2>1, <2>2, PlainStep, UpdatesStep
<1>4. CASE LastVar(right) = 0
  <2> HIDE DEF right
  <2> QED
    BY <1>1, <1>4, ThrowStep DEF WithValue
<1> QED
  BY <1>3, <1>4

\* Let, Var: the name is new in the innermost scope.
LEMMA BindingStep ==
  ASSUME MirAssumption, MirInv, NEW n, NEW e \in Exprs, VisitBinding(n, e), Noted
  PROVE  MirInv'
<1> DEFINE m == Eval(mir, e)
<1>1. /\ status = "function" /\ n \in Fresh
      /\ WithValue(m, IF CanBind(m, n)
                      THEN /\ mir' = VarBind(m, n, LastVar(m))
                           /\ visible' = [visible EXCEPT ![Len(visible)] = @ \cup {n}]
                           /\ Counted
                           /\ UNCHANGED <<globals, frames, status>>
                      ELSE Throw("not_inserted"))
  BY DEF VisitBinding, Stmt
<1>2. PICK base \in Nat : Building(mir, base, globals, Looser, frames, visible)
  BY <1>1, ABuilding
<1>3. Stated(m, base) /\ (LastVar(m) # 0 => LastVar(m) \in Produced(m))
  BY <1>2, StatedStart, StatedEval
<1>4. n \in Name
  BY <1>1 DEF Fresh, MirInv, MirAssumption
<1> HIDE DEF m
<1>5. CASE LastVar(m) = 0
  BY <1>1, <1>5, ThrowStep DEF WithValue
<1>6. CASE LastVar(m) # 0 /\ ~CanBind(m, n)
  BY <1>1, <1>6, ThrowStep DEF WithValue
<1>7. CASE LastVar(m) # 0 /\ CanBind(m, n)
  <2> DEFINE v == LastVar(m)
             f == VarBind(m, n, v)
             L == Len(visible)
             vis == [visible EXCEPT ![L] = @ \cup {n}]
             y == Left(mir.env, base, Looser)
  <2>1. /\ mir' = f /\ visible' = vis /\ globals' = globals /\ frames' = frames
        /\ status' = status
    BY <1>1, <1>7 DEF WithValue
  <2>2. /\ mir \in Factory /\ 1 <= Len(mir.blocks) /\ base \in Nat /\ base < Len(mir.env)
        /\ L \in Nat /\ Len(frames) \in Nat /\ L = Len(frames) + 2
        /\ \A i \in 1..L : visible[i] \subseteq Name
    BY <1>2, BuildingTypes
  <2>3. Work(mir, m, base, Looser, y) /\ v \in Produced(m)
    BY <1>3, <1>7 DEF Stated, Evaluated
  <2> HIDE DEF y, v, L
  <2>4. Len(m.env) = Len(mir.env)
    BY <2>3, WorkEnv
  <2>5. /\ Work(mir, f, base, Looser, y)
        /\ Len(f.blocks) = Len(m.blocks) /\ SameEdges(m, f)
        /\ Held(f.env, Len(mir.env), n)
    BY <1>4, <1>7, <2>2, <2>3, <2>4, Binding
  <2> HIDE DEF f
  <2>6. Building(f, base, globals, Looser, frames, visible)
    BY <1>2, <2>5, BuildingKept DEF y
  <2>7. Len(f.env) = Len(mir.env)
    BY <2>5, WorkEnv
  <2>10. Building(f, base, globals, Looser, frames, vis)
    BY <1>4, <2>5, <2>6, <2>7, BuildingNamed DEF L
  <2> HIDE DEF vis
  <2>11. Linked(f, frames)
    <3>1. f \in Factory
      BY <2>6, BuildingTypes
    <3>2. Extends(mir, f)
      BY <2>2, <2>5, GrownExtends DEF Work
    <3>3. Linked(mir, frames)
      BY <1>1 DEF MirInv
    <3>4. Aimed(f, Len(f.blocks))
      BY <1>3, <2>5, <3>3, AimedKept DEF Linked, Stated, Evaluated
    <3> QED
      BY <2>2, <3>1, <3>2, <3>3, <3>4, LinkedKept
  <2>12. base <= Len(f.env) /\ Sound(f, Left(f.env, base, Looser))
    <3>1. base <= Len(f.env)
      BY <2>10, BuildingTypes
    <3>2. Sound(f, Left(f.env, base, Looser))
      BY <2>10 DEF Building, Work
    <3> QED
      BY <3>1, <3>2
  <2>13. profile' \in Profiles /\ Loose' = Looser /\ Looser \subseteq Name
    BY <2>1, MirMore DEF MirInv, Noted, Loose, Looser
  <2> QED
    BY <1>1, <2>1, <2>2, <2>10, <2>11, <2>12, <2>13 DEF MirInv
<1> QED
  BY <1>5, <1>6, <1>7

-----------------------------------------------------------------------------
(* The module: its declarations and functions.                              *)

LEMMA DeclareStep ==
  ASSUME MirAssumption, MirInv, NEW n, DeclareGlobal(n), Noted
  PROVE  MirInv'
<1>1. /\ status = "module" /\ n \in Fresh /\ globals' = globals \cup {n}
      /\ visible' = [visible EXCEPT ![1] = @ \cup {n}]
      /\ mir' = mir /\ frames' = frames /\ status' = status
  BY DEF DeclareGlobal
<1>2. n \in Name /\ Loose' \subseteq Name /\ Looser \subseteq Loose' /\ profile' \in Profiles
  BY <1>1, MirMore DEF Fresh, MirInv, MirAssumption, Loose, Looser, Noted
<1>3. visible = <<globals>> /\ frames = <<>>
  BY <1>1 DEF MirInv
<1>4. visible' = <<globals'>>
  BY <1>1, <1>3
<1>5. PICK base \in Nat : base <= Len(mir.env) /\ Sound(mir, Left(mir.env, base, Looser))
  BY MirMore
<1>6. Sound(mir, Left(mir.env, base, Loose'))
  BY <1>2, <1>5, LeftMore
<1>7. base <= Len(mir'.env) /\ Sound(mir', Left(mir'.env, base, Loose'))
  BY <1>1, <1>5, <1>6
<1> QED
  BY <1>1, <1>2, <1>3, <1>4, <1>5, <1>7 DEF MirInv

\* The innermost scope is dropped.
LEMMA PoppedEnv ==
  ASSUME NEW e \in Seq(Env!Scope), NEW base \in Nat, base < Len(e)
  PROVE  LET f == Env!PopEnv(e)
         IN  /\ f \in Seq(Env!Scope) /\ Len(f) = Len(e) - 1 /\ base <= Len(f)
             /\ \A d \in 1..Len(f) : f[d] = e[d]
<1> DEFINE k == Len(e) - 1
           f == SubSeq(e, 1, k)
<1>1. Len(e) \in Nat /\ k \in Nat /\ base <= k /\ k + 1 = Len(e)
  OBVIOUS
<1>2. \A d \in 1..k : d \in 1..Len(e)
  BY <1>1
<1> HIDE DEF k
<1>3. f \in Seq(Env!Scope) /\ Len(f) = k /\ \A d \in 1..k : f[d] = e[d]
  BY <1>1, <1>2, SubSeqProperties
<1>4. Env!PopEnv(e) = f
  BY DEF Env!PopEnv, k
<1> HIDE DEF f
<1> QED
  BY <1>1, <1>3, <1>4 DEF k

LEMMA LeaveFunctionStep ==
  ASSUME MirInv, LeaveFunction, Noted
  PROVE  MirInv'
<1> DEFINE e == Env!PopEnv(mir.env)
           f == SetEnv(mir, e)
<1>1. /\ status = "function" /\ frames = <<>> /\ visible' = Front(visible) /\ status' = "module"
      /\ globals' = globals /\ frames' = frames
  BY DEF LeaveFunction
<1>2. mir' = f
  BY DEF LeaveFunction, PopEnv, SetEnv
<1>3. PICK base \in Nat : Building(mir, base, globals, Looser, frames, visible)
  BY <1>1, ABuilding
<1>4. /\ mir \in Factory /\ mir.env \in Seq(Env!Scope) /\ base < Len(mir.env)
      /\ Len(visible) = 2 /\ globals \subseteq Name /\ mir.next \in Nat
  <2>1. /\ mir \in Factory /\ mir.env \in Seq(Env!Scope) /\ base < Len(mir.env)
        /\ globals \subseteq Name /\ mir.next \in Nat /\ Len(visible) = Len(frames) + 2
    BY <1>3, BuildingTypes
  <2>2. Len(frames) = 0
    BY <1>1
  <2> QED
    BY <2>1, <2>2
<1>5. e \in Seq(Env!Scope) /\ base <= Len(e) /\ Len(e) \in Nat /\ \A d \in 1..Len(e) : e[d] = mir.env[d]
  BY <1>4, PoppedEnv
<1> HIDE DEF e
<1>6. f \in Factory /\ f.blocks = mir.blocks /\ f.params = mir.params /\ f.next = mir.next /\ f.env = e
  BY <1>4, <1>5, SetEnvFacts
<1> HIDE DEF f
<1>7. Left(f.env, base, Looser) = Left(mir.env, base, Looser)
  <2>1. \A d \in 1..base : d \in 1..Len(e)
    BY <1>5
  <2>2. \A d \in 1..base : e[d] = mir.env[d]
    BY <1>5, <2>1
  <2> QED
    BY <1>6, <2>2 DEF Left, Held
<1>8. Sound(f, Left(f.env, base, Looser))
  <2>1. Sound(mir, Left(mir.env, base, Looser))
    BY <1>3 DEF Building, Work
  <2>2. mir.next <= f.next
    BY <1>4, <1>6
  <2> QED
    BY <1>4, <1>6, <1>7, <2>1, <2>2, SameCode
<1>9. Front(visible) = <<globals>>
  <2>1. visible \in Seq(SUBSET Name) /\ visible[1] = globals
    BY <1>3 DEF Building
  <2>2. Front(visible) \in Seq(SUBSET Name) /\ Len(Front(visible)) = 1 /\ Front(visible)[1] = globals
    BY <1>4, <2>1 DEF Front
  <2> QED
    BY <2>2
<1>10. profile' \in Profiles /\ Loose' = Looser /\ Looser \subseteq Name
  BY <1>1, MirMore DEF MirInv, Noted, Loose, Looser
<1> QED
  BY <1>1, <1>2, <1>3, <1>4, <1>5, <1>6, <1>8, <1>9, <1>10, BuildingTypes DEF MirInv

\* The entry block of a function, with its parameters.
LEMMA StartWork ==
  ASSUME NEW f \in Factory, Len(f.blocks) = 1, Len(f.blocks[1]) = 0,
         \A v \in f.params : v # 0 /\ v < f.next,
         NEW base \in Nat, base <= Len(f.env),
         \A d \in 1..Len(f.env), k \in Name : base < d => ~Held(f.env, d, k),
         NEW ls, NEW x
  PROVE  /\ Work(f, f, base, ls, x)
         /\ Produced(f) = f.params
         /\ \A a, b : ~Edge(f, a, b)
<1>1. Slots(f) = {}
  <2>1. ASSUME NEW p \in Slots(f)
        PROVE  FALSE
    <3>1. p[1] \in 1..Len(f.blocks) /\ p[2] \in 1..Len(f.blocks[p[1]])
      BY SlotShape
    <3>2. p[1] = 1
      BY <3>1
    <3> QED
      BY <3>1, <3>2
  <2> QED
    BY <2>1
<1>2. Produced(f) = f.params
  BY <1>1 DEF Produced
<1>3. \A a, b : ~Edge(f, a, b)
  BY <1>1 DEF Edge
<1>4. Sound(f, x)
  BY <1>1 DEF Sound
<1>5. Grown(f, f)
  BY GrownFromItself
<1>6. Keeps(f.env, f.env, base, ls) /\ Live(f.env, base, Produced(f))
  BY DEF Keeps, Below, Live
<1> QED
  BY <1>2, <1>3, <1>4, <1>5, <1>6 DEF Work

\* The scope of a function on top of those that earlier ones have left behind.
LEMMA PushedEnv ==
  ASSUME NEW e \in Seq(Env!Scope)
  PROVE  LET f == Env!PushEnv(e)
         IN  /\ f \in Seq(Env!Scope) /\ Len(e) \in Nat /\ Len(f) = Len(e) + 1
             /\ \A d \in 1..Len(e) : f[d] = e[d]
             /\ \A n \in Name : ~Held(f, Len(e) + 1, n)
<1> DEFINE s == Env!EmptyScope
           f == Append(e, s)
<1>1. s \in Env!Scope /\ \A n \in Name : s[n] = None
  BY DEF Env!Scope, Env!EmptyScope
<1>2. Env!PushEnv(e) = f
  BY DEF Env!PushEnv
<1> HIDE DEF s
<1>3. f \in Seq(Env!Scope) /\ Len(e) \in Nat /\ Len(f) = Len(e) + 1
      /\ (\A d \in 1..Len(e) : f[d] = e[d]) /\ f[Len(e) + 1] = s
  BY <1>1
<1> HIDE DEF f
<1> QED
  BY <1>1, <1>2, <1>3 DEF Held

\* The blocks and parameters of the last function are dropped.
LEMMA Entered ==
  ASSUME NEW m \in Factory
  PROVE  LET entry == AddBlock([PushEnv(m) EXCEPT !.blocks = <<>>, !.params = {}])
             param == CreateVar([entry EXCEPT !.params = {entry.next}])
         IN  /\ entry \in Factory /\ param \in Factory
             /\ Len(entry.blocks) = 1 /\ Len(entry.blocks[1]) = 0 /\ param.blocks = entry.blocks
             /\ entry.params = {} /\ param.params = {m.next}
             /\ entry.next = m.next /\ param.next = m.next + 1
             /\ entry.env = Env!PushEnv(m.env) /\ param.env = entry.env
<1> DEFINE none == <<>>
           e == Env!PushEnv(m.env)
           pushed == PushEnv(m)
           cleared == [pushed EXCEPT !.blocks = none, !.params = {}]
           entry == AddBlock(cleared)
           held == [entry EXCEPT !.params = {entry.next}]
           n == held.next + 1
           param == CreateVar(held)
<1>1. e \in Seq(Env!Scope) /\ m.next \in Nat \ {0}
  BY PushedEnv DEF Factory
<1>2. pushed = SetEnv(m, e)
  BY DEF PushEnv, SetEnv
<1> HIDE DEF e, pushed
<1>3. pushed \in Factory /\ pushed.next = m.next /\ pushed.env = e
  BY <1>1, <1>2, SetEnvFacts
<1>4. none \in Seq(Seq(Instruction)) /\ Len(none) = 0
  OBVIOUS
<1> HIDE DEF none
<1>5. cleared \in Factory /\ cleared.blocks = none /\ cleared.params = {}
      /\ cleared.next = m.next /\ cleared.env = e
  BY <1>3, <1>4 DEF Factory
<1> HIDE DEF cleared
<1>6. /\ entry \in Factory /\ Len(entry.blocks) = 1 /\ entry.blocks[1] = <<>>
      /\ entry.params = {} /\ entry.next = m.next /\ entry.env = e
  <2>1. /\ entry \in Factory /\ Len(entry.blocks) = Len(cleared.blocks) + 1
        /\ entry.params = cleared.params /\ entry.next = cleared.next /\ entry.env = cleared.env
        /\ entry.blocks[Len(cleared.blocks) + 1] = <<>>
    BY <1>5, BlockFacts
  <2>2. Len(cleared.blocks) = 0 /\ Len(cleared.blocks) + 1 = 1
    BY <1>4, <1>5
  <2> HIDE DEF entry
  <2> QED
    BY <1>5, <2>1, <2>2
<1>7. Len(entry.blocks[1]) = 0
  BY <1>6
<1> HIDE DEF entry
<1>8. /\ held \in Factory /\ held.blocks = entry.blocks /\ held.params = {entry.next}
      /\ held.next = m.next /\ held.env = e
  BY <1>1, <1>6 DEF Factory
<1> HIDE DEF held
<1>9. n \in Nat \ {0} /\ n = m.next + 1
  BY <1>1, <1>8
<1>10. param = [held EXCEPT !.next = n]
  BY DEF CreateVar
<1> HIDE DEF n, param
<1>11. /\ param \in Factory /\ param.blocks = held.blocks /\ param.params = held.params
       /\ param.next = n /\ param.env = held.env
  BY <1>8, <1>9, <1>10 DEF Factory
<1>12. entry = AddBlock([PushEnv(m) EXCEPT !.blocks = <<>>, !.params = {}])
  BY DEF entry, cleared, none, pushed
<1>13. param = CreateVar([entry EXCEPT !.params = {entry.next}])
  BY DEF param, held
<1> QED
  BY <1>6, <1>7, <1>8, <1>9, <1>11, <1>12, <1>13 DEF e

\* A scope or a visit on top of the others.
LEMMA Appended ==
  ASSUME NEW T, NEW q \in Seq(T), NEW t \in T
  PROVE  LET r == Append(q, t)
         IN  /\ r \in Seq(T) /\ Len(q) \in Nat /\ Len(r) = Len(q) + 1 /\ r[Len(q) + 1] = t
             /\ \A i \in 1..Len(q) : r[i] = q[i]
OBVIOUS

LEMMA EnterFunctionStep ==
  ASSUME MirAssumption, MirInv, NEW p \in Fresh \cup {None}, EnterFunction(p), Noted
  PROVE  MirInv'
<1> DEFINE e == Env!PushEnv(mir.env)
           base == Len(mir.env)
           x == Left(e, base, Looser)
           entry == AddBlock([PushEnv(mir) EXCEPT !.blocks = <<>>, !.params = {}])
           param == CreateVar([entry EXCEPT !.params = {entry.next}])
           s == {p} \ {None}
<1>1. /\ status = "module" /\ status' = "function"
      /\ mir' = IF p = None THEN entry ELSE VarBind(param, p, entry.next)
      /\ visible' = Append(visible, s)
      /\ globals' = globals /\ frames' = frames
  BY DEF EnterFunction
<1>2. /\ frames = <<>> /\ visible = <<globals>>
      /\ globals \subseteq Looser /\ Looser \subseteq Name
      /\ profile' \in Profiles /\ mir \in Factory /\ Loose' = Looser
  BY <1>1, MirMore DEF MirInv, Sound, Loose, Looser, Noted
<1>3. mir.next \in Nat \ {0} /\ mir.env \in Seq(Env!Scope)
  BY <1>2 DEF Factory
<1>4. /\ e \in Seq(Env!Scope) /\ base \in Nat /\ Len(e) = base + 1
      /\ \A k \in Name : ~Held(e, base + 1, k)
  BY <1>3, PushedEnv
<1>5. /\ entry \in Factory /\ param \in Factory
      /\ Len(entry.blocks) = 1 /\ Len(entry.blocks[1]) = 0 /\ param.blocks = entry.blocks
      /\ entry.params = {} /\ param.params = {mir.next}
      /\ entry.next = mir.next /\ param.next = mir.next + 1
      /\ entry.env = e /\ param.env = e
  BY <1>2, Entered
<1> HIDE DEF entry, e, param, base
<1>6. ASSUME NEW f \in {entry, param}
      PROVE  Work(f, f, base, Looser, x) /\ Produced(f) = f.params /\ \A a, b : ~Edge(f, a, b)
  <2>1. /\ f \in Factory /\ Len(f.blocks) = 1 /\ Len(f.blocks[1]) = 0 /\ base <= Len(f.env)
        /\ base \in Nat
    BY <1>4, <1>5
  <2>2. \A v \in f.params : v # 0 /\ v < f.next
    BY <1>3, <1>5
  <2>3. ASSUME NEW d \in 1..Len(f.env), NEW k \in Name, base < d
        PROVE  ~Held(f.env, d, k)
    <3>1. d = base + 1
      BY <1>4, <1>5, <2>3
    <3> QED
      BY <1>4, <1>5, <3>1
  <2> HIDE DEF x
  <2> QED
    BY ONLY <2>1, <2>2, <2>3, StartWork
<1>7. s \subseteq Name
  BY DEF Fresh, MirInv, MirAssumption
<1> HIDE DEF s
<1>8. visible' \in Seq(SUBSET Name) /\ Len(visible') = 2 /\ visible'[1] = globals /\ visible'[2] = s
  <2> DEFINE vs == Append(visible, s)
  <2>1. visible \in Seq(SUBSET Name) /\ Len(visible) = 1 /\ visible[1] = globals
    BY <1>2
  <2>2. s \in SUBSET Name
    BY <1>7
  <2>3. /\ vs \in Seq(SUBSET Name) /\ Len(vs) = Len(visible) + 1 /\ vs[Len(visible) + 1] = s
        /\ \A i \in 1..Len(visible) : vs[i] = visible[i]
    <3> DEFINE T == SUBSET Name
    <3>1. visible \in Seq(T) /\ s \in T
      BY <2>1, <2>2
    <3> HIDE DEF T
    <3>2. /\ vs \in Seq(T) /\ Len(vs) = Len(visible) + 1 /\ vs[Len(visible) + 1] = s
          /\ \A i \in 1..Len(visible) : vs[i] = visible[i]
      BY ONLY <3>1, Appended
    <3> QED
      BY <3>2 DEF T
  <2> HIDE DEF vs
  <2>4. Len(vs) = 2 /\ vs[2] = s /\ vs[1] = globals
    BY <2>1, <2>3
  <2> QED
    BY <1>1, <2>3, <2>4 DEF vs
<1>9. frames \in Seq(Frame) /\ Len(frames) = 0
  BY <1>2
<1>10. ASSUME NEW f \in {entry, param}, NEW g, Work(f, g, base, Looser, x), SameEdges(f, g),
              Len(g.blocks) = 1, mir' = g, \A q \in s : Held(g.env, base + 1, q)
       PROVE  MirInv'
  <2>1. Work(g, g, base, Looser, x)
    BY <1>10, WorkItself
  <2>2. Len(g.env) = base + 1 /\ Left(g.env, base, Looser) = x
    <3>1. Keeps(f.env, g.env, base, Looser) /\ Len(g.env) = Len(f.env)
      BY <1>10, WorkEnv
    <3>2. f.env = e
      BY <1>5
    <3> QED
      BY <1>2, <1>4, <3>1, <3>2, LeftKept DEF Keeps
  <2>3. Building(g, base, globals, Looser, frames, visible')
    <3>1. base + Len(visible') <= Len(g.env) + 1
      BY <1>4, <1>8, <2>2
    <3>2. ASSUME NEW i \in 2..2, NEW q \in visible'[i] \ globals
          PROVE  \E d \in 1..Len(g.env) : base < d /\ d + (2 - i) <= Len(g.env) /\ Held(g.env, d, q)
      <4>1. i = 2 /\ q \in s
        BY <1>8
      <4>2. base + 1 \in 1..Len(g.env) /\ base < base + 1 /\ base + 1 + (2 - 2) <= Len(g.env)
        BY <1>4, <2>2
      <4> QED
        BY <1>10, <4>1, <4>2
    <3>3. Bound(g.env, base, globals, visible', Len(visible'))
      BY <1>8, <3>1, <3>2 DEF Bound
    <3>4. \A k \in 1..Len(frames) : Suspended(g, frames[k], base, globals, Looser, visible', k + 1)
      BY <1>9
    <3>5. Len(visible') = Len(frames) + 2
      BY <1>8, <1>9
    <3> QED
      BY <1>2, <1>8, <1>9, <2>1, <2>2, <3>3, <3>4, <3>5 DEF Building
  <2>4. \A a, b : ~Edge(g, a, b)
    BY <1>6, <1>10 DEF SameEdges
  <2>5. Linked(g, frames)
    <3>1. \A b \in 1..Len(g.blocks) : b = 1
      BY <1>10
    <3>2. Reaches(g, Roots(frames, Len(frames)), 1)
      BY DEF Reaches, Roots
    <3>3. \A k \in 1..Len(frames) : FALSE
      BY <1>9
    <3> QED
      BY <2>4, <3>1, <3>2, <3>3 DEF Linked, Aimed
  <2>6. base \in Nat /\ base <= Len(g.env)
    BY <1>4, <2>2
  <2>7. Sound(g, Left(g.env, base, Looser))
    BY <2>3 DEF Building, Work
  <2> QED
    BY <1>1, <1>2, <1>10, <2>3, <2>5, <2>6, <2>7 DEF MirInv
<1>11. CASE p = None
  <2>1. mir' = entry /\ s = {}
    BY <1>1, <1>11 DEF s
  <2>2. SameEdges(entry, entry)
    BY EdgesChained
  <2> QED
    BY <1>5, <1>6, <1>10, <2>1, <2>2
<1>12. CASE p # None
  <2> DEFINE g == VarBind(param, p, mir.next)
  <2>1. p \in Name /\ s = {p}
    BY <1>7, <1>12 DEF s
  <2>2. mir' = g /\ mir.next \in Produced(param)
    BY <1>1, <1>5, <1>6, <1>12
  <2>3. Work(param, param, base, Looser, x) /\ base < Len(param.env)
    BY <1>4, <1>5, <1>6
  <2>4. CanBind(param, p)
    BY <1>4, <1>5, <2>1 DEF CanBind, Env!InCurrent, Held
  <2> HIDE DEF x
  <2>5. /\ Work(param, g, base, Looser, x) /\ Len(g.blocks) = Len(param.blocks)
        /\ SameEdges(param, g) /\ Held(g.env, Len(param.env), p)
    BY ONLY MirAssumption, <2>1, <2>2, <2>3, <2>4, Binding
  <2> HIDE DEF g
  <2>6. Len(g.blocks) = 1 /\ \A q \in s : Held(g.env, base + 1, q)
    BY <1>4, <1>5, <2>1, <2>5
  <2> QED
    BY <1>10, <2>2, <2>5, <2>6 DEF x
<1> QED
  BY <1>11, <1>12

-----------------------------------------------------------------------------
(* Statements with a body put instructions and labels into older blocks.    *)

\* The code m, and f which has got more, also in the middle.
Wider(m, f, base, ls, x) ==
  /\ Work(f, f, base, ls, x)
  /\ f.env = m.env
  /\ Slots(m) \subseteq Slots(f)
  /\ Produced(m) \subseteq Produced(f)
NewEdge(m, f, a, c) == \A b, d : Edge(f, b, d) <=> Edge(m, b, d) \/ (b = a /\ d = c)

LEMMA WorkOfSound ==
  ASSUME NEW m \in Factory, 1 <= Len(m.blocks), NEW base \in Nat, base <= Len(m.env),
         NEW x, Sound(m, x), Live(m.env, base, Produced(m)), NEW ls
  PROVE  Work(m, m, base, ls, x)
<1>1. Grown(m, m)
  BY GrownFromItself
<1>2. Keeps(m.env, m.env, base, ls)
  BY DEF Keeps, Below
<1> QED
  BY <1>1, <1>2 DEF Work

LEMMA WiderChained ==
  ASSUME NEW m, NEW f, NEW g, NEW base, NEW ls, NEW x,
         Wider(m, f, base, ls, x), Wider(f, g, base, ls, x)
  PROVE  Wider(m, g, base, ls, x)
BY DEF Wider

LEMMA BlockWork ==
  ASSUME NEW m, NEW base, NEW ls, NEW x, Work(m, m, base, ls, x)
  PROVE  LET f == AddBlock(m)
         IN  /\ Wider(m, f, base, ls, x) /\ SameEdges(m, f)
             /\ Len(f.blocks) = Len(m.blocks) + 1
<1> DEFINE f == AddBlock(m)
<1>1. m \in Factory /\ Len(m.blocks) \in Nat /\ 1 <= Len(m.blocks)
  BY WorkTypes
<1>2. base \in Nat /\ base <= Len(m.env) /\ Live(m.env, base, Produced(m)) /\ Sound(m, x)
  BY DEF Work
<1>3. /\ f \in Factory
      /\ f.params = m.params /\ f.env = m.env /\ f.next = m.next
      /\ Len(f.blocks) = Len(m.blocks) + 1
      /\ Slots(f) = Slots(m)
      /\ \A p \in Slots(m) : Slot(f, p) = Slot(m, p)
  BY <1>1, BlockFacts
<1> HIDE DEF f
<1>4. Produced(f) = Produced(m)
  BY <1>3 DEF Produced
<1>5. SameEdges(m, f)
  BY <1>3 DEF Edge, SameEdges
<1>6. Sound(f, x)
  BY <1>2, <1>3 DEF Sound
<1>7. 1 <= Len(f.blocks)
  BY <1>1, <1>3
<1>8. Work(f, f, base, ls, x)
  BY <1>2, <1>3, <1>4, <1>6, <1>7, WorkOfSound
<1> QED
  BY <1>3, <1>4, <1>5, <1>8 DEF Wider, f

\* A label at the end of the operands.
LEMMA LabelLast ==
  ASSUME NEW args \in Seq(Argument), NEW t \in Nat
  PROVE  /\ \A v : ArgReads(Append(args, Lab(t)), v) <=> ArgReads(args, v)
         /\ \A c : ArgNames(Append(args, Lab(t)), c) <=> ArgNames(args, c) \/ c = t
<1> DEFINE a == Lab(t)
           all == Append(args, a)
           n == Len(args)
<1>1. a \in Argument /\ (\A v : ~IsRead(a, v)) /\ (\A c : IsLabel(a, c) <=> c = t)
  BY OperandShapes, OperandReads, OperandLabels
<1> HIDE DEF a
<1>2. /\ all \in Seq(Argument) /\ n \in Nat /\ Len(all) = n + 1 /\ all[n + 1] = a
      /\ \A i \in 1..n : all[i] = args[i]
  BY <1>1, Appended
<1>3. DOMAIN all = 1..n + 1 /\ DOMAIN args = 1..n
  BY <1>2
<1> HIDE DEF all, n
<1>4. \A k : k \in 1..n + 1 <=> k \in 1..n \/ k = n + 1
  BY <1>2
<1>5. \A v : ArgReads(all, v) <=> ArgReads(args, v)
  BY <1>1, <1>2, <1>3, <1>4 DEF ArgReads
<1>6. \A c : ArgNames(all, c) <=> ArgNames(args, c) \/ c = t
  BY <1>1, <1>2, <1>3, <1>4 DEF ArgNames
<1> QED
  BY <1>5, <1>6 DEF all, a

LEMMA LabelWork ==
  ASSUME NEW m, NEW base, NEW ls, NEW x, Work(m, m, base, ls, x),
         NEW p \in Slots(m), NEW t \in Nat
  PROVE  LET f == AddOperand(m, p, Lab(t))
         IN  /\ Wider(m, f, base, ls, x) /\ NewEdge(m, f, p[1], t)
             /\ Len(f.blocks) = Len(m.blocks)
<1> DEFINE a == Lab(t)
           f == AddOperand(m, p, a)
<1>1. m \in Factory /\ Len(m.blocks) \in Nat /\ 1 <= Len(m.blocks)
  BY WorkTypes
<1>2. base \in Nat /\ base <= Len(m.env) /\ Live(m.env, base, Produced(m)) /\ Sound(m, x)
  BY DEF Work
<1>3. a \in Argument
  BY OperandShapes
<1>4. /\ f \in Factory
      /\ f.params = m.params /\ f.env = m.env /\ f.next = m.next
      /\ Len(f.blocks) = Len(m.blocks)
      /\ Slots(f) = Slots(m)
      /\ \A q \in Slots(m) :
           Slot(f, q) = IF q = p THEN [Slot(m, p) EXCEPT !.args = Append(@, a)] ELSE Slot(m, q)
  BY <1>1, <1>3, OperandFacts
<1> HIDE DEF f
<1>5. \A q \in Slots(m) : Slot(m, q) \in Instruction
  BY <1>1, SlotShape
<1>6. /\ Slot(f, p).op = Slot(m, p).op /\ Slot(f, p).res = Slot(m, p).res
      /\ Slot(f, p).args = Append(Slot(m, p).args, a)
  BY <1>4, <1>5 DEF Instruction
<1>7. /\ \A v : ArgReads(Slot(f, p).args, v) <=> ArgReads(Slot(m, p).args, v)
      /\ \A c : ArgNames(Slot(f, p).args, c) <=> ArgNames(Slot(m, p).args, c) \/ c = t
  BY <1>5, <1>6, LabelLast DEF Instruction
<1> HIDE DEF a
<1>8. \A q \in Slots(m) : /\ Slot(f, q).op = Slot(m, q).op /\ Slot(f, q).res = Slot(m, q).res
                          /\ \A v : ArgReads(Slot(f, q).args, v) <=> ArgReads(Slot(m, q).args, v)
  BY <1>4, <1>6, <1>7
<1>9. \A q \in Slots(m) : \A c :
        ArgNames(Slot(f, q).args, c) <=> ArgNames(Slot(m, q).args, c) \/ (q = p /\ c = t)
  BY <1>4, <1>7
<1>10. Produced(f) = Produced(m)
  BY <1>4, <1>8 DEF Produced
<1>11. NewEdge(m, f, p[1], t)
  BY <1>4, <1>9 DEF NewEdge, Edge
<1>12. Sound(f, x)
  <2>1. \A q \in Slots(f) : \A v :
          ArgReads(Slot(f, q).args, v) =>
            \/ v # 0 /\ (v \in f.params \/ \E r \in Slots(f) : Earlier(r, q) /\ Slot(f, r).res = v)
            \/ Slot(f, q).op = "CALL" /\ v = 0
            \/ Slot(f, q).op = "PHI" /\ x # {}
    <3>1. ASSUME NEW q \in Slots(m), NEW v, ArgReads(Slot(m, q).args, v)
          PROVE  \/ v # 0 /\ (v \in m.params \/ \E r \in Slots(m) : Earlier(r, q) /\ Slot(m, r).res = v)
                 \/ Slot(m, q).op = "CALL" /\ v = 0
                 \/ Slot(m, q).op = "PHI" /\ x # {}
      BY <1>2, <3>1, Zenon DEF Sound
    <3>2. ASSUME NEW q \in Slots(m), NEW v, ArgReads(Slot(f, q).args, v)
          PROVE  \/ v # 0 /\ (v \in f.params \/ \E r \in Slots(f) : Earlier(r, q) /\ Slot(f, r).res = v)
                 \/ Slot(f, q).op = "CALL" /\ v = 0
                 \/ Slot(f, q).op = "PHI" /\ x # {}
      <4>1. ArgReads(Slot(m, q).args, v) /\ Slot(f, q).op = Slot(m, q).op
        BY <1>8, <3>2
      <4>2. \A r \in Slots(m) : r \in Slots(f) /\ Slot(f, r).res = Slot(m, r).res
        BY <1>4, <1>8
      <4>3. f.params = m.params
        BY <1>4
      <4> QED
        BY ONLY <3>1, <4>1, <4>2, <4>3
    <3> QED
      BY <1>4, <3>2
  <2>2. \A q, r \in Slots(f) : Slot(f, q).res # 0 /\ Slot(f, r).res = Slot(f, q).res => q = r
    BY <1>2, <1>4, <1>8 DEF Sound
  <2>3. \A q \in Slots(f) :
          Slot(f, q).res < f.next /\ (Slot(f, q).res # 0 => Slot(f, q).res \notin f.params)
    BY <1>2, <1>4, <1>8 DEF Sound
  <2>4. \A v \in f.params : v # 0 /\ v < f.next
    BY <1>2, <1>4 DEF Sound
  <2> QED
    BY <1>4, <2>1, <2>2, <2>3, <2>4 DEF Sound
<1>13. Work(f, f, base, ls, x)
  BY <1>1, <1>2, <1>4, <1>10, <1>12, WorkOfSound
<1> QED
  BY <1>4, <1>10, <1>11, <1>13 DEF Wider, f, a

LEMMA PutWider ==
  ASSUME NEW m \in Factory, NEW b \in 1..Len(m.blocks), NEW i \in Instruction,
         NEW n \in Nat \ {0}
  PROVE  /\ AddTo(m, b, i, n) \in Factory /\ AddTo(m, b, i, n).env = m.env
         /\ Len(AddTo(m, b, i, n).blocks) = Len(m.blocks)
         /\ Slots(m) \subseteq Slots(AddTo(m, b, i, n))
<1> DEFINE f == AddTo(m, b, i, n)
           new == <<b, Len(m.blocks[b]) + 1>>
<1>1. /\ f \in Factory
      /\ f.params = m.params /\ f.next = n
      /\ Slots(f) = Slots(m) \cup {new}
      /\ new \notin Slots(m)
      /\ \A p \in Slots(m) : Slot(f, p) = Slot(m, p)
      /\ Slot(f, new) = i
  BY PutFacts
<1>2. f.env = m.env /\ f.blocks = [m.blocks EXCEPT ![b] = Append(@, i)]
  BY DEF AddTo, Factory
<1>3. m.blocks \in Seq(Seq(Instruction))
  BY DEF Factory
<1>4. Append(m.blocks[b], i) \in Seq(Instruction)
  BY <1>3
<1>5. Len(f.blocks) = Len(m.blocks)
  BY <1>2, <1>3, <1>4, ExceptSeq
<1> HIDE DEF f, new
<1>6. Slots(m) \subseteq Slots(f)
  BY <1>1
<1> QED
  BY <1>1, <1>2, <1>5, <1>6 DEF f

LEMMA JumpWork ==
  ASSUME NEW m, NEW base, NEW ls, NEW x, Work(m, m, base, ls, x),
         NEW b \in 1..Len(m.blocks), NEW t \in Nat
  PROVE  LET f == InsertJump(m, b, t)
         IN  /\ Wider(m, f, base, ls, x) /\ NewEdge(m, f, b, t)
             /\ Len(f.blocks) = Len(m.blocks)
<1> DEFINE args == <<Lab(t)>>
           i == Instr("JUMP", args)
           f == AddTo(m, b, i, m.next)
<1>1. m \in Factory /\ Len(m.blocks) \in Nat /\ 1 <= Len(m.blocks) /\ m.next \in Nat \ {0}
  BY WorkTypes
<1>2. base \in Nat /\ base <= Len(m.env) /\ Live(m.env, base, Produced(m)) /\ Sound(m, x)
  BY DEF Work
<1>3. args \in Seq(Argument)
  BY OperandShapes
<1>4. (\A v : ~ArgReads(args, v)) /\ \A c : ArgNames(args, c) <=> c = t
  BY Args, OperandReads, OperandLabels
<1>5. InsertJump(m, b, t) = f
  BY <1>1, InsertIsPut DEF InsertJump
<1> HIDE DEF args
<1>6. i \in Instruction /\ i.res = 0 /\ i.args = args /\ i.op = "JUMP"
  BY <1>3 DEF Instruction, Instr, Ops
<1> HIDE DEF i
<1>7. m.next <= m.next
  BY <1>1
<1>8. Sound(f, x)
  <2>1. \A v : ~ArgReads(i.args, v)
    BY <1>4, <1>6
  <2> QED
    BY <1>1, <1>2, <1>6, <1>7, <2>1, PutSound
<1>9. /\ Produced(f) = Produced(m) \cup ({i.res} \ {0})
      /\ \A a, c : Edge(f, a, c) <=> Edge(m, a, c) \/ (a = b /\ ArgNames(i.args, c))
  BY <1>1, <1>6, PutAdds
<1>10. /\ f \in Factory /\ f.env = m.env
       /\ Len(f.blocks) = Len(m.blocks)
       /\ Slots(m) \subseteq Slots(f)
  BY <1>1, <1>6, PutWider
<1> HIDE DEF f
<1>11. Produced(f) = Produced(m) /\ NewEdge(m, f, b, t)
  BY <1>4, <1>6, <1>9 DEF NewEdge
<1>12. Work(f, f, base, ls, x)
  BY <1>1, <1>2, <1>8, <1>10, <1>11, WorkOfSound
<1> QED
  BY <1>5, <1>10, <1>11, <1>12 DEF Wider

-----------------------------------------------------------------------------
(* Visits are suspended and resumed.                                        *)

\* All but the innermost of the scopes or visits.
LEMMA FrontFacts ==
  ASSUME NEW T, NEW q \in Seq(T), q # <<>>
  PROVE  /\ Front(q) \in Seq(T) /\ Len(Front(q)) = Len(q) - 1
         /\ Len(q) \in Nat /\ 1 <= Len(q)
         /\ \A i \in 1..Len(q) - 1 : Front(q)[i] = q[i]
         /\ Last(q) = q[Len(q)] /\ Last(q) \in T
<1> DEFINE k == Len(q) - 1
           f == SubSeq(q, 1, k)
<1>1. Len(q) \in Nat /\ 1 <= Len(q)
  BY EmptySeq, LenProperties
<1>2. k \in Nat /\ k + 1 = Len(q)
  BY <1>1
<1>3. \A i \in 1..k : i \in 1..Len(q)
  BY <1>1, <1>2
<1> HIDE DEF k
<1>4. f \in Seq(T) /\ Len(f) = k /\ \A i \in 1..k : f[i] = q[i]
  BY <1>2, <1>3, SubSeqProperties
<1>5. Front(q) = f
  BY DEF Front, k
<1>6. Last(q) = q[Len(q)] /\ Last(q) \in T
  BY <1>1 DEF Last
<1> HIDE DEF f
<1> QED
  BY <1>1, <1>4, <1>5, <1>6 DEF k

LEMMA BuildingGrown ==
  ASSUME NEW m, NEW base, NEW gs, NEW ls, NEW fs, NEW vis, Building(m, base, gs, ls, fs, vis),
         NEW f, Wider(m, f, base, ls, Left(m.env, base, ls)), Len(m.blocks) <= Len(f.blocks)
  PROVE  Building(f, base, gs, ls, fs, vis)
<1>1. m \in Factory /\ Len(fs) \in Nat /\ Len(vis) = Len(fs) + 2
  BY BuildingTypes
<1>2. Work(f, f, base, ls, Left(f.env, base, ls)) /\ f.env = m.env
  BY DEF Wider
<1>3. f \in Factory
  BY <1>2, WorkTypes
<1>4. Evolves(m, f, base, ls)
  BY <1>2 DEF Evolves, Below, Wider
<1>5. \A k \in 1..Len(fs) : Suspended(f, fs[k], base, gs, ls, vis, k + 1)
  <2>1. \A k \in 1..Len(fs) : Suspended(m, fs[k], base, gs, ls, vis, k + 1)
    BY DEF Building
  <2> QED
    BY <1>1, <1>3, <1>4, <2>1, SuspendedKept
<1> QED
  BY <1>2, <1>5 DEF Building

\* The environment of a statement is that of the statement around it and more.
LEMMA SavedHere ==
  ASSUME NEW m, NEW base, NEW gs, NEW ls, NEW fs, NEW vis, Building(m, base, gs, ls, fs, vis)
  PROVE  /\ Saved(m, m.env, base, gs, ls, vis, Len(vis))
         /\ Saved(m, m.env, base, gs, ls, vis, Len(vis) - 1)
         /\ Saved(m, Env!PopEnv(m.env), base, gs, ls, vis, Len(vis) - 1)
<1> DEFINE L == Len(vis)
           e == m.env
           q == Env!PopEnv(e)
<1>1. /\ e \in Seq(Env!Scope) /\ Len(e) \in Nat /\ base \in Nat /\ base <= Len(e) /\ base < Len(e)
      /\ Live(e, base, Produced(m)) /\ L \in Nat /\ 2 <= L
      /\ Bound(e, base, gs, vis, L)
  <2>1. Len(fs) \in Nat /\ L = Len(fs) + 2 /\ L \in Nat
    BY BuildingTypes
  <2>2. 2 <= L
    BY <2>1
  <2> QED
    BY <2>1, <2>2, BuildingTypes, BuildingParts
<1>2. q \in Seq(Env!Scope) /\ Len(q) = Len(e) - 1 /\ base <= Len(q) /\ \A d \in 1..Len(q) : q[d] = e[d]
  BY <1>1, PoppedEnv
<1> HIDE DEF L, e, q
<1>3. Below(e, e, base, ls)
  BY DEF Below
<1>4. Below(e, q, base, ls)
  <2>1. \A d \in 1..base : d \in 1..Len(q)
    BY <1>1, <1>2
  <2> QED
    BY <1>2, <2>1 DEF Below, Held
<1>5. Live(q, base, Produced(m))
  <2>1. \A d \in 1..Len(q) : d \in 1..Len(e) /\ q[d] = e[d]
    BY <1>1, <1>2
  <2> QED
    BY <1>1, <2>1 DEF Live, Held
<1>6. ASSUME NEW i \in 2..L - 1, NEW n \in vis[i] \ gs
      PROVE  \E d \in 1..Len(q) : /\ base < d /\ d + (L - 1 - i) <= Len(q) /\ Held(q, d, n)
                                  /\ d \in 1..Len(e) /\ d + (L - 1 - i) <= Len(e) /\ Held(e, d, n)
  <2>1. i \in 2..L
    BY <1>1
  <2>2. PICK d \in 1..Len(e) : base < d /\ d + (L - i) <= Len(e) /\ Held(e, d, n)
    BY <1>1, <2>1 DEF Bound
  <2>3. d \in 1..Len(q) /\ d + (L - 1 - i) <= Len(q) /\ d + (L - 1 - i) <= Len(e)
    BY <1>1, <1>2, <2>2
  <2>4. Held(q, d, n)
    BY <1>2, <2>2, <2>3 DEF Held
  <2> QED
    BY <2>2, <2>3, <2>4
<1>7. base + (L - 1) <= Len(e) + 1 /\ base + (L - 1) <= Len(q) + 1
  <2>1. base + L <= Len(e) + 1
    BY <1>1 DEF Bound
  <2> QED
    BY <1>1, <1>2, <2>1
<1>8. Bound(q, base, gs, vis, L - 1) /\ Bound(e, base, gs, vis, L - 1)
  BY <1>6, <1>7 DEF Bound
<1>9. Saved(m, e, base, gs, ls, vis, L) /\ Saved(m, e, base, gs, ls, vis, L - 1) /\ Saved(m, q, base, gs, ls, vis, L - 1)
  BY <1>1, <1>2, <1>3, <1>4, <1>5, <1>8 DEF Saved, e
<1> QED
  BY <1>9 DEF L, e, q

\* A visit is suspended at the start of a body.
LEMMA BuildingPushed ==
  ASSUME NEW m, NEW base, NEW gs, NEW ls, NEW fs, NEW vis, Building(m, base, gs, ls, fs, vis),
         NEW fr \in Frame, Suspended(m, fr, base, gs, ls, vis, Len(vis))
  PROVE  /\ Building(PushEnv(m), base, gs, ls, Append(fs, fr), Append(vis, {}))
         /\ PushEnv(m).blocks = m.blocks
<1> DEFINE e == Env!PushEnv(m.env)
           f == SetEnv(m, e)
           T == SUBSET Name
           none == {}
           more == Append(vis, none)
           deep == Append(fs, fr)
           L == Len(vis)
           x == Left(m.env, base, ls)
<1>1. /\ m \in Factory /\ m.env \in Seq(Env!Scope) /\ Len(m.env) \in Nat
      /\ base \in Nat /\ base <= Len(m.env) /\ Live(m.env, base, Produced(m))
      /\ L \in Nat /\ Len(fs) \in Nat /\ L = Len(fs) + 2 /\ Len(m.blocks) \in Nat
  BY BuildingTypes
<1>2. /\ vis \in Seq(T) /\ vis[1] = gs /\ fs \in Seq(Frame)
      /\ Work(m, m, base, ls, x)
      /\ Bound(m.env, base, gs, vis, L)
      /\ \A k \in 1..Len(fs) : Suspended(m, fs[k], base, gs, ls, vis, k + 1)
  BY DEF Building
<1>3. /\ e \in Seq(Env!Scope) /\ Len(e) = Len(m.env) + 1
      /\ \A d \in 1..Len(m.env) : e[d] = m.env[d]
      /\ \A n \in Name : ~Held(e, Len(m.env) + 1, n)
  BY <1>1, PushedEnv
<1>4. PushEnv(m) = f
  BY DEF PushEnv, SetEnv
<1> HIDE DEF e
<1>5. base <= Len(e) /\ \A d \in 1..base : d \in 1..Len(m.env)
  BY <1>1, <1>3
<1>6. Below(m.env, e, base, ls)
  BY <1>3, <1>5 DEF Below, Held
<1>7. Live(e, base, Produced(m))
  <2>1. ASSUME NEW d \in 1..Len(e), NEW n \in Name, base < d, Held(e, d, n)
        PROVE  e[d][n].var \in Produced(m)
    <3>1. d # Len(m.env) + 1
      BY <1>3, <2>1
    <3>2. d \in 1..Len(m.env)
      BY <1>1, <1>3, <3>1
    <3> QED
      BY <1>1, <1>3, <2>1, <3>2 DEF Live, Held
  <2> QED
    BY <2>1 DEF Live
<1> HIDE DEF x
<1>8. /\ Work(f, f, base, ls, x) /\ f.env = e /\ f.blocks = m.blocks
      /\ Produced(f) = Produced(m) /\ Slots(f) = Slots(m)
  BY <1>2, <1>3, <1>5, <1>7, Rebased
<1> HIDE DEF f
<1>9. x = Left(f.env, base, ls)
  <2>1. ls \subseteq Name
    BY BuildingTypes
  <2> QED
    BY <1>6, <1>8, <2>1, LeftKept DEF x
<1>10. Evolves(m, f, base, ls) /\ f \in Factory
  <2>1. Len(m.blocks) <= Len(f.blocks)
    BY <1>1, <1>8
  <2>2. f \in Factory
    BY <1>8, WorkTypes
  <2> QED
    BY <1>6, <1>8, <2>1, <2>2 DEF Evolves
<1>11. none \in T
  OBVIOUS
<1> HIDE DEF T, none
<1>12. more \in Seq(T) /\ Len(more) = L + 1 /\ more[L + 1] = none /\ \A i \in 1..L : more[i] = vis[i]
  BY <1>2, <1>11, Appended
<1>13. deep \in Seq(Frame) /\ Len(deep) = Len(fs) + 1 /\ deep[Len(fs) + 1] = fr
       /\ \A i \in 1..Len(fs) : deep[i] = fs[i]
  BY <1>2, Appended
<1> HIDE DEF more, deep, L
<1>14. more[1] = gs /\ Len(more) = Len(deep) + 2
  BY <1>1, <1>2, <1>12, <1>13
<1>15. Bound(f.env, base, gs, more, Len(more))
  <2>1. base + Len(more) <= Len(e) + 1
    BY <1>1, <1>2, <1>3, <1>12 DEF Bound
  <2>2. ASSUME NEW i \in 2..Len(more), NEW n \in more[i] \ gs
        PROVE  \E d \in 1..Len(e) : base < d /\ d + (Len(more) - i) <= Len(e) /\ Held(e, d, n)
    <3>1. i # L + 1
      BY <1>12, <2>2 DEF none
    <3>2. i \in 2..L /\ i \in 1..L
      BY <1>1, <1>12, <3>1
    <3>3. PICK d \in 1..Len(m.env) : base < d /\ d + (L - i) <= Len(m.env) /\ Held(m.env, d, n)
      BY <1>2, <1>12, <2>2, <3>2 DEF Bound
    <3>4. d \in 1..Len(e) /\ d + (Len(more) - i) <= Len(e)
      BY <1>1, <1>3, <1>12, <3>2, <3>3
    <3> QED
      BY <1>3, <3>3, <3>4 DEF Held
  <2> QED
    BY <1>8, <2>1, <2>2 DEF Bound
<1>16. ASSUME NEW k \in 1..Len(deep)
       PROVE  Suspended(f, deep[k], base, gs, ls, more, k + 1)
  <2>1. Suspended(m, deep[k], base, gs, ls, vis, k + 1)
    <3>1. CASE k = Len(fs) + 1
      <4>1. k + 1 = L
        BY <1>1, <3>1
      <4> QED
        BY <1>13, <3>1, <4>1 DEF L
    <3>2. CASE k # Len(fs) + 1
      <4>1. k \in 1..Len(fs)
        BY <1>1, <1>13, <3>2
      <4> QED
        BY <1>2, <1>13, <4>1
    <3> QED
      BY <3>1, <3>2
  <2>2. \A i \in 2..k + 1 : i \in 1..L
    BY <1>1, <1>13
  <2>3. \A i \in 2..k + 1 : more[i] = vis[i]
    BY <1>12, <2>2
  <2> QED
    BY <1>1, <1>10, <2>1, <2>3, SuspendedKept
<1>17. Building(f, base, gs, ls, deep, more)
  BY <1>8, <1>9, <1>12, <1>13, <1>14, <1>15, <1>16 DEF Building, T
<1> QED
  BY <1>4, <1>8, <1>17 DEF deep, more, none

\* A visit is resumed in the environment e.
LEMMA BuildingRestored ==
  ASSUME NEW m, NEW base, NEW gs, NEW ls, NEW fs, NEW vis, Building(m, base, gs, ls, fs, vis), fs # <<>>,
         NEW e, Saved(m, e, base, gs, ls, vis, Len(vis) - 1)
  PROVE  LET f == SetEnv(m, e)
         IN  /\ Building(f, base, gs, ls, Front(fs), Front(vis))
             /\ f.blocks = m.blocks /\ f.env = e
             /\ Evolves(m, f, base, ls)
             /\ Len(Front(vis)) = Len(vis) - 1 /\ Len(Front(fs)) = Len(fs) - 1
             /\ \A i \in 1..Len(vis) - 1 : Front(vis)[i] = vis[i]
             /\ \A i \in 1..Len(fs) - 1 : Front(fs)[i] = fs[i]
<1> DEFINE f == SetEnv(m, e)
           T == SUBSET Name
           less == Front(vis)
           rest == Front(fs)
           L == Len(vis)
           x == Left(m.env, base, ls)
<1>1. /\ m \in Factory /\ base \in Nat /\ ls \subseteq Name
      /\ L \in Nat /\ Len(fs) \in Nat /\ L = Len(fs) + 2 /\ Len(m.blocks) \in Nat
  BY BuildingTypes
<1>2. /\ vis \in Seq(T) /\ vis[1] = gs /\ fs \in Seq(Frame)
      /\ Work(m, m, base, ls, x)
      /\ \A k \in 1..Len(fs) : Suspended(m, fs[k], base, gs, ls, vis, k + 1)
  BY DEF Building
<1>3. /\ e \in Seq(Env!Scope) /\ Live(e, base, Produced(m)) /\ Below(m.env, e, base, ls)
      /\ Bound(e, base, gs, vis, L - 1)
  BY DEF Saved
<1>4. base <= Len(e) /\ Len(e) \in Nat
  <2>1. base + (L - 1) <= Len(e) + 1 /\ Len(e) \in Nat
    BY <1>3 DEF Bound
  <2> QED
    BY <1>1, <2>1
<1> HIDE DEF x
<1>5. /\ Work(f, f, base, ls, x) /\ f.env = e /\ f.blocks = m.blocks
      /\ Produced(f) = Produced(m) /\ Slots(f) = Slots(m)
  BY <1>2, <1>3, <1>4, Rebased
<1> HIDE DEF f
<1>6. x = Left(f.env, base, ls)
  BY <1>1, <1>3, <1>5, LeftKept DEF x
<1>7. Evolves(m, f, base, ls) /\ f \in Factory
  <2>1. Len(m.blocks) <= Len(f.blocks)
    BY <1>1, <1>5
  <2>2. f \in Factory
    BY <1>5, WorkTypes
  <2> QED
    BY <1>3, <1>5, <2>1, <2>2 DEF Evolves
<1>8. vis # <<>>
  <2>1. Len(vis) # 0
    BY <1>1
  <2> QED
    BY <2>1
<1> HIDE DEF T
<1>9. less \in Seq(T) /\ Len(less) = L - 1 /\ \A i \in 1..L - 1 : less[i] = vis[i]
  BY <1>2, <1>8, FrontFacts
<1>10. /\ rest \in Seq(Frame) /\ Len(rest) = Len(fs) - 1 /\ 1 <= Len(fs)
       /\ \A i \in 1..Len(fs) - 1 : rest[i] = fs[i]
  BY <1>2, FrontFacts
<1> HIDE DEF less, rest, L
<1>11. less[1] = gs /\ Len(less) = Len(rest) + 2
  BY <1>1, <1>2, <1>9, <1>10
<1>12. Bound(f.env, base, gs, less, Len(less))
  <2>1. \A i \in 2..L - 1 : less[i] = vis[i]
    BY <1>9
  <2>2. Bound(f.env, base, gs, less, L - 1)
    BY <1>3, <1>5, <2>1 DEF Bound
  <2> QED
    BY <1>9, <2>2
<1>13. ASSUME NEW k \in 1..Len(rest)
       PROVE  Suspended(f, rest[k], base, gs, ls, less, k + 1)
  <2>1. k \in 1..Len(fs) /\ k \in 1..Len(fs) - 1
    BY <1>1, <1>10
  <2>2. Suspended(m, rest[k], base, gs, ls, vis, k + 1)
    BY <1>2, <1>10, <2>1
  <2>3. \A i \in 2..k + 1 : i \in 1..L - 1
    BY <1>1, <1>10
  <2>4. \A i \in 2..k + 1 : less[i] = vis[i]
    BY <1>9, <2>3
  <2> QED
    BY <1>1, <1>7, <2>2, <2>4, SuspendedKept
<1>14. Building(f, base, gs, ls, rest, less)
  BY <1>5, <1>6, <1>9, <1>10, <1>11, <1>12, <1>13 DEF Building, T
<1> QED
  BY <1>5, <1>7, <1>9, <1>10, <1>14 DEF f, less, rest, L

\* Edges are added, and blocks that these lead to.
Goes(m, f) ==
  /\ Extends(m, f)
  /\ Aimed(m, Len(m.blocks)) => Aimed(f, Len(f.blocks))

LEMMA GoesChained ==
  ASSUME NEW m \in Factory, NEW f \in Factory, NEW g \in Factory, Goes(m, f), Goes(f, g)
  PROVE  Goes(m, g)
<1>1. Len(m.blocks) \in Nat /\ Len(f.blocks) \in Nat /\ Len(g.blocks) \in Nat
  BY DEF Factory
<1>2. Len(m.blocks) <= Len(f.blocks) /\ Len(f.blocks) <= Len(g.blocks)
  BY DEF Goes, Extends
<1>3. ASSUME NEW b \in Len(m.blocks) + 1..Len(g.blocks)
      PROVE  \E a \in 1..b - 1 : Edge(g, a, b)
  <2>1. CASE b <= Len(f.blocks)
    <3>1. b \in Len(m.blocks) + 1..Len(f.blocks)
      BY <1>1, <2>1
    <3> QED
      BY <3>1 DEF Goes, Extends
  <2>2. CASE ~(b <= Len(f.blocks))
    <3>1. b \in Len(f.blocks) + 1..Len(g.blocks)
      BY <1>1, <1>2, <2>2
    <3> QED
      BY <3>1 DEF Goes, Extends
  <2> QED
    BY <2>1, <2>2
<1>4. Len(m.blocks) <= Len(g.blocks)
  BY <1>1, <1>2
<1> QED
  BY <1>3, <1>4 DEF Goes, Extends

\* The same edges, one more to an old block, or one more to a new block.
LEMMA GoesOn ==
  ASSUME NEW m \in Factory, NEW f
  PROVE  /\ SameEdges(m, f) /\ Len(f.blocks) = Len(m.blocks) => Goes(m, f)
         /\ \A a, c : /\ NewEdge(m, f, a, c) /\ Len(f.blocks) = Len(m.blocks)
                      /\ c \in 1..Len(m.blocks)
                      => Goes(m, f)
         /\ \A a : /\ NewEdge(m, f, a, Len(m.blocks) + 1) /\ Len(f.blocks) = Len(m.blocks) + 1
                   /\ a \in 1..Len(m.blocks)
                   => Goes(m, f)
<1> DEFINE N == Len(m.blocks)
<1>1. N \in Nat
  BY DEF Factory
<1> HIDE DEF N
<1>2. ASSUME SameEdges(m, f), Len(f.blocks) = N
      PROVE  Goes(m, f)
  <2>1. N <= Len(f.blocks) /\ N + 1..Len(f.blocks) = {}
    BY <1>1, <1>2
  <2> QED
    BY <1>2, <2>1 DEF Goes, Extends, Aimed, SameEdges, N
<1>3. ASSUME NEW a, NEW c, NewEdge(m, f, a, c), Len(f.blocks) = N, c \in 1..N
      PROVE  Goes(m, f)
  <2>1. N <= Len(f.blocks) /\ N + 1..Len(f.blocks) = {}
    BY <1>1, <1>3
  <2> QED
    BY <1>3, <2>1 DEF Goes, Extends, Aimed, NewEdge, N
<1>4. ASSUME NEW a, NewEdge(m, f, a, N + 1), Len(f.blocks) = N + 1, a \in 1..N
      PROVE  Goes(m, f)
  <2>1. N <= Len(f.blocks) /\ \A b \in N + 1..Len(f.blocks) : b = N + 1 /\ a \in 1..b - 1
    BY <1>1, <1>4
  <2>2. \A b : b \in 1..N => b \in 1..Len(f.blocks)
    BY <1>1, <1>4
  <2>3. N + 1 \in 1..Len(f.blocks)
    BY <1>1, <1>4
  <2>4. Aimed(m, N) => Aimed(f, Len(f.blocks))
    BY <1>4, <2>2, <2>3 DEF Aimed, NewEdge
  <2>5. Extends(m, f)
    BY <1>4, <2>1 DEF Extends, NewEdge, N
  <2> QED
    BY <2>4, <2>5 DEF Goes, N
<1> QED
  BY <1>2, <1>3, <1>4 DEF N

LEMMA LinkedGoes ==
  ASSUME NEW m \in Factory, NEW f \in Factory, NEW fs, Linked(m, fs), Goes(m, f)
  PROVE  Linked(f, fs)
BY LinkedKept DEF Goes, Linked

\* A visit that is not a loop is suspended or resumed.
LEMMA LinkedPushed ==
  ASSUME NEW m, NEW fs \in Seq(Frame), NEW fr \in Frame, fr.kind # "loop", Linked(m, fs)
  PROVE  Linked(m, Append(fs, fr))
<1> DEFINE deep == Append(fs, fr)
           n == Len(fs)
<1>1. n \in Nat /\ Len(deep) = n + 1 /\ deep[n + 1] = fr /\ \A i \in 1..n : deep[i] = fs[i]
  BY Appended
<1> HIDE DEF deep, n
<1>2. ASSUME NEW k \in 0..n
      PROVE  Roots(deep, k) = Roots(fs, k)
  <2>1. k \in Nat /\ \A j \in 1..k : j \in 1..n
    BY <1>1
  <2>2. \A j \in 1..k : deep[j] = fs[j]
    BY <1>1, <2>1
  <2> QED
    BY <2>1, <2>2, RootsAgree
<1>3. Roots(deep, n + 1) = Roots(fs, n)
  <2>1. n \in 0..n
    BY <1>1
  <2>2. Roots(deep, n + 1) = Roots(deep, n)
    BY <1>1, RootsOfOneMore
  <2> QED
    BY <1>2, <2>1, <2>2
<1>4. ASSUME NEW k \in 1..n + 1, deep[k].kind = "loop"
      PROVE  Reaches(m, Roots(deep, k - 1), deep[k].cond[1])
  <2>1. k # n + 1
    BY <1>1, <1>4
  <2>2. k \in 1..n /\ k - 1 \in 0..n
    BY <1>1, <2>1
  <2>3. Roots(deep, k - 1) = Roots(fs, k - 1) /\ deep[k] = fs[k]
    BY <1>1, <1>2, <2>2
  <2> QED
    BY <1>4, <2>2, <2>3 DEF Linked, n
<1>5. \A b \in 1..Len(m.blocks) : Reaches(m, Roots(deep, Len(deep)), b)
  BY <1>1, <1>3 DEF Linked, n
<1> QED
  BY <1>1, <1>4, <1>5 DEF Linked, deep

LEMMA LinkedPopped ==
  ASSUME NEW m, NEW fs \in Seq(Frame), fs # <<>>, Last(fs).kind # "loop", Linked(m, fs)
  PROVE  Linked(m, Front(fs))
<1> DEFINE rest == Front(fs)
           n == Len(fs) - 1
<1>1. /\ n \in Nat /\ Len(rest) = n /\ Len(fs) = n + 1 /\ (\A i \in 1..n : rest[i] = fs[i])
      /\ Last(fs) = fs[n + 1]
  BY FrontFacts
<1> HIDE DEF rest, n
<1>2. ASSUME NEW k \in 0..n
      PROVE  Roots(rest, k) = Roots(fs, k)
  <2>1. k \in Nat /\ \A j \in 1..k : j \in 1..n
    BY <1>1
  <2>2. \A j \in 1..k : rest[j] = fs[j]
    BY <1>1, <2>1
  <2> QED
    BY <2>1, <2>2, RootsAgree
<1>3. Roots(rest, n) = Roots(fs, n + 1)
  <2>1. n \in 0..n
    BY <1>1
  <2>2. Roots(fs, n + 1) = Roots(fs, n)
    BY <1>1, RootsOfOneMore
  <2> QED
    BY <1>2, <2>1, <2>2
<1>4. ASSUME NEW k \in 1..n, rest[k].kind = "loop"
      PROVE  Reaches(m, Roots(rest, k - 1), rest[k].cond[1])
  <2>1. k \in 1..Len(fs) /\ k - 1 \in 0..n
    BY <1>1
  <2>2. Roots(rest, k - 1) = Roots(fs, k - 1) /\ rest[k] = fs[k]
    BY <1>1, <1>2, <2>1
  <2> QED
    BY <1>4, <2>1, <2>2 DEF Linked
<1>5. \A b \in 1..Len(m.blocks) : Reaches(m, Roots(rest, Len(rest)), b)
  BY <1>1, <1>3 DEF Linked
<1> QED
  BY <1>1, <1>4, <1>5 DEF Linked, rest

-----------------------------------------------------------------------------
(* If.                                                                      *)

Underway(m, base, fs, vis) == Building(m, base, globals, Looser, fs, vis) /\ Linked(m, fs)
Moves(m, f, base, ls, x) == Wider(m, f, base, ls, x) /\ Goes(m, f)

LEMMA UnderwayNow ==
  ASSUME MirInv, status = "function", Noted
  PROVE  \E base \in Nat : Underway(mir, base, frames, visible)
BY ABuilding DEF MirInv, Underway

LEMMA UnderwayNext ==
  ASSUME MirInv, NEW m, NEW base, NEW fs, NEW vis, Underway(m, base, fs, vis),
         mir' = m, frames' = fs, visible' = vis,
         globals' = globals, status' = "function", Noted
  PROVE  MirInv'
<1>1. base \in Nat /\ base <= Len(m.env)
  BY BuildingTypes DEF Underway
<1>2. Sound(m, Left(m.env, base, Looser))
  BY DEF Underway, Building, Work
<1>3. Loose' = Looser /\ Looser \subseteq Name /\ profile' \in Profiles
  BY MirMore DEF MirInv, Noted, Loose, Looser
<1>4. /\ base <= Len(mir'.env) /\ Sound(mir', Left(mir'.env, base, Loose'))
      /\ Building(mir', base, globals', Loose', frames', visible') /\ Linked(mir', frames')
  BY <1>1, <1>2, <1>3 DEF Underway
<1> QED
  BY <1>1, <1>3, <1>4 DEF MirInv

LEMMA MovesChained ==
  ASSUME NEW m \in Factory, NEW f, NEW g, NEW base, NEW ls, NEW x,
         Moves(m, f, base, ls, x), Moves(f, g, base, ls, x)
  PROVE  Moves(m, g, base, ls, x)
<1>1. f \in Factory /\ g \in Factory
  BY WorkTypes DEF Moves, Wider
<1> QED
  BY <1>1, WiderChained, GoesChained DEF Moves

LEMMA UnderwayMoved ==
  ASSUME NEW m, NEW base, NEW fs, NEW vis, Underway(m, base, fs, vis),
         NEW f, Moves(m, f, base, Looser, Left(m.env, base, Looser))
  PROVE  Underway(f, base, fs, vis) /\ f.env = m.env
<1>1. m \in Factory /\ f \in Factory /\ f.env = m.env
  BY BuildingTypes, WorkTypes DEF Underway, Moves, Wider
<1>2. Len(m.blocks) <= Len(f.blocks)
  BY DEF Moves, Goes, Extends
<1>3. Building(f, base, globals, Looser, fs, vis)
  BY <1>2, BuildingGrown DEF Underway, Moves
<1>4. Linked(f, fs)
  BY <1>1, LinkedGoes DEF Underway, Moves
<1> QED
  BY <1>1, <1>3, <1>4 DEF Underway

\* A block is added, and a label to an earlier instruction or a jump to an earlier block.
LEMMA NewBlock ==
  ASSUME NEW m, NEW base, NEW ls, NEW x, Work(m, m, base, ls, x)
  PROVE  /\ \A p \in Slots(m) :
              LET f == AddOperand(AddBlock(m), p, Lab(LastBlock(AddBlock(m))))
              IN  Moves(m, f, base, ls, x) /\ Len(f.blocks) = Len(m.blocks) + 1
         /\ \A b \in 1..Len(m.blocks) :
              LET f == InsertJump(AddBlock(m), b, LastBlock(AddBlock(m)))
              IN  Moves(m, f, base, ls, x) /\ Len(f.blocks) = Len(m.blocks) + 1
<1> DEFINE a == AddBlock(m)
           t == Len(m.blocks) + 1
<1>1. m \in Factory /\ Len(m.blocks) \in Nat /\ 1 <= Len(m.blocks)
  BY WorkTypes
<1>2. Wider(m, a, base, ls, x) /\ SameEdges(m, a) /\ Len(a.blocks) = t
  BY BlockWork
<1> HIDE DEF a
<1>3. LastBlock(a) = t /\ t \in Nat /\ \A b \in 1..Len(m.blocks) : b \in 1..Len(a.blocks)
  BY <1>1, <1>2 DEF LastBlock
<1> HIDE DEF t
<1>4. Work(a, a, base, ls, x) /\ Slots(m) \subseteq Slots(a)
  BY <1>2 DEF Wider
<1>5. ASSUME NEW p \in Slots(m)
      PROVE  LET f == AddOperand(a, p, Lab(t))
             IN  Moves(m, f, base, ls, x) /\ Len(f.blocks) = t
  <2> DEFINE f == AddOperand(a, p, Lab(t))
  <2>1. Wider(a, f, base, ls, x) /\ NewEdge(a, f, p[1], t) /\ Len(f.blocks) = Len(a.blocks)
    BY <1>3, <1>4, LabelWork
  <2> HIDE DEF f
  <2>2. Wider(m, f, base, ls, x)
    BY <1>2, <2>1, WiderChained
  <2>3. NewEdge(m, f, p[1], t)
    BY <1>2, <2>1 DEF NewEdge, SameEdges
  <2>4. p[1] \in 1..Len(m.blocks)
    BY <1>1, SlotShape
  <2>5. Goes(m, f)
    BY <1>1, <1>2, <2>1, <2>3, <2>4, GoesOn DEF t
  <2> QED
    BY <1>2, <2>1, <2>2, <2>5 DEF Moves, f
<1>6. ASSUME NEW b \in 1..Len(m.blocks)
      PROVE  LET f == InsertJump(a, b, t)
             IN  Moves(m, f, base, ls, x) /\ Len(f.blocks) = t
  <2> DEFINE f == InsertJump(a, b, t)
  <2>1. Wider(a, f, base, ls, x) /\ NewEdge(a, f, b, t) /\ Len(f.blocks) = Len(a.blocks)
    BY <1>3, <1>4, JumpWork
  <2> HIDE DEF f
  <2>2. Wider(m, f, base, ls, x)
    BY <1>2, <2>1, WiderChained
  <2>3. NewEdge(m, f, b, t)
    BY <1>2, <2>1 DEF NewEdge, SameEdges
  <2>4. Goes(m, f)
    BY <1>1, <1>2, <2>1, <2>3, GoesOn DEF t
  <2> QED
    BY <1>2, <2>1, <2>2, <2>4 DEF Moves, f
<1> QED
  BY <1>3, <1>5, <1>6 DEF a, t

\* A jump from an earlier block to another.
LEMMA OldBlock ==
  ASSUME NEW m, NEW base, NEW ls, NEW x, Work(m, m, base, ls, x),
         NEW b \in 1..Len(m.blocks), NEW t \in 1..Len(m.blocks)
  PROVE  LET f == InsertJump(m, b, t)
         IN  Moves(m, f, base, ls, x) /\ Len(f.blocks) = Len(m.blocks)
<1> DEFINE f == InsertJump(m, b, t)
<1>1. m \in Factory /\ t \in Nat
  BY WorkTypes
<1>2. Wider(m, f, base, ls, x) /\ NewEdge(m, f, b, t) /\ Len(f.blocks) = Len(m.blocks)
  BY <1>1, JumpWork
<1> HIDE DEF f
<1>3. Goes(m, f)
  BY <1>1, <1>2, GoesOn
<1> QED
  BY <1>2, <1>3 DEF Moves, f

\* A visit is suspended in the middle of a statement that m has translated so far.
LEMMA UnderwayPushed ==
  ASSUME NEW m, NEW base, NEW fs, NEW vis, Underway(m, base, fs, vis),
         NEW fr \in Frame, fr.kind # "loop", Suspended(m, fr, base, globals, Looser, vis, Len(vis))
  PROVE  Underway(PushEnv(m), base, Append(fs, fr), Append(vis, {}))
<1> DEFINE f == PushEnv(m)
<1>1. Building(f, base, globals, Looser, Append(fs, fr), Append(vis, {})) /\ f.blocks = m.blocks
  BY BuildingPushed DEF Underway
<1> HIDE DEF f
<1>2. m \in Factory /\ f \in Factory /\ fs \in Seq(Frame)
  <2>1. m \in Factory /\ fs \in Seq(Frame)
    BY BuildingTypes, BuildingParts DEF Underway
  <2>2. f \in Factory
    BY <1>1, BuildingTypes
  <2> QED
    BY <2>1, <2>2
<1>3. Linked(m, Append(fs, fr))
  BY <1>2, LinkedPushed DEF Underway
<1>4. SameEdges(m, f) /\ Len(f.blocks) = Len(m.blocks)
  BY <1>1 DEF SameEdges, Edge, Slots, Slot
<1>5. Linked(f, Append(fs, fr))
  BY <1>2, <1>3, <1>4, GoesOn, LinkedGoes
<1> QED
  BY <1>1, <1>5 DEF Underway, f

\* The first part of a statement.
LEMMA UnderwayStated ==
  ASSUME MirInv, NEW base, Underway(mir, base, frames, visible), NEW m, Stated(m, base)
  PROVE  /\ Underway(m, base, frames, visible)
         /\ Left(m.env, base, Looser) = Left(mir.env, base, Looser)
<1>1. Work(mir, m, base, Looser, Left(mir.env, base, Looser))
      /\ (Aimed(mir, Len(mir.blocks)) => Aimed(m, Len(m.blocks)))
  BY DEF Stated, Evaluated
<1>2. Building(m, base, globals, Looser, frames, visible)
  BY <1>1, BuildingKept DEF Underway
<1>3. mir \in Factory /\ m \in Factory /\ 1 <= Len(mir.blocks) /\ Looser \subseteq Name
  BY <1>2, BuildingTypes DEF Underway
<1>4. Extends(mir, m)
  BY <1>1, <1>3, GrownExtends DEF Work
<1>5. Linked(m, frames)
  BY <1>1, <1>3, <1>4, LinkedKept DEF Linked, Underway
<1>6. Left(m.env, base, Looser) = Left(mir.env, base, Looser)
  BY <1>1, <1>3, LeftKept DEF Work, Keeps
<1> QED
  BY <1>2, <1>5, <1>6 DEF Underway

\* The condition of an if or a loop: the jump gets its labels later.
LEMMA StatedCond ==
  ASSUME NEW base, NEW m, Stated(m, base), NEW v \in Produced(m)
  PROVE  LET f == Emit(m, "COND_JUMP", <<V(v)>>)
         IN  /\ Stated(f, base) /\ f.env = m.env
             /\ LastInstr(f) \in Slots(f) /\ LastInstr(f)[1] = Len(f.blocks)
             /\ Len(f.blocks) = Len(m.blocks)
<1> DEFINE x == Left(mir.env, base, Looser)
           args == <<V(v)>>
           op == "COND_JUMP"
           f == Emit(m, op, args)
<1>1. Work(mir, m, base, Looser, x)
  BY DEF Stated, Evaluated
<1>2. Produced(m) \subseteq Nat
  BY StatedNats
<1> HIDE DEF x
<1>3. op \in Ops /\ ValueArgs(op, args, Produced(m), x)
  BY <1>2, ValueShapes DEF Ops
<1> HIDE DEF args, op
<1>4. GivesValue(mir, m, f, base, Looser, x)
  BY <1>1, <1>3, EmittingValue
<1>5. /\ f.env = m.env /\ Len(f.blocks) = Len(m.blocks)
      /\ LastInstr(f) \in Slots(f) /\ LastInstr(f)[1] = Len(m.blocks)
  BY <1>1, <1>3, Emitting DEF ValueArgs
<1> HIDE DEF f
<1>6. Stated(f, base)
  BY <1>4, StatedOn DEF x
<1> QED
  BY <1>5, <1>6 DEF f, op, args

LEMMA EnterIfStep ==
  ASSUME MirAssumption, MirInv, NEW e \in Exprs, NEW alt \in BOOLEAN, EnterIf(e, alt),
         Noted
  PROVE  MirInv'
<1> DEFINE m == Eval(mir, e)
           cond == Emit(m, "COND_JUMP", <<V(LastVar(m))>>)
           then == AddBlock(cond)
           f == AddOperand(then, LastInstr(cond), Lab(LastBlock(then)))
           fr == [kind |-> "then", alt |-> alt, cond |-> LastInstr(cond),
                  block |-> LastBlock(then), main |-> cond.env]
<1>1. status = "function"
  BY DEF EnterIf, Stmt
<1>2. WithValue(m, /\ mir' = PushEnv(f) /\ Push(fr) /\ Counted /\ UNCHANGED <<globals, status>>)
  BY DEF EnterIf
<1>3. PICK base \in Nat : Underway(mir, base, frames, visible)
  BY <1>1, UnderwayNow
<1>4. Stated(m, base) /\ (LastVar(m) # 0 => LastVar(m) \in Produced(m))
  BY <1>3, StatedStart, StatedEval DEF Underway
<1> HIDE DEF m
<1>5. CASE LastVar(m) = 0
  BY <1>2, <1>5, ThrowStep DEF WithValue
<1>6. CASE LastVar(m) # 0
  <2> DEFINE x == Left(cond.env, base, Looser)
  <2>1. /\ mir' = PushEnv(f) /\ frames' = Append(frames, fr) /\ visible' = Append(visible, {})
        /\ globals' = globals /\ status' = "function"
    BY <1>1, <1>2, <1>6 DEF WithValue, Push
  <2>2. /\ Stated(cond, base) /\ LastInstr(cond) \in Slots(cond)
    BY <1>4, <1>6, StatedCond
  <2> HIDE DEF cond
  <2>3. Underway(cond, base, frames, visible)
    BY <1>3, <2>2, UnderwayStated
  <2>4. Work(cond, cond, base, Looser, x) /\ cond \in Factory /\ Len(cond.blocks) \in Nat
    BY <2>3, BuildingTypes, BuildingParts DEF Underway
  <2> HIDE DEF x
  <2>5. Moves(cond, f, base, Looser, x) /\ Len(f.blocks) = Len(cond.blocks) + 1
    BY <2>2, <2>4, NewBlock
  <2>6. LastBlock(then) = Len(cond.blocks) + 1
    BY <2>4, BlockFacts DEF LastBlock
  <2> HIDE DEF f
  <2>7. Underway(f, base, frames, visible) /\ f.env = cond.env
    BY <2>3, <2>5, UnderwayMoved DEF x
  <2>8. /\ fr.kind = "then" /\ fr.cond = LastInstr(cond) /\ fr.block = LastBlock(then)
        /\ fr.main = cond.env
    OBVIOUS
  <2>9. fr \in Frame
    <3>1. LastInstr(cond) \in Nat \X Nat
      <4>1. LastInstr(cond) = <<LastInstr(cond)[1], LastInstr(cond)[2]>>
            /\ LastInstr(cond)[1] \in 1..Len(cond.blocks)
            /\ LastInstr(cond)[2] \in 1..Len(cond.blocks[LastInstr(cond)[1]])
        BY <2>2, <2>4, SlotShape
      <4>2. LastInstr(cond)[1] \in Nat /\ LastInstr(cond)[2] \in Nat
        BY <4>1
      <4> QED
        BY <4>1, <4>2
    <3>2. LastBlock(then) \in Nat /\ cond.env \in Seq(Env!Scope)
      BY <2>4, <2>6 DEF Factory
    <3> QED
      BY <3>1, <3>2 DEF Frame
  <2> HIDE DEF then, fr
  <2>10. Saved(f, fr.main, base, globals, Looser, visible, Len(visible))
    BY <2>7, <2>8, SavedHere DEF Underway
  <2>11. fr.cond \in Slots(f) /\ fr.block \in 1..Len(f.blocks)
    BY <2>2, <2>4, <2>5, <2>6, <2>8 DEF Moves, Wider
  <2>12. Suspended(f, fr, base, globals, Looser, visible, Len(visible)) /\ fr.kind # "loop"
    BY <2>8, <2>10, <2>11 DEF Suspended
  <2>13. Underway(PushEnv(f), base, Append(frames, fr), Append(visible, {}))
    BY <2>7, <2>9, <2>12, UnderwayPushed
  <2> QED
    BY <2>1, <2>13, UnderwayNext
<1> QED
  BY <1>5, <1>6

\* The innermost visit.
LEMMA TopSuspended ==
  ASSUME MirInv, status = "function", frames # <<>>,
         NEW base, NEW ls, Building(mir, base, globals, ls, frames, visible)
  PROVE  /\ Suspended(mir, Top, base, globals, ls, visible, Len(visible) - 1)
         /\ Top \in Frame /\ Top = frames[Len(frames)] /\ Len(frames) \in 1..Len(frames)
         /\ frames \in Seq(Frame)
         /\ Len(visible) - 1 = Len(frames) + 1
<1>1. /\ frames \in Seq(Frame) /\ Len(visible) = Len(frames) + 2
      /\ \A k \in 1..Len(frames) : Suspended(mir, frames[k], base, globals, ls, visible, k + 1)
  BY DEF Building
<1>2. Len(frames) \in Nat /\ 1 <= Len(frames) /\ Top = frames[Len(frames)] /\ Top \in Frame
  BY <1>1, FrontFacts DEF Top
<1>3. Len(visible) - 1 = Len(frames) + 1 /\ Len(frames) \in 1..Len(frames)
  BY <1>1, <1>2
<1> QED
  BY <1>1, <1>2, <1>3

\* The visit around is resumed in the environment of the branch or in its own.
LEMMA UnderwayRestored ==
  ASSUME NEW m, NEW base, NEW fs, NEW vis, Underway(m, base, fs, vis),
         fs # <<>>, Last(fs).kind # "loop",
         NEW e, Saved(m, e, base, globals, Looser, vis, Len(vis) - 1)
  PROVE  Underway(SetEnv(m, e), base, Front(fs), Front(vis))
<1> DEFINE f == SetEnv(m, e)
<1>1. Building(f, base, globals, Looser, Front(fs), Front(vis)) /\ f.blocks = m.blocks
  BY BuildingRestored DEF Underway
<1> HIDE DEF f
<1>2. m \in Factory /\ f \in Factory /\ fs \in Seq(Frame)
  <2>1. m \in Factory /\ fs \in Seq(Frame)
    BY BuildingTypes, BuildingParts DEF Underway
  <2>2. f \in Factory
    BY <1>1, BuildingTypes
  <2> QED
    BY <2>1, <2>2
<1>3. Linked(m, Front(fs))
  BY <1>2, LinkedPopped DEF Underway
<1>4. SameEdges(m, f) /\ Len(f.blocks) = Len(m.blocks)
  BY <1>1 DEF SameEdges, Edge, Slots, Slot
<1>5. Linked(f, Front(fs))
  BY <1>2, <1>3, <1>4, GoesOn, LinkedGoes
<1> QED
  BY <1>1, <1>5 DEF Underway, f

LEMMA FinishStep ==
  ASSUME MirInv, Finish, Noted
  PROVE  MirInv'
BY ThrowStep DEF Finish

\* The same visit goes on in the environment e.
LEMMA BuildingReset ==
  ASSUME NEW m, NEW base, NEW gs, NEW ls, NEW fs, NEW vis, Building(m, base, gs, ls, fs, vis),
         NEW e, Saved(m, e, base, gs, ls, vis, Len(vis))
  PROVE  LET f == SetEnv(m, e)
         IN  Building(f, base, gs, ls, fs, vis) /\ f.blocks = m.blocks
<1> DEFINE f == SetEnv(m, e)
           x == Left(m.env, base, ls)
<1>1. /\ m \in Factory /\ base \in Nat /\ ls \subseteq Name
      /\ Len(vis) \in Nat /\ Len(fs) \in Nat /\ Len(vis) = Len(fs) + 2 /\ Len(m.blocks) \in Nat
  BY BuildingTypes
<1>2. /\ Work(m, m, base, ls, x)
      /\ \A k \in 1..Len(fs) : Suspended(m, fs[k], base, gs, ls, vis, k + 1)
  BY DEF Building
<1>3. /\ e \in Seq(Env!Scope) /\ Live(e, base, Produced(m)) /\ Below(m.env, e, base, ls)
      /\ Bound(e, base, gs, vis, Len(vis))
  BY DEF Saved
<1>4. base <= Len(e)
  <2>1. base + Len(vis) <= Len(e) + 1 /\ Len(e) \in Nat
    BY <1>3 DEF Bound
  <2> QED
    BY <1>1, <2>1
<1> HIDE DEF x
<1>5. /\ Work(f, f, base, ls, x) /\ f.env = e /\ f.blocks = m.blocks
      /\ Produced(f) = Produced(m) /\ Slots(f) = Slots(m)
  BY <1>2, <1>3, <1>4, Rebased
<1> HIDE DEF f
<1>6. x = Left(f.env, base, ls)
  BY <1>1, <1>3, <1>5, LeftKept DEF x
<1>7. Evolves(m, f, base, ls) /\ f \in Factory
  <2>1. Len(m.blocks) <= Len(f.blocks)
    BY <1>1, <1>5
  <2>2. f \in Factory
    BY <1>5, WorkTypes
  <2> QED
    BY <1>3, <1>5, <2>1, <2>2 DEF Evolves
<1>8. \A k \in 1..Len(fs) : Suspended(f, fs[k], base, gs, ls, vis, k + 1)
  BY <1>1, <1>2, <1>7, SuspendedKept
<1> QED
  BY <1>3, <1>5, <1>6, <1>8 DEF Building, f

\* The environment of a branch that ends is merged into e, and the visit around
\* is resumed in the result.
LEMMA UnderwayMerged ==
  ASSUME MirAssumption,
         NEW m, NEW base, NEW fs, NEW vis, Underway(m, base, fs, vis),
         fs # <<>>, Last(fs).kind # "loop",
         NEW e, Saved(m, e, base, globals, Looser, vis, Len(vis) - 1), NEW reached
  PROVE  LET f == MergeEnvs(m, e, m.env, reached)
         IN  Underway(f, base, Front(fs), Front(vis)) /\ Evolves(m, f, base, Looser)
<1> DEFINE f == MergeEnvs(m, e, m.env, reached)
           g == SetEnv(m, e)
           x == Left(m.env, base, Looser)
<1>1. /\ m \in Factory /\ base \in Nat /\ Looser \subseteq Name /\ base <= Len(m.env)
      /\ m.env \in Seq(Env!Scope) /\ Live(m.env, base, Produced(m))
      /\ Len(m.blocks) \in Nat /\ Len(vis) \in Nat
  BY BuildingTypes DEF Underway
<1>2. /\ e \in Seq(Env!Scope) /\ Live(e, base, Produced(m)) /\ Below(m.env, e, base, Looser)
      /\ base + (Len(vis) - 1) <= Len(e) + 1
  BY DEF Saved, Bound
<1>3. Building(g, base, globals, Looser, Front(fs), Front(vis)) /\ g.blocks = m.blocks /\ g.env = e
  BY BuildingRestored DEF Underway
<1>4. Underway(g, base, Front(fs), Front(vis))
  BY UnderwayRestored
<1>5. base <= Len(e) /\ g \in Factory
  BY <1>3, BuildingTypes
<1>6. Work(m, m, base, Looser, x)
  BY DEF Underway, Building
<1>7. x = Left(e, base, Looser)
  BY <1>1, <1>2, LeftKept
<1> HIDE DEF x
<1>8. Forked(m, e, m.env, base, Looser, x)
  <2>1. Below(e, m.env, base, Looser)
    BY <1>2 DEF Below
  <2> QED
    BY <1>1, <1>2, <1>5, <1>7, <2>1 DEF Forked
<1>9. /\ Work(g, f, base, Looser, x) /\ Len(f.blocks) = Len(m.blocks)
      /\ Produced(m) \subseteq Produced(f) /\ SameEdges(m, f)
  BY <1>6, <1>8, MergeEnvsWork
<1> HIDE DEF f, g
<1>10. Building(f, base, globals, Looser, Front(fs), Front(vis))
  BY <1>3, <1>7, <1>9, BuildingKept
<1>11. Linked(f, Front(fs))
  <2>1. f \in Factory
    BY <1>9, WorkTypes
  <2>2. SameEdges(g, f) /\ Len(f.blocks) = Len(g.blocks)
    BY <1>3, <1>9 DEF SameEdges, Edge, Slots, Slot
  <2>3. Goes(g, f)
    BY <1>5, <2>2, GoesOn
  <2> QED
    BY <1>4, <1>5, <2>1, <2>3, LinkedGoes DEF Underway
<1>12. Evolves(m, f, base, Looser)
  <2>1. Slots(m) \subseteq Slots(f)
    <3>1. Slots(g) \subseteq Slots(f)
      BY <1>9 DEF Work, Grown
    <3> QED
      BY <1>3, <3>1 DEF Slots
  <2>2. Below(m.env, f.env, base, Looser)
    <3>1. Below(e, f.env, base, Looser)
      BY <1>3, <1>9 DEF Work, Keeps
    <3> QED
      BY <1>2, <3>1 DEF Below
  <2>3. Len(m.blocks) <= Len(f.blocks)
    BY <1>1, <1>9
  <2> QED
    BY <1>9, <2>1, <2>2, <2>3 DEF Evolves
<1> QED
  BY <1>10, <1>11, <1>12 DEF Underway, f

LEMMA UnderwayReset ==
  ASSUME NEW m, NEW base, NEW fs, NEW vis, Underway(m, base, fs, vis),
         NEW e, Saved(m, e, base, globals, Looser, vis, Len(vis))
  PROVE  Underway(SetEnv(m, e), base, fs, vis)
<1> DEFINE f == SetEnv(m, e)
<1>1. Building(f, base, globals, Looser, fs, vis) /\ f.blocks = m.blocks
  BY BuildingReset DEF Underway
<1> HIDE DEF f
<1>2. m \in Factory /\ f \in Factory
  BY <1>1, BuildingTypes DEF Underway
<1>3. SameEdges(m, f) /\ Len(f.blocks) = Len(m.blocks)
  BY <1>1 DEF SameEdges, Edge, Slots, Slot
<1>4. Linked(f, fs)
  BY <1>2, <1>3, GoesOn, LinkedGoes DEF Underway
<1> QED
  BY <1>1, <1>4 DEF Underway, f

LEMMA MovesEvolves ==
  ASSUME NEW m, NEW f, NEW base, NEW ls, NEW x, Moves(m, f, base, ls, x)
  PROVE  Evolves(m, f, base, ls)
BY DEF Moves, Wider, Goes, Extends, Evolves, Below

LEMMA EvolvesChained ==
  ASSUME NEW m \in Factory, NEW f \in Factory, NEW g \in Factory, NEW base, NEW ls,
         Evolves(m, f, base, ls), Evolves(f, g, base, ls)
  PROVE  Evolves(m, g, base, ls)
<1>1. Len(m.blocks) \in Nat /\ Len(f.blocks) \in Nat /\ Len(g.blocks) \in Nat
  BY DEF Factory
<1>2. Below(m.env, g.env, base, ls)
  BY DEF Evolves, Below
<1> QED
  BY <1>1, <1>2 DEF Evolves

\* A then branch without an else branch ends.
LEMMA LeaveThenMerges ==
  ASSUME MirAssumption, MirInv, LeaveThen, ~Top.alt, Noted
  PROVE  MirInv'
<1> DEFINE merge == AddBlock(mir)
           jump == InsertJump(merge, Top.block, LastBlock(merge))
           f == MergeEnvs(jump, Top.main, mir.env, {})
           L == Len(visible)
<1>1. status = "function" /\ frames # <<>> /\ Top.kind = "then"
  BY DEF LeaveThen, Leaves
<1>2. /\ mir' = SetEnv(f, Top.main) /\ frames' = Front(frames) /\ visible' = Front(visible)
      /\ globals' = globals /\ status' = "function"
  BY <1>1 DEF LeaveThen, Pop
<1>3. PICK base \in Nat : Underway(mir, base, frames, visible)
  BY <1>1, UnderwayNow
<1>4. /\ Top.block \in 1..Len(mir.blocks)
      /\ Saved(mir, Top.main, base, globals, Looser, visible, L - 1)
  BY <1>1, <1>3, TopSuspended DEF Suspended, Underway
<1>5. Work(mir, mir, base, Looser, Left(mir.env, base, Looser)) /\ mir \in Factory
  BY <1>3, BuildingTypes, BuildingParts DEF Underway
<1>6. Moves(mir, jump, base, Looser, Left(mir.env, base, Looser))
  BY <1>4, <1>5, NewBlock
<1> HIDE DEF merge, jump
<1>7. Underway(jump, base, frames, visible) /\ jump.env = mir.env /\ jump \in Factory
  <2>1. Underway(jump, base, frames, visible) /\ jump.env = mir.env
    BY <1>3, <1>6, UnderwayMoved
  <2> QED
    BY <2>1, BuildingTypes DEF Underway
<1>8. Evolves(mir, jump, base, Looser)
  BY <1>6, MovesEvolves
<1>9. Saved(jump, Top.main, base, globals, Looser, visible, L - 1)
  BY <1>4, <1>8, SavedKept
<1>10. Last(frames).kind # "loop"
  BY <1>1 DEF Top
<1>11. Underway(f, base, Front(frames), Front(visible)) /\ Evolves(jump, f, base, Looser)
  BY <1>1, <1>7, <1>9, <1>10, UnderwayMerged
<1> HIDE DEF f
<1>12. /\ Len(Front(visible)) = L - 1 /\ \A i \in 2..L - 1 : Front(visible)[i] = visible[i]
  <2>1. visible \in Seq(SUBSET Name) /\ L \in Nat /\ L # 0
    BY <1>3, BuildingTypes, BuildingParts DEF Underway
  <2>2. visible # <<>>
    BY <2>1
  <2> DEFINE T == SUBSET Name
  <2> HIDE DEF T
  <2>3. visible \in Seq(T)
    BY <2>1 DEF T
  <2>4. /\ Len(Front(visible)) = L - 1
        /\ \A i \in 1..L - 1 : Front(visible)[i] = visible[i]
    BY <2>2, <2>3, FrontFacts
  <2>5. \A i \in 2..L - 1 : i \in 1..L - 1
    BY <2>1
  <2> QED
    BY <2>4, <2>5
<1> HIDE DEF L
<1>13. Saved(f, Top.main, base, globals, Looser, Front(visible), Len(Front(visible)))
  <2>1. Saved(f, Top.main, base, globals, Looser, Front(visible), L - 1)
    BY <1>9, <1>11, <1>12, SavedKept
  <2> QED
    BY <1>12, <2>1
<1>14. Underway(SetEnv(f, Top.main), base, Front(frames), Front(visible))
  BY <1>11, <1>13, UnderwayReset
<1> QED
  BY <1>2, <1>14, UnderwayNext

\* A then branch ends and the else branch begins in the environment in front of it.
LEMMA LeaveThenGoesOn ==
  ASSUME MirAssumption, MirInv, LeaveThen, Top.alt, Noted
  PROVE  MirInv'
<1> DEFINE code == SetEnv(mir, Top.main)
           alt == AddBlock(code)
           f == AddOperand(alt, Top.cond, Lab(LastBlock(alt)))
           fr == [kind |-> "else", then |-> Top.block, block |-> LastBlock(alt),
                  env |-> mir.env]
           L == Len(visible)
           less == Front(visible)
           rest == Front(frames)
<1>1. status = "function" /\ frames # <<>> /\ Top.kind = "then"
  BY DEF LeaveThen, Leaves
<1>2. /\ mir' = PushEnv(f) /\ frames' = Append(rest, fr) /\ visible' = Append(less, {})
      /\ globals' = globals /\ status' = "function"
  BY <1>1 DEF LeaveThen
<1>3. PICK base \in Nat : Underway(mir, base, frames, visible)
  BY <1>1, UnderwayNow
<1>4. /\ Top.cond \in Slots(mir) /\ Top.block \in 1..Len(mir.blocks)
      /\ Saved(mir, Top.main, base, globals, Looser, visible, L - 1)
  BY <1>1, <1>3, TopSuspended DEF Suspended, Underway
<1>5. mir \in Factory /\ Len(mir.blocks) \in Nat /\ L \in Nat /\ mir.env \in Seq(Env!Scope)
  BY <1>3, BuildingTypes DEF Underway
<1>6. Last(frames).kind # "loop"
  BY <1>1 DEF Top
<1>7. /\ Building(code, base, globals, Looser, rest, less)
      /\ code.blocks = mir.blocks /\ code.env = Top.main
      /\ Evolves(mir, code, base, Looser)
      /\ Len(less) = L - 1 /\ \A i \in 1..L - 1 : less[i] = visible[i]
  BY <1>1, <1>3, <1>4, BuildingRestored DEF Underway
<1>8. Underway(code, base, rest, less)
  BY <1>1, <1>3, <1>4, <1>6, UnderwayRestored
<1> HIDE DEF code
<1>9. /\ Work(code, code, base, Looser, Left(code.env, base, Looser)) /\ code \in Factory
      /\ Top.cond \in Slots(code)
  <2>1. Slots(code) = Slots(mir)
    BY <1>7 DEF Slots
  <2>2. code \in Factory
    BY <1>7, BuildingTypes
  <2> QED
    BY <1>4, <1>7, <2>1, <2>2 DEF Building
<1>10. Moves(code, f, base, Looser, Left(code.env, base, Looser))
       /\ Len(f.blocks) = Len(mir.blocks) + 1
  BY <1>7, <1>9, NewBlock
<1>11. LastBlock(alt) = Len(mir.blocks) + 1
  BY <1>7, <1>9, BlockFacts DEF LastBlock
<1>12. fr.kind = "else" /\ fr.then = Top.block /\ fr.block = LastBlock(alt) /\ fr.env = mir.env
  OBVIOUS
<1>13. fr \in Frame
  <2>1. Top.block \in Nat /\ LastBlock(alt) \in Nat
    BY <1>4, <1>5, <1>11
  <2> QED
    BY <1>5, <2>1 DEF Frame
<1> HIDE DEF f, alt, fr
<1>14. Underway(f, base, rest, less)
  BY <1>8, <1>10, UnderwayMoved
<1>15. Evolves(mir, f, base, Looser)
  <2>1. f \in Factory
    BY <1>14, BuildingTypes DEF Underway
  <2>2. Evolves(code, f, base, Looser)
    BY <1>10, MovesEvolves
  <2> QED
    BY <1>5, <1>7, <1>9, <2>1, <2>2, EvolvesChained
<1>16. Saved(f, fr.env, base, globals, Looser, less, Len(less))
  <2>1. Saved(mir, mir.env, base, globals, Looser, visible, L - 1)
    BY <1>3, SavedHere DEF Underway
  <2>2. \A i \in 2..L - 1 : less[i] = visible[i]
    <3>1. \A i \in 2..L - 1 : i \in 1..L - 1
      BY <1>5
    <3> QED
      BY <1>7, <3>1
  <2> HIDE DEF less, L
  <2>3. Saved(f, mir.env, base, globals, Looser, less, L - 1)
    BY <1>15, <2>1, <2>2, SavedKept
  <2> QED
    BY <1>7, <1>12, <2>3
<1>17. fr.then \in 1..Len(f.blocks) /\ fr.block \in 1..Len(f.blocks)
  BY <1>4, <1>5, <1>10, <1>11, <1>12
<1>18. Suspended(f, fr, base, globals, Looser, less, Len(less)) /\ fr.kind # "loop"
  BY <1>12, <1>16, <1>17 DEF Suspended
<1> HIDE DEF less, rest
<1>19. Underway(PushEnv(f), base, Append(rest, fr), Append(less, {}))
  BY <1>13, <1>14, <1>18, UnderwayPushed
<1> QED
  BY <1>2, <1>19, UnderwayNext

LEMMA LeaveThenStep ==
  ASSUME MirAssumption, MirInv, LeaveThen, Noted
  PROVE  MirInv'
BY LeaveThenMerges, LeaveThenGoesOn

LEMMA LeaveElseStep ==
  ASSUME MirAssumption, MirInv, NEW reached, LeaveElse(reached), Noted
  PROVE  MirInv'
<1> DEFINE merge == AddBlock(mir)
           to == LastBlock(merge)
           first == InsertJump(merge, Top.then, to)
           jump == InsertJump(first, Top.block, to)
           f == MergeEnvs(jump, Top.env, mir.env, reached)
<1>1. status = "function" /\ frames # <<>> /\ Top.kind = "else"
  BY DEF LeaveElse, Leaves
<1>2. /\ mir' = f /\ frames' = Front(frames) /\ visible' = Front(visible)
      /\ globals' = globals /\ status' = "function"
  BY <1>1 DEF LeaveElse, Pop
<1>3. PICK base \in Nat : Underway(mir, base, frames, visible)
  BY <1>1, UnderwayNow
<1>4. /\ Top.then \in 1..Len(mir.blocks) /\ Top.block \in 1..Len(mir.blocks)
      /\ Saved(mir, Top.env, base, globals, Looser, visible, Len(visible) - 1)
  BY <1>1, <1>3, TopSuspended DEF Suspended, Underway
<1>5. Work(mir, mir, base, Looser, Left(mir.env, base, Looser)) /\ mir \in Factory
      /\ Len(mir.blocks) \in Nat
  BY <1>3, BuildingTypes, BuildingParts DEF Underway
<1>6. Moves(mir, first, base, Looser, Left(mir.env, base, Looser))
      /\ Len(first.blocks) = Len(mir.blocks) + 1
  BY <1>4, <1>5, NewBlock
<1>7. to = Len(mir.blocks) + 1
  BY <1>5, BlockFacts DEF LastBlock
<1> HIDE DEF first, merge, to
<1>8. Work(first, first, base, Looser, Left(mir.env, base, Looser))
  BY <1>6 DEF Moves, Wider
<1>9. Top.block \in 1..Len(first.blocks) /\ to \in 1..Len(first.blocks)
  BY <1>4, <1>5, <1>6, <1>7
<1>10. Moves(first, jump, base, Looser, Left(mir.env, base, Looser))
  BY <1>8, <1>9, OldBlock
<1> HIDE DEF jump
<1>11. Moves(mir, jump, base, Looser, Left(mir.env, base, Looser))
  BY <1>5, <1>6, <1>10, MovesChained
<1>12. Underway(jump, base, frames, visible) /\ jump.env = mir.env
  BY <1>3, <1>11, UnderwayMoved
<1>13. Saved(jump, Top.env, base, globals, Looser, visible, Len(visible) - 1)
  BY <1>4, <1>11, MovesEvolves, SavedKept
<1>14. Last(frames).kind # "loop"
  BY <1>1 DEF Top
<1>15. Underway(f, base, Front(frames), Front(visible))
  BY <1>1, <1>12, <1>13, <1>14, UnderwayMerged
<1> QED
  BY <1>2, <1>15, UnderwayNext

-----------------------------------------------------------------------------
(* Loop: what its parts do to the code that has been translated so far.     *)

LEMMA UnderwayEvaluated ==
  ASSUME NEW m, NEW base, NEW fs, NEW vis, Underway(m, base, fs, vis),
         NEW f, Evaluated(m, m, f, base, Looser, Left(m.env, base, Looser))
  PROVE  Underway(f, base, fs, vis)
<1>1. Work(m, f, base, Looser, Left(m.env, base, Looser))
      /\ (Aimed(m, Len(m.blocks)) => Aimed(f, Len(f.blocks)))
  BY DEF Evaluated
<1>2. Building(f, base, globals, Looser, fs, vis)
  BY <1>1, BuildingKept DEF Underway
<1>3. m \in Factory /\ f \in Factory /\ 1 <= Len(m.blocks)
  BY <1>2, BuildingTypes DEF Underway
<1>4. Extends(m, f)
  BY <1>1, <1>3, GrownExtends DEF Work
<1>5. Linked(f, fs)
  BY <1>1, <1>3, <1>4, LinkedKept DEF Linked, Underway
<1> QED
  BY <1>2, <1>5 DEF Underway

LEMMA UnderwayEmits ==
  ASSUME NEW m, NEW base, NEW fs, NEW vis, Underway(m, base, fs, vis),
         NEW op \in Ops, NEW args,
         ValueArgs(op, args, Produced(m), Left(m.env, base, Looser))
  PROVE  LET f == Emit(m, op, args)
         IN  /\ Underway(f, base, fs, vis)
             /\ f.env = m.env /\ Len(f.blocks) = Len(m.blocks)
             /\ LastVar(f) \in Produced(f)
             /\ LastInstr(f) \in Slots(f) /\ LastInstr(f)[1] = Len(f.blocks)
<1> DEFINE x == Left(m.env, base, Looser)
           f == Emit(m, op, args)
<1>1. Work(m, m, base, Looser, x)
  BY DEF Underway, Building
<1> HIDE DEF x
<1>2. GivesValue(m, m, f, base, Looser, x)
  BY <1>1, EmittingValue DEF x
<1>3. /\ f.env = m.env /\ Len(f.blocks) = Len(m.blocks)
      /\ LastInstr(f) \in Slots(f) /\ LastInstr(f)[1] = Len(m.blocks)
  BY <1>1, Emitting DEF ValueArgs, x
<1> HIDE DEF f
<1>4. Underway(f, base, fs, vis)
  BY <1>2, ValueEvaluated, UnderwayEvaluated DEF x
<1> QED
  BY <1>2, <1>3, <1>4 DEF GivesValue, f

LEMMA UnderwayBinds ==
  ASSUME MirAssumption,
         NEW m, NEW base, NEW fs, NEW vis, Underway(m, base, fs, vis),
         NEW n \in Name, CanBind(m, n), NEW v \in Produced(m)
  PROVE  Underway(VarBind(m, n, v), base, fs, [vis EXCEPT ![Len(vis)] = @ \cup {n}])
<1> DEFINE f == VarBind(m, n, v)
           x == Left(m.env, base, Looser)
<1>1. Work(m, m, base, Looser, x)
  BY DEF Underway, Building
<1>2. base < Len(m.env)
  BY BuildingTypes DEF Underway
<1> HIDE DEF x
<1>3. /\ Work(m, f, base, Looser, x) /\ Len(f.blocks) = Len(m.blocks)
      /\ SameEdges(m, f) /\ Held(f.env, Len(m.env), n)
  BY <1>1, <1>2, Binding
<1> HIDE DEF f
<1>4. Evaluated(m, m, f, base, Looser, x)
  BY <1>3, AimedKept DEF Evaluated
<1>5. Underway(f, base, fs, vis)
  BY <1>4, UnderwayEvaluated DEF x
<1>6. Len(f.env) = Len(m.env)
  BY <1>3, WorkEnv
<1>7. Building(f, base, globals, Looser, fs, [vis EXCEPT ![Len(vis)] = @ \cup {n}])
  BY <1>3, <1>5, <1>6, BuildingNamed DEF Underway
<1> QED
  BY <1>5, <1>7 DEF Underway, f

\* A jump from the last block to a new one.
LEMMA UnderwayJumps ==
  ASSUME NEW m, NEW base, NEW fs, NEW vis, Underway(m, base, fs, vis)
  PROVE  LET f == AddBlock(AddInstr(m, "JUMP", <<Lab(LastBlock(m) + 1)>>))
         IN  /\ Underway(f, base, fs, vis) /\ f.env = m.env
             /\ Len(f.blocks) = Len(m.blocks) + 1
<1> DEFINE x == Left(m.env, base, Looser)
           L == Len(m.blocks)
           j == InsertJump(m, L, L + 1)
           f == AddBlock(j)
<1>1. Work(m, m, base, Looser, x)
  BY DEF Underway, Building
<1>2. m \in Factory /\ L \in Nat /\ 1 <= L
  BY BuildingTypes DEF Underway
<1>3. L \in 1..Len(m.blocks) /\ L + 1 \in Nat
  BY <1>2
<1> HIDE DEF x
<1>4. Wider(m, j, base, Looser, x) /\ NewEdge(m, j, L, L + 1) /\ Len(j.blocks) = L
  BY <1>1, <1>3, JumpWork
<1>5. f = AddBlock(AddInstr(m, "JUMP", <<Lab(LastBlock(m) + 1)>>))
  BY DEF InsertJump, AddInstr, LastBlock
<1> HIDE DEF j
<1>6. Wider(j, f, base, Looser, x) /\ SameEdges(j, f) /\ Len(f.blocks) = L + 1
  <2>1. Work(j, j, base, Looser, x)
    BY <1>4 DEF Wider
  <2> QED
    BY <1>4, <2>1, BlockWork
<1> HIDE DEF f
<1>7. Wider(m, f, base, Looser, x) /\ NewEdge(m, f, L, L + 1)
  BY <1>4, <1>6, WiderChained DEF NewEdge, SameEdges
<1>8. Goes(m, f)
  BY <1>2, <1>3, <1>6, <1>7, GoesOn
<1>9. Underway(f, base, fs, vis) /\ f.env = m.env
  BY <1>7, <1>8, UnderwayMoved DEF Moves, x
<1> QED
  BY <1>5, <1>6, <1>9

LEMMA UnderwayEval ==
  ASSUME MirAssumption,
         NEW m, NEW base, NEW fs, NEW vis, Underway(m, base, fs, vis),
         NEW names \in SUBSET (UNION Range(vis)), NEW e \in ExprsOver(names)
  PROVE  LET f == Eval(m, e)
         IN  /\ Underway(f, base, fs, vis)
             /\ Len(m.blocks) <= Len(f.blocks)
             /\ LastVar(f) # 0 => LastVar(f) \in Produced(f)
<1> DEFINE f == Eval(m, e)
           x == Left(m.env, base, Looser)
<1>1. \A n \in names : Usable(m.env, n, base, globals)
  BY ScopeUsable DEF Underway
<1>2. Work(m, m, base, Looser, x)
  BY DEF Underway, Building
<1> HIDE DEF x
<1>3. Evaluated(m, m, f, base, Looser, x)
  <2>1. globals \subseteq Looser
    BY DEF Looser
  <2> QED
    BY <1>1, <1>2, <2>1, EvalWork
<1> HIDE DEF f
<1>4. Underway(f, base, fs, vis)
  BY <1>3, UnderwayEvaluated DEF x
<1>5. f \in Factory /\ 1 <= Len(f.blocks)
  BY <1>4, BuildingTypes DEF Underway
<1>6. Len(m.blocks) <= Len(f.blocks)
  BY <1>3 DEF Evaluated, Work, Grown
<1> QED
  BY <1>4, <1>5, <1>6, LastVarProduced DEF f

\* The frame of a loop and the two blocks that its condition will name.
LEMMA LinkedLoop ==
  ASSUME NEW m \in Factory, NEW f \in Factory, NEW fs \in Seq(Frame), NEW fr \in Frame,
         Linked(m, fs), \A a, b : Edge(m, a, b) => Edge(f, a, b),
         Aimed(f, Len(f.blocks)), Len(f.blocks) = Len(m.blocks) + 2,
         fr.kind = "loop", fr.expr = Len(m.blocks) + 1, fr.cond[1] \in 1..Len(m.blocks)
  PROVE  Linked(f, Append(fs, fr))
<1> DEFINE more == Append(fs, fr)
           n == Len(fs)
           L == Len(m.blocks)
           all == Roots(more, n + 1)
<1>1. /\ n \in Nat /\ Len(more) = n + 1 /\ more[n + 1] = fr
      /\ \A j \in 1..n : more[j] = fs[j]
  <2> DEFINE T == Frame
  <2> HIDE DEF T
  <2>1. fs \in Seq(T) /\ fr \in T
    BY DEF T
  <2> QED
    BY <2>1, Appended
<1>2. L \in Nat
  BY DEF Factory
<1> HIDE DEF more
<1>3. \A k \in 0..n : Roots(more, k) = Roots(fs, k)
  BY <1>1, RootsAgree
<1>4. all = Roots(fs, n) \cup {L + 1, L + 2}
  <2>1. Roots(more, n + 1) = Roots(more, n) \cup {fr.expr, fr.expr + 1}
    BY <1>1, RootsOfOneMore
  <2>2. fr.expr + 1 = L + 2
    BY <1>2
  <2>3. n \in 0..n
    BY <1>1
  <2> QED
    BY <1>3, <2>1, <2>2, <2>3
<1> HIDE DEF all
<1>5. \A b \in 1..L : Reaches(f, Roots(fs, n), b)
  BY ReachesKept DEF Linked
<1>6. ASSUME NEW b \in 1..Len(f.blocks)
      PROVE  Reaches(f, all, b)
  <2>1. CASE b \in 1..L
    BY <1>4, <1>5, <2>1 DEF Reaches
  <2>2. CASE b \notin 1..L
    <3>1. b = L + 1 \/ b = L + 2
      BY <1>2, <2>2
    <3> QED
      BY <1>4, <3>1 DEF Reaches
  <2> QED
    BY <2>1, <2>2
<1>7. ASSUME NEW k \in 1..n + 1, more[k].kind = "loop"
      PROVE  Reaches(f, Roots(more, k - 1), more[k].cond[1])
  <2>1. CASE k = n + 1
    <3>1. k - 1 = n /\ n \in 0..n
      BY <1>1, <2>1
    <3>2. Roots(more, k - 1) = Roots(fs, n) /\ more[k] = fr
      BY <1>1, <1>3, <2>1, <3>1
    <3> QED
      BY <1>5, <3>2
  <2>2. CASE k # n + 1
    <3>1. k \in 1..n /\ k - 1 \in 0..n
      BY <1>1, <2>2
    <3>2. Roots(more, k - 1) = Roots(fs, k - 1) /\ more[k] = fs[k]
      BY <1>1, <1>3, <3>1
    <3>3. Reaches(m, Roots(fs, k - 1), fs[k].cond[1])
      BY <1>7, <3>1, <3>2 DEF Linked
    <3> QED
      BY <3>2, <3>3, ReachesKept
  <2> QED
    BY <2>1, <2>2
<1> QED
  BY <1>1, <1>6, <1>7 DEF Linked, more, all

LEMMA SlotNats ==
  ASSUME NEW m \in Factory, NEW p \in Slots(m)
  PROVE  p \in Nat \X Nat /\ p[1] \in 1..Len(m.blocks)
<1>1. /\ p = <<p[1], p[2]>> /\ p[1] \in 1..Len(m.blocks)
      /\ p[2] \in 1..Len(m.blocks[p[1]])
  BY SlotShape
<1>2. p[1] \in Nat /\ p[2] \in Nat
  BY <1>1
<1> QED
  BY <1>1, <1>2

\* The blocks of the post expression and of the body, from the condition at p on.
LEMMA UnderwayLoops ==
  ASSUME MirAssumption,
         NEW m, NEW base, NEW fs, NEW vis, Underway(m, base, fs, vis),
         NEW p \in Slots(m), NEW t \in 1..Len(m.blocks),
         NEW post \in Name, post \in (UNION Range(vis)) \cup Looser,
         Knows(Emit(AddBlock(m), "CONST_INT", <<Lit>>), post)
  PROVE  LET expr == Emit(AddBlock(m), "CONST_INT", <<Lit>>)
             jump == InsertJump(AddUpdate(expr, post, LastVar(expr)), LastBlock(expr), t)
             fr == [kind |-> "loop", cond |-> p, expr |-> LastBlock(jump), post |-> post]
         IN  Underway(PushEnv(AddBlock(jump)), base, Append(fs, fr), Append(vis, {}))
<1> DEFINE start == AddBlock(m)
           args == <<Lit>>
           op == "CONST_INT"
           expr == Emit(start, op, args)
           next == AddUpdate(expr, post, LastVar(expr))
           jump == InsertJump(next, LastBlock(expr), t)
           f == AddBlock(jump)
           fr == [kind |-> "loop", cond |-> p, expr |-> LastBlock(jump), post |-> post]
           x == Left(m.env, base, Looser)
           L == Len(m.blocks)
<1>1. /\ m \in Factory /\ L \in Nat /\ 1 <= L /\ fs \in Seq(Frame) /\ Looser \subseteq Name
      /\ Work(m, m, base, Looser, x) /\ Building(m, base, globals, Looser, fs, vis)
  BY BuildingTypes, BuildingParts DEF Underway
<1> HIDE DEF x
<1>2. Wider(m, start, base, Looser, x) /\ SameEdges(m, start) /\ Len(start.blocks) = L + 1
  BY <1>1, BlockWork
<1> HIDE DEF start
<1>3. /\ Building(start, base, globals, Looser, fs, vis) /\ Work(start, start, base, Looser, x)
      /\ start.env = m.env /\ Slots(m) \subseteq Slots(start)
  <2>1. Len(m.blocks) <= Len(start.blocks)
    BY <1>1, <1>2
  <2> QED
    BY <1>1, <1>2, <2>1, BuildingGrown DEF Wider, x
<1>4. op \in Ops /\ ValueArgs(op, args, Produced(start), x)
  <2>1. Produced(start) \subseteq Nat
    BY <1>3, WorkTypes
  <2> QED
    BY <2>1, ValueShapes DEF Ops
<1> HIDE DEF op, args
<1>5. GivesValue(start, start, expr, base, Looser, x)
  BY <1>3, <1>4, EmittingValue
<1>6. expr.env = start.env
  BY <1>3, <1>4, Emitting DEF ValueArgs
<1> HIDE DEF expr
<1>7. Usable(expr.env, post, base, Looser) /\ Knows(expr, post)
  <2>1. Knows(expr, post)
    BY DEF expr, start, op, args
  <2>2. CASE post \in Looser
    BY <2>1, <2>2 DEF Usable
  <2>3. CASE post \in UNION Range(vis)
    <3>1. Usable(start.env, post, base, globals)
      BY <1>3, <2>3, ScopeUsable
    <3> QED
      BY <1>6, <2>1, <3>1 DEF Usable, Looser
  <2> QED
    BY <2>2, <2>3
<1>8. /\ Work(start, next, base, Looser, x) /\ Len(next.blocks) = L + 1
      /\ SameEdges(start, next)
  <2> DEFINE v == LastVar(expr)
  <2>1. v \in Produced(expr) /\ Work(start, expr, base, Looser, x)
    BY <1>5 DEF GivesValue
  <2> HIDE DEF v
  <2>2. LET g == AddUpdate(expr, post, v)
        IN  /\ Work(start, g, base, Looser, x) /\ Len(g.blocks) = Len(expr.blocks)
            /\ SameEdges(expr, g)
    BY <1>7, <2>1, Updating
  <2> QED
    BY <1>2, <1>5, <2>2 DEF GivesValue, SameEdges, v
<1>9. LastBlock(expr) = L + 1
  BY <1>2, <1>5 DEF GivesValue, LastBlock
<1> HIDE DEF next
<1>10. Building(next, base, globals, Looser, fs, vis) /\ Left(next.env, base, Looser) = x
       /\ Slots(start) \subseteq Slots(next)
  <2>1. Left(start.env, base, Looser) = x
    BY <1>3 DEF x
  <2>2. Building(next, base, globals, Looser, fs, vis)
    BY <1>3, <1>8, <2>1, BuildingKept
  <2>3. Left(next.env, base, Looser) = x
    BY <1>1, <1>8, <2>1, LeftKept DEF Work, Keeps
  <2> QED
    BY <1>8, <2>2, <2>3 DEF Work, Grown
<1>11. /\ Wider(next, jump, base, Looser, x) /\ NewEdge(next, jump, L + 1, t)
       /\ Len(jump.blocks) = L + 1
  <2>1. L + 1 \in 1..Len(next.blocks) /\ t \in Nat
    BY <1>1, <1>8
  <2>2. Work(next, next, base, Looser, x)
    BY <1>10 DEF Building
  <2> QED
    BY <1>8, <1>9, <2>1, <2>2, JumpWork
<1> HIDE DEF jump
<1>12. Wider(jump, f, base, Looser, x) /\ SameEdges(jump, f) /\ Len(f.blocks) = L + 2
  <2>1. Work(jump, jump, base, Looser, x)
    BY <1>11 DEF Wider
  <2>2. Len(f.blocks) = (L + 1) + 1
    BY <1>11, <2>1, BlockWork
  <2> QED
    BY <1>1, <1>11, <2>1, <2>2, BlockWork
<1> HIDE DEF f
<1>13. Wider(next, f, base, Looser, x)
  BY <1>11, <1>12, WiderChained
<1>14. Building(f, base, globals, Looser, fs, vis) /\ f \in Factory
  <2>1. Len(next.blocks) <= Len(f.blocks)
    BY <1>1, <1>8, <1>12
  <2>2. Building(f, base, globals, Looser, fs, vis)
    BY <1>10, <1>13, <2>1, BuildingGrown
  <2> QED
    BY <2>2, BuildingTypes
<1>15. p \in Slots(f)
  BY <1>3, <1>10, <1>13 DEF Wider
<1>16. \A a, b : Edge(f, a, b) <=> Edge(m, a, b) \/ (a = L + 1 /\ b = t)
  BY <1>2, <1>8, <1>11, <1>12 DEF SameEdges, NewEdge
<1>17. Aimed(f, Len(f.blocks))
  <2>1. ASSUME NEW a, NEW b, Edge(f, a, b)
        PROVE  b \in 1..L
    BY <1>16, <2>1 DEF Underway, Linked, Aimed
  <2>2. \A b \in 1..L : b \in 1..Len(f.blocks)
    BY <1>1, <1>12
  <2> QED
    BY <2>1, <2>2 DEF Aimed
<1>18. fr.kind = "loop" /\ fr.cond = p /\ fr.expr = L + 1 /\ fr.cond[1] \in 1..L /\ fr \in Frame
  <2>1. p \in Nat \X Nat /\ p[1] \in 1..L
    BY <1>1, SlotNats
  <2>2. fr.kind = "loop" /\ fr.cond = p /\ fr.expr = L + 1 /\ L + 1 \in Nat
    BY <1>1, <1>11 DEF LastBlock
  <2> QED
    BY <2>1, <2>2 DEF Frame
<1> HIDE DEF fr
<1>19. Linked(f, Append(fs, fr))
  BY <1>1, <1>12, <1>14, <1>16, <1>17, <1>18, LinkedLoop DEF Underway
<1>20. Suspended(f, fr, base, globals, Looser, vis, Len(vis))
  <2>1. fr.expr + 1 = L + 2
    BY <1>1, <1>18
  <2>2. fr.expr \in 1..Len(f.blocks) /\ fr.expr + 1 \in 1..Len(f.blocks)
    BY <1>1, <1>12, <1>18, <2>1
  <2> QED
    BY <1>15, <1>18, <2>2 DEF Suspended
<1> DEFINE g == PushEnv(f)
<1>21. Building(g, base, globals, Looser, Append(fs, fr), Append(vis, {})) /\ g.blocks = f.blocks
  BY <1>14, <1>18, <1>20, BuildingPushed
<1> HIDE DEF g
<1>22. Linked(g, Append(fs, fr))
  <2>1. g \in Factory
    BY <1>21, BuildingTypes
  <2>2. SameEdges(f, g) /\ Len(g.blocks) = Len(f.blocks)
    BY <1>21 DEF SameEdges, Edge, Slots, Slot
  <2> QED
    BY <1>14, <1>19, <2>1, <2>2, GoesOn, LinkedGoes
<1> QED
  BY <1>21, <1>22 DEF Underway, g, f, fr, jump, next, expr, start, op, args

\* The names that the parts of a loop may use.
LEMMA NamesWithInit ==
  ASSUME NEW m, NEW base, Building(m, base, globals, Looser, frames, visible),
         NEW init \in Fresh \cup {None}, init # None
  PROVE  LET vis == [visible EXCEPT ![Len(visible)] = @ \cup {init}]
         IN  /\ (InScope \cup {init}) \ {None} \in SUBSET (UNION Range(vis))
             /\ InScope \cup {init} \subseteq UNION Range(vis)
             /\ InScope \cup {init} \subseteq Name \cup {init}
<1> DEFINE L == Len(visible)
           vis == [visible EXCEPT ![L] = @ \cup {init}]
           T == SUBSET Name
<1>1. visible \in Seq(T) /\ visible[1] = globals /\ L \in Nat /\ Len(frames) \in Nat /\ L = Len(frames) + 2
  BY BuildingTypes, BuildingParts
<1>2. 1 \in 1..L /\ L \in 1..L
  BY <1>1
<1> HIDE DEF T
<1>3. DOMAIN visible = 1..L /\ DOMAIN vis = 1..L
  BY <1>1
<1> HIDE DEF L
<1>4. \A i \in 1..L : visible[i] \subseteq vis[i]
  BY <1>3
<1>5. init \in vis[L]
  BY <1>2, <1>3
<1> HIDE DEF vis
<1>6. \A i \in 1..L : vis[i] \subseteq UNION Range(vis)
  BY <1>3 DEF Range
<1>7. InScope \subseteq UNION Range(vis)
  BY <1>3, <1>4, <1>6 DEF InScope, Range
<1>8. init \in UNION Range(vis)
  BY <1>2, <1>5, <1>6
<1>9. InScope \subseteq Name
  BY <1>1, <1>3 DEF InScope, Range, T
<1> QED
  BY <1>7, <1>8, <1>9 DEF vis, L

LEMMA AppendedLast ==
  ASSUME NEW T, NEW q \in Seq(T), NEW x
  PROVE  Len(Append(q, x)) > Len(q) /\ Last(Append(q, x)) = x
<1>1. Len(Append(q, x)) = Len(q) + 1 /\ Append(q, x)[Len(q) + 1] = x /\ Len(q) \in Nat
  OBVIOUS
<1> QED
  BY <1>1 DEF Last

LEMMA AppendedEmpty ==
  ASSUME NEW q \in Seq(SUBSET Name)
  PROVE  UNION Range(Append(q, {})) = UNION Range(q)
<1>1. /\ DOMAIN q = 1..Len(q) /\ Len(q) \in Nat
      /\ DOMAIN Append(q, {}) = 1..Len(q) + 1 /\ Append(q, {})[Len(q) + 1] = {}
      /\ \A i \in 1..Len(q) : Append(q, {})[i] = q[i]
  OBVIOUS
<1>2. \A i \in 1..Len(q) : i \in 1..Len(q) + 1
  BY <1>1
<1>3. \A i \in 1..Len(q) + 1 : i \in 1..Len(q) \/ i = Len(q) + 1
  BY <1>1
<1> DEFINE r == Append(q, {})
           n == Len(q)
<1> HIDE DEF r, n
<1> QED
  BY <1>1, <1>2, <1>3 DEF Range, r, n

LEMMA EnterLoopStep ==
  ASSUME MirAssumption, MirInv, NEW init, NEW c, NEW post, EnterLoop(init, c, post),
         Noted, taken' = taken \cup TakenAhead
  PROVE  MirInv'
<1> DEFINE const == Emit(mir, "CONST_INT", <<Lit>>)
           bound == VarBind(const, init, LastVar(const))
           condBlock == LastBlock(bound) + 1
           start == AddBlock(AddInstr(bound, "JUMP", <<Lab(condBlock)>>))
           value == Eval(start, c)
           cond == Emit(value, "COND_JUMP", <<V(LastVar(value))>>)
           expr == Emit(AddBlock(cond), "CONST_INT", <<Lit>>)
           jump == InsertJump(AddUpdate(expr, post, LastVar(expr)), LastBlock(expr), condBlock)
           f == PushEnv(AddBlock(jump))
           fr == [kind |-> "loop", cond |-> LastInstr(cond), expr |-> LastBlock(jump),
                  post |-> post]
           vis == [visible EXCEPT ![Len(visible)] = @ \cup {init}]
<1>1. /\ status = "function"
      /\ init \in Fresh \cup {None}
      /\ c \in ExprsOver((InScope \cup {init}) \ {None}) \cup {None}
      /\ post \in PostNames(init) \cup {None}
  BY DEF EnterLoop, Stmt
<1>2. CASE None \in {init, c, post}
  <2>1. Throw("unexpected_nullptr")
    BY <1>2 DEF EnterLoop
  <2> QED
    BY <1>1, <2>1, ThrowStep
<1>3. CASE None \notin {init, c, post} /\ ~CanBind(mir, init)
  <2>1. Throw("not_inserted")
    BY <1>3 DEF EnterLoop
  <2> QED
    BY <1>1, <2>1, ThrowStep
<1>4. ASSUME None \notin {init, c, post}, CanBind(mir, init)
      PROVE  MirInv'
  <2>1. WithValue(value, IF ~Knows(expr, post) THEN Throw("not_defined")
                         ELSE /\ mir' = f /\ frames' = Append(frames, fr)
                              /\ visible' = Append(vis, {}) /\ Counted
                              /\ UNCHANGED <<globals, status>>)
    BY <1>4 DEF EnterLoop
  <2>2. PICK base \in Nat : Underway(mir, base, frames, visible)
    BY <1>1, UnderwayNow
  <2>3. init \in Name
    BY <1>1, <1>4 DEF Fresh, MirInv, MirAssumption
  <2>4. \A m : Underway(m, base, frames, visible) => Produced(m) \subseteq Nat
    BY WorkTypes DEF Underway, Building
  <2>5. Underway(const, base, frames, visible) /\ const.env = mir.env /\ LastVar(const) \in Produced(const)
    <3> DEFINE op == "CONST_INT"
               args == <<Lit>>
               y == Left(mir.env, base, Looser)
    <3>1. op \in Ops /\ ValueArgs(op, args, Produced(mir), y)
      BY <2>2, <2>4, ValueShapes DEF Ops
    <3> HIDE DEF op, args
    <3>2. LET g == Emit(mir, op, args)
          IN  Underway(g, base, frames, visible) /\ g.env = mir.env /\ LastVar(g) \in Produced(g)
      BY <2>2, <3>1, UnderwayEmits
    <3> QED
      BY <3>2 DEF op, args
  <2> HIDE DEF const
  <2>6. CanBind(const, init)
    BY <1>4, <2>5 DEF CanBind
  <2>7. Underway(bound, base, frames, vis)
    <3> DEFINE v == LastVar(const)
    <3>1. v \in Produced(const)
      BY <2>5
    <3> HIDE DEF v
    <3>2. Underway(VarBind(const, init, v), base, frames, vis)
      BY <2>3, <2>5, <2>6, <3>1, UnderwayBinds
    <3> QED
      BY <3>2 DEF v
  <2> HIDE DEF bound
  <2>8. Underway(start, base, frames, vis) /\ Len(start.blocks) = Len(bound.blocks) + 1
    BY <2>7, UnderwayJumps
  <2> HIDE DEF start
  <2>9. /\ (InScope \cup {init}) \ {None} \in SUBSET (UNION Range(vis))
        /\ post \in Name
    <3>1. post \in InScope \cup {init} \cup Fresh /\ init # None
      BY <1>1, <1>4 DEF PostNames
    <3>2. Fresh \subseteq Name
      BY DEF Fresh, MirInv, MirAssumption
    <3> QED
      BY <1>1, <2>2, <2>3, <3>1, <3>2, NamesWithInit DEF Underway
  <2> HIDE DEF vis
  <2>10. /\ Underway(value, base, frames, vis) /\ Len(start.blocks) <= Len(value.blocks)
         /\ LastVar(value) # 0 => LastVar(value) \in Produced(value)
    <3> DEFINE names == (InScope \cup {init}) \ {None}
    <3>1. c \in ExprsOver(names) /\ names \in SUBSET (UNION Range(vis))
      BY <1>1, <1>4, <2>9
    <3> HIDE DEF names
    <3> QED
      BY <2>8, <3>1, UnderwayEval
  <2> HIDE DEF value
  <2>11. CASE LastVar(value) = 0
    BY <1>1, <2>1, <2>11, ThrowStep DEF WithValue
  <2>12. CASE LastVar(value) # 0 /\ ~Knows(expr, post)
    <3> HIDE DEF expr
    <3> QED
      BY <1>1, <2>1, <2>12, ThrowStep DEF WithValue
  <2>13. CASE LastVar(value) # 0 /\ Knows(expr, post)
    <3>1. /\ mir' = f /\ frames' = Append(frames, fr) /\ visible' = Append(vis, {})
          /\ globals' = globals /\ status' = "function"
      BY <1>1, <2>1, <2>13 DEF WithValue
    <3>2. /\ Underway(cond, base, frames, vis) /\ LastInstr(cond) \in Slots(cond)
          /\ Len(cond.blocks) = Len(value.blocks)
      <4> DEFINE op == "COND_JUMP"
                 v == LastVar(value)
                 args == <<V(v)>>
                 y == Left(value.env, base, Looser)
      <4>1. v \in Produced(value) /\ Produced(value) \subseteq Nat
        BY <2>10, <2>13, WorkTypes DEF Underway, Building
      <4> HIDE DEF v
      <4>2. op \in Ops /\ ValueArgs(op, args, Produced(value), y)
        BY <4>1, ValueShapes DEF Ops
      <4> HIDE DEF op, args
      <4>3. LET g == Emit(value, op, args)
            IN  Underway(g, base, frames, vis) /\ LastInstr(g) \in Slots(g)
                /\ Len(g.blocks) = Len(value.blocks)
        BY <2>10, <4>2, UnderwayEmits
      <4> QED
        BY <4>3 DEF op, args, v
    <3> HIDE DEF cond
    <3>3. condBlock \in 1..Len(cond.blocks)
      <4>1. condBlock = Len(bound.blocks) + 1
        BY DEF LastBlock
      <4>2. Len(bound.blocks) \in Nat /\ Len(cond.blocks) \in Nat
        BY <2>7, <3>2, BuildingTypes DEF Underway
      <4> QED
        BY <2>8, <2>10, <3>2, <4>1, <4>2
    <3> HIDE DEF condBlock
    <3> DEFINE p == LastInstr(cond)
    <3>4. p \in Slots(cond)
      BY <3>2
    <3> HIDE DEF p
    <3>5. post \in (UNION Range(vis)) \cup Looser
      <4>1. frames \in Seq(Frame) /\ vis \in Seq(SUBSET Name)
        BY <3>2 DEF Underway, Building
      <4>2. Len(frames') > Len(frames) /\ Last(frames') = fr
        <5> HIDE DEF fr
        <5> QED
          BY <3>1, <4>1, AppendedLast
      <4>3. Last(frames').kind = "loop" /\ Last(frames').post = post
        BY <4>2
      <4>4. UNION Range(visible') = UNION Range(vis)
        BY <3>1, <4>1, AppendedEmpty
      <4>5. post \in UNION Range(vis) \/ post \in TakenAhead
        BY <2>9, <4>2, <4>3, <4>4 DEF TakenAhead
      <4> QED
        BY <4>5 DEF Looser
    <3>6. Underway(f, base,
                   Append(frames, [kind |-> "loop", cond |-> p, expr |-> LastBlock(jump),
                                   post |-> post]),
                   Append(vis, {}))
      BY <2>9, <2>13, <3>2, <3>3, <3>4, <3>5, UnderwayLoops
    <3>7. Underway(f, base, Append(frames, fr), Append(vis, {}))
      BY <3>6 DEF p
    <3> HIDE DEF f, fr
    <3> QED
      BY <3>1, <3>7, UnderwayNext
  <2> QED
    BY <2>11, <2>12, <2>13
<1> QED
  BY <1>2, <1>3, <1>4

\* The blocks of a loop that ends are reached through its condition.
LEMMA LinkedUnlooped ==
  ASSUME NEW m \in Factory, NEW f \in Factory, NEW fs \in Seq(Frame), fs # <<>>,
         NEW fr, fr = Last(fs), fr.kind = "loop", Linked(m, fs),
         \A a, b : Edge(m, a, b) => Edge(f, a, b),
         Edge(f, fr.cond[1], fr.expr + 1), Edge(f, fr.expr + 1, fr.expr),
         Edge(f, fr.cond[1], Len(m.blocks) + 1),
         Len(f.blocks) = Len(m.blocks) + 1, Aimed(f, Len(f.blocks))
  PROVE  Linked(f, Front(fs))
<1> DEFINE rest == Front(fs)
           n == Len(fs)
           L == Len(m.blocks)
<1>1. /\ n \in Nat /\ 1 <= n /\ Len(rest) = n - 1 /\ fr = fs[n]
      /\ \A j \in 1..n - 1 : rest[j] = fs[j]
  <2> DEFINE T == Frame
  <2> HIDE DEF T
  <2>1. fs \in Seq(T)
    BY DEF T
  <2> QED
    BY <2>1, FrontFacts
<1>2. L \in Nat
  BY DEF Factory
<1> HIDE DEF rest
<1>3. \A k \in 0..n - 1 : Roots(rest, k) = Roots(fs, k)
  <2>1. ASSUME NEW k \in 0..n - 1
        PROVE  k \in Nat /\ \A j \in 1..k : rest[j] = fs[j]
    BY <1>1
  <2> QED
    BY <2>1, RootsAgree
<1>4. Roots(fs, n) = Roots(fs, n - 1) \cup {fr.expr, fr.expr + 1}
  <2>1. n - 1 \in Nat /\ (n - 1) + 1 = n
    BY <1>1
  <2> DEFINE k == n - 1
  <2>2. k \in Nat /\ fs[k + 1] = fr /\ k + 1 = n
    BY <1>1, <2>1
  <2> HIDE DEF k
  <2>3. Roots(fs, k + 1) = Roots(fs, k) \cup {fr.expr, fr.expr + 1}
    BY <2>2, RootsOfOneMore
  <2> QED
    BY <2>2, <2>3 DEF k
<1>5. Reaches(m, Roots(fs, n - 1), fr.cond[1])
  BY <1>1 DEF Linked
<1>6. ASSUME NEW b \in 1..Len(f.blocks)
      PROVE  Reaches(f, Roots(fs, n - 1), b)
  <2>1. SUFFICES ASSUME NEW R, Roots(fs, n - 1) \subseteq R, Closed(f, R)
                 PROVE  b \in R
    BY DEF Reaches
  <2>2. Closed(m, R)
    BY <2>1 DEF Closed
  <2>3. fr.cond[1] \in R
    BY <1>5, <2>1, <2>2 DEF Reaches
  <2>4. fr.expr + 1 \in R /\ L + 1 \in R
    BY <2>1, <2>3 DEF Closed
  <2>5. fr.expr \in R
    BY <2>1, <2>4 DEF Closed
  <2>6. Roots(fs, n) \subseteq R
    BY <1>4, <2>1, <2>4, <2>5
  <2>7. \A c \in 1..L : c \in R
    BY <2>2, <2>6 DEF Linked, Reaches
  <2>8. b \in 1..L \/ b = L + 1
    BY <1>2
  <2> QED
    BY <2>4, <2>7, <2>8
<1>7. ASSUME NEW k \in 1..n - 1, rest[k].kind = "loop"
      PROVE  Reaches(f, Roots(rest, k - 1), rest[k].cond[1])
  <2>1. k \in 1..n /\ k - 1 \in 0..n - 1
    BY <1>1
  <2>2. Roots(rest, k - 1) = Roots(fs, k - 1) /\ rest[k] = fs[k]
    BY <1>1, <1>3, <2>1
  <2>3. Reaches(m, Roots(fs, k - 1), fs[k].cond[1])
    BY <1>7, <2>1, <2>2 DEF Linked
  <2> QED
    BY <2>2, <2>3, ReachesKept
<1>8. Roots(rest, Len(rest)) = Roots(fs, n - 1)
  BY <1>1, <1>3
<1> QED
  BY <1>1, <1>6, <1>7, <1>8 DEF Linked, rest

LEMMA LeaveLoopStep ==
  ASSUME MirInv, LeaveLoop, Noted
  PROVE  MirInv'
<1> DEFINE expr == Top.expr
           body == expr + 1
           p == Top.cond
           popped == PopEnv(mir)
           jump == InsertJump(popped, body, expr)
           merge == AddBlock(jump)
           first == AddOperand(merge, p, Lab(body))
           last == LastBlock(merge)
           f == AddOperand(first, p, Lab(last))
           less == Front(visible)
           rest == Front(frames)
           L == Len(mir.blocks)
<1>1. status = "function" /\ frames # <<>> /\ Top.kind = "loop"
  BY DEF LeaveLoop, Leaves
<1>2. /\ mir' = f /\ frames' = rest /\ visible' = less
      /\ globals' = globals /\ status' = "function"
  BY <1>1 DEF LeaveLoop, Pop
<1>3. PICK base \in Nat : Underway(mir, base, frames, visible)
  BY <1>1, UnderwayNow
<1>4. p \in Slots(mir) /\ expr \in 1..L /\ body \in 1..L
  BY <1>1, <1>3, TopSuspended DEF Suspended, Underway
<1>5. mir \in Factory /\ L \in Nat /\ frames \in Seq(Frame)
  BY <1>3, BuildingTypes, BuildingParts DEF Underway
<1>6. expr \in Nat /\ body \in Nat /\ p[1] \in 1..L
  BY <1>4, <1>5, SlotNats
<1>7. Building(popped, base, globals, Looser, rest, less) /\ popped.blocks = mir.blocks
  <2> DEFINE e == Env!PopEnv(mir.env)
  <2>1. Saved(mir, e, base, globals, Looser, visible, Len(visible) - 1)
    BY <1>3, SavedHere DEF Underway
  <2>2. popped = SetEnv(mir, e)
    BY DEF PopEnv, SetEnv
  <2> HIDE DEF e
  <2> QED
    BY <1>1, <1>3, <2>1, <2>2, BuildingRestored DEF Underway
<1> HIDE DEF popped, expr, body, p
<1> DEFINE x == Left(popped.env, base, Looser)
<1>8. Work(popped, popped, base, Looser, x) /\ popped \in Factory
  BY <1>7, BuildingTypes, BuildingParts
<1>9. p \in Slots(popped) /\ SameEdges(mir, popped)
  BY <1>4, <1>7 DEF Slots, Slot, SameEdges, Edge
<1> HIDE DEF x
<1>10. Wider(popped, jump, base, Looser, x) /\ NewEdge(popped, jump, body, expr)
       /\ Len(jump.blocks) = L
  BY <1>4, <1>6, <1>7, <1>8, JumpWork
<1> HIDE DEF jump
<1>11. Wider(jump, merge, base, Looser, x) /\ SameEdges(jump, merge) /\ Len(merge.blocks) = L + 1
  <2>1. Work(jump, jump, base, Looser, x)
    BY <1>10 DEF Wider
  <2> QED
    BY <1>10, <2>1, BlockWork
<1>12. last = L + 1
  BY <1>11 DEF LastBlock
<1> HIDE DEF merge, last
<1>13. Wider(merge, first, base, Looser, x) /\ NewEdge(merge, first, p[1], body)
       /\ Len(first.blocks) = L + 1
  <2>1. Work(merge, merge, base, Looser, x) /\ p \in Slots(merge)
    BY <1>9, <1>10, <1>11 DEF Wider
  <2> QED
    BY <1>6, <1>11, <2>1, LabelWork
<1> HIDE DEF first
<1>14. Wider(first, f, base, Looser, x) /\ NewEdge(first, f, p[1], last)
       /\ Len(f.blocks) = L + 1
  <2>1. Work(first, first, base, Looser, x) /\ p \in Slots(first)
    BY <1>9, <1>10, <1>11, <1>13 DEF Wider
  <2>2. last \in Nat
    BY <1>5, <1>12
  <2> QED
    BY <1>13, <2>1, <2>2, LabelWork
<1> HIDE DEF f
<1>15. Wider(popped, f, base, Looser, x)
  BY <1>10, <1>11, <1>13, <1>14, WiderChained
<1>16. Building(f, base, globals, Looser, rest, less) /\ f \in Factory
  <2>1. Len(popped.blocks) <= Len(f.blocks)
    BY <1>5, <1>7, <1>14
  <2>2. Building(f, base, globals, Looser, rest, less)
    BY <1>7, <1>15, <2>1, BuildingGrown DEF x
  <2> QED
    BY <2>2, BuildingTypes
<1>17. \A a, b : Edge(f, a, b) <=> \/ Edge(mir, a, b)
                                   \/ a = body /\ b = expr
                                   \/ a = p[1] /\ b = body
                                   \/ a = p[1] /\ b = last
  BY <1>9, <1>10, <1>11, <1>13, <1>14 DEF SameEdges, NewEdge
<1>18. Aimed(f, Len(f.blocks))
  <2>1. Aimed(mir, L)
    BY <1>3 DEF Underway, Linked
  <2>2. \A b \in 1..L : b \in 1..Len(f.blocks)
    BY <1>5, <1>14
  <2>3. last \in 1..Len(f.blocks)
    BY <1>5, <1>12, <1>14
  <2> QED
    BY <1>4, <1>17, <2>1, <2>2, <2>3 DEF Aimed
<1>19. Linked(f, rest)
  <2> DEFINE fr == Top
  <2>1. fr = Last(frames) /\ fr.kind = "loop" /\ fr.expr = expr /\ fr.expr + 1 = body /\ fr.cond = p
    BY <1>1 DEF Top, expr, body, p
  <2> HIDE DEF fr
  <2>2. Edge(f, fr.cond[1], fr.expr + 1) /\ Edge(f, fr.expr + 1, fr.expr)
        /\ Edge(f, fr.cond[1], L + 1)
    BY <1>12, <1>17, <2>1
  <2> QED
    BY <1>1, <1>3, <1>5, <1>14, <1>16, <1>17, <1>18, <2>1, <2>2, LinkedUnlooped DEF Underway
<1>20. Underway(f, base, rest, less)
  BY <1>16, <1>19 DEF Underway
<1> HIDE DEF rest, less
<1>21. mir' = f
  BY <1>2 DEF f, first, last, merge, jump, popped, expr, body, p
<1> QED
  BY <1>2, <1>20, <1>21, UnderwayNext

-----------------------------------------------------------------------------
(* The inductive invariant.                                                 *)

LEMMA MirStart ==
  ASSUME MirAssumption, Init
  PROVE  MirInv
<1>1. Empty \in Factory /\ Empty.blocks = <<>> /\ Empty.params = {} /\ Empty.next = 1
  <2>1. Env!EmptyScope \in Env!Scope
    BY DEF Env!EmptyScope, Env!Scope
  <2>2. Env!Cleared \in Seq(Env!Scope)
    BY <2>1 DEF Env!Cleared
  <2> QED
    BY <2>2 DEF Empty, Factory
<1>2. Slots(Empty) = {}
  BY <1>1 DEF Slots
<1> DEFINE x == Left(Empty.env, 0, Loose)
<1> HIDE DEF x
<1>3. Sound(Empty, x)
  BY <1>1, <1>2 DEF Sound
<1>4. 0 \in Nat /\ 0 <= Len(Empty.env)
  BY <1>1 DEF Factory
<1> QED
  BY <1>3, <1>4 DEF MirInv, Init, Loose, x

LEMMA MirStutter ==
  ASSUME MirInv, UNCHANGED vars
  PROVE  MirInv'
<1>1. /\ mir' = mir /\ globals' = globals /\ frames' = frames /\ visible' = visible
      /\ status' = status /\ profile' = profile /\ Loose' = Loose
  BY DEF vars, mirVars, Loose
<1> QED
  BY <1>1 DEF MirInv

LEMMA MirStep ==
  ASSUME MirAssumption, MirInv, Next
  PROVE  MirInv'
<1>1. Step /\ Noted /\ taken' = taken \cup TakenAhead
  BY DEF Next, Noted, TakenAhead, MirInv, Loose
<1>2. ASSUME NEW n \in Name, DeclareGlobal(n)
      PROVE  MirInv'
  BY <1>1, <1>2, DeclareStep
<1>3. ASSUME NEW n \in Name, NEW op \in {"sum", "difference"} \cap Features, VisitIncrement(n, op)
      PROVE  MirInv'
  BY <1>1, <1>3, IncrementStep
<1>4. ASSUME NEW p \in Fresh \cup {None}, EnterFunction(p)
      PROVE  MirInv'
  BY <1>1, <1>4, EnterFunctionStep
<1>5. CASE LeaveFunction
  BY <1>1, <1>5, LeaveFunctionStep
<1>6. CASE Finish
  BY <1>1, <1>6, FinishStep
<1>7. ASSUME NEW e \in Exprs, VisitCall(e)
      PROVE  MirInv'
  BY <1>1, <1>7, CallStep
<1>8. ASSUME NEW n \in Name, NEW e \in Exprs, VisitBinding(n, e)
      PROVE  MirInv'
  BY <1>1, <1>8, BindingStep
<1>9. ASSUME NEW n \in Name, NEW e \in Exprs, VisitAssign(n, e)
      PROVE  MirInv'
  BY <1>1, <1>9, AssignStep
<1>10. ASSUME NEW n \in Name, NEW e \in Exprs, NEW op \in CompoundOps, VisitCompound(n, e, op)
       PROVE  MirInv'
  BY <1>1, <1>10, CompoundStep
<1>11. ASSUME NEW e \in Exprs, NEW alt \in BOOLEAN, EnterIf(e, alt)
       PROVE  MirInv'
  BY <1>1, <1>11, EnterIfStep
<1>12. ASSUME NEW e \in Exprs \cup {None}, VisitReturn(e)
       PROVE  MirInv'
  BY <1>1, <1>12, ReturnStep
<1>13. ASSUME NEW c, NEW init, NEW post, EnterLoop(init, c, post)
       PROVE  MirInv'
  BY <1>1, <1>13, EnterLoopStep
<1>14. ASSUME NEW op \in {"CONTINUE", "BREAK"}, VisitJump(op)
       PROVE  MirInv'
  BY <1>1, <1>14, JumpStep
<1>15. CASE VisitDefer
  BY <1>1, <1>15, DeferStep
<1>16. CASE LeaveThen
  BY <1>1, <1>16, LeaveThenStep
<1>17. CASE LeaveLoop
  BY <1>1, <1>17, LeaveLoopStep
<1>18. ASSUME NEW reached, LeaveElse(reached)
       PROVE  MirInv'
  BY <1>1, <1>18, LeaveElseStep
<1> HIDE DEF MirInv
<1> QED
  BY <1>1, <1>2, <1>3, <1>4, <1>5, <1>6, <1>7, <1>8, <1>9, <1>10, <1>11, <1>12, <1>13,
     <1>14, <1>15, <1>16, <1>17, <1>18 DEF Step

\* Wherever the builder is, the code it has emitted is sound, what its suspended
\* visits have saved is bound and every block is linked to the entry.
THEOREM Invariance == Spec => []MirInv
<1>1. Init => MirInv
  BY MirAssumption, MirStart
<1>2. MirInv /\ [Next]_vars => MirInv'
  BY MirAssumption, MirStep, MirStutter
<1> QED
  BY <1>1, <1>2, PTL DEF Spec

-----------------------------------------------------------------------------
(* What the invariant says of the code of a function.                       *)

LEMMA SlotsAreInstrs ==
  Instrs = Slots(mir) /\ \A p : Get(p) = Slot(mir, p)
BY DEF Instrs, Slots, Get, Slot, Blocks

LEMMA MirSound ==
  ASSUME MirInv
  PROVE  \E base \in Nat : Sound(mir, Left(mir.env, base, Loose)) /\ base <= Len(mir.env)
BY DEF MirInv

\* Each SSA variable is the result of one instruction of a function at most, however
\* the visitor jumps between the blocks of nested statements, and none is both a
\* parameter and a result.
THEOREM VariablesAreAssignedOnce == Spec => []SingleAssignment
<1>1. ASSUME MirInv
      PROVE  SingleAssignment
  <2>1. PICK base \in Nat : Sound(mir, Left(mir.env, base, Loose))
    BY <1>1, MirSound
  <2> QED
    BY <2>1, SlotsAreInstrs DEF Sound, SingleAssignment
<1> QED
  BY <1>1, Invariance, PTL

\* Every variable that an instruction reads is a parameter or the result of an
\* instruction in front of it in the same function, up to the nulls of a call and
\* the phis of leftover entries.
THEOREM NothingIsReadUnproduced == Spec => []ReadsAreProduced
<1>1. ASSUME MirInv
      PROVE  ReadsAreProduced
  <2>1. PICK base \in Nat : Sound(mir, Left(mir.env, base, Loose)) /\ base <= Len(mir.env)
    BY <1>1, MirSound
  <2> DEFINE x == Left(mir.env, base, Loose)
  <2>2. x # {} => Leftover
    <3>1. ASSUME NEW n \in Loose, NEW d \in 1..base, Held(mir.env, d, n)
          PROVE  Knows(mir, n)
      <4>1. mir.env \in Seq(Env!Scope)
        BY <2>1 DEF Sound, Factory
      <4>2. d \in DOMAIN mir.env
        BY <2>1, <4>1
      <4> QED
        BY <3>1, <4>2 DEF Held, Knows, Env!Contains, Env!Holders
    <3> QED
      BY <3>1 DEF Left, Leftover, Loose
  <2> HIDE DEF x
  <2>3. ASSUME NEW p \in Instrs, NEW v \in Reads(p)
        PROVE  ArgReads(Slot(mir, p).args, v)
    BY <2>3, SlotsAreInstrs DEF Reads, ArgReads, IsRead
  <2> QED
    BY <2>1, <2>2, <2>3, SlotsAreInstrs DEF Sound, ReadsAreProduced, x
<1> QED
  BY <1>1, Invariance, PTL

\* Branches, merges and loops keep an entry for every local that is in scope, so that
\* its lookup succeeds.  A lookup that has failed was of a global or of a name that a
\* post expression takes from the body behind it: it was of no local in scope.
THEOREM LocalsKeepTheirVariables == Spec => []VisibleBound
<1>1. ASSUME MirInv
      PROVE  VisibleBound
  <2>1. ASSUME NEW n \in Locals, status \in {"function", "not_defined"}
        PROVE  Knows(mir, n)
    <3>1. PICK base \in Nat : Building(mir, base, globals, Loose, frames, visible)
      BY <1>1, <2>1 DEF MirInv
    <3> QED
      BY <3>1, ScopeUsable DEF Locals, InScope
  <2> QED
    BY <2>1 DEF VisibleBound
<1> QED
  BY <1>1, Invariance, PTL

-----------------------------------------------------------------------------
(* Reach goes on from the entry as often as there are blocks.  It either grows *)
(* each time or is closed, so in the end it is closed.                       *)

LEMMA SuccessorsAreEdges ==
  ASSUME mir \in Factory, NEW b \in 1..Len(mir.blocks), NEW c
  PROVE  c \in Succ(b) <=> Edge(mir, b, c)
<1>1. \A i : c \in Targets(<<b, i>>) <=> ArgNames(Slot(mir, <<b, i>>).args, c)
  BY SlotsAreInstrs DEF Targets, ArgNames, IsLabel
<1>2. c \in Succ(b) <=> \E i \in DOMAIN mir.blocks[b] : ArgNames(Slot(mir, <<b, i>>).args, c)
  BY <1>1 DEF Succ, Blocks
<1>3. \A i \in DOMAIN mir.blocks[b] : <<b, i>> \in Slots(mir) /\ <<b, i>>[1] = b
  BY DEF Slots, Factory
<1>4. \A p \in Slots(mir) : p[1] = b => p = <<b, p[2]>> /\ p[2] \in DOMAIN mir.blocks[b]
  BY DEF Slots
<1> QED
  BY <1>2, <1>3, <1>4 DEF Edge

LEMMA ReachIsClosed ==
  ASSUME mir \in Factory, 1 <= Len(mir.blocks), Aimed(mir, Len(mir.blocks))
  PROVE  /\ Reach({}) \subseteq 1..Len(mir.blocks)
         /\ {1} \subseteq Reach({})
         /\ Closed(mir, Reach({}))
<1> DEFINE n == Len(mir.blocks)
           S == SUBSET (1..n)
           z == {1} \ {}
           On(R) == R \cup ((UNION {Succ(b) : b \in R}) \ {})
           Solves(w) == w = [k \in 0..n |-> IF k = 0 THEN {1} \ {}
                                            ELSE LET prev == w[k - 1]
                                                 IN  prev \cup ((UNION {Succ(b) : b \in prev}) \ {})]
           F == [k \in 1..n |-> [R \in S |-> On(R)]]
<1>1. n \in Nat /\ 1 \in 1..n
  BY DEF Factory
<1>2. \A b \in 1..n : \A c : c \in Succ(b) <=> Edge(mir, b, c)
  BY SuccessorsAreEdges
<1>3. ASSUME NEW R \in S
      PROVE  /\ On(R) \in S /\ R \subseteq On(R)
             /\ \A c : c \in On(R) <=> c \in R \/ \E b \in R : Edge(mir, b, c)
  <2>1. \A c : c \in On(R) <=> c \in R \/ \E b \in R : Edge(mir, b, c)
    BY <1>2
  <2>2. \A b, c : Edge(mir, b, c) => c \in 1..n
    BY DEF Aimed
  <2> QED
    BY <2>1, <2>2
<1>4. z \in S /\ z = {1}
  BY <1>1
<1> HIDE DEF On, S
<1>5. F \in Steps(n, S)
  BY <1>3 DEF Steps
<1>6. PICK b \in [0..n -> S] : \A k \in 0..n : b[k] = IF k = 0 THEN z ELSE F[k][b[k - 1]]
  <2> HIDE DEF F, n, z
  <2>1. Solved(n, S, z, F)
    BY <1>1, <1>4, <1>5, Solution
  <2> QED
    BY <2>1, Zenon DEF Solved
<1>7. \A k \in 0..n : b[k] = IF k = 0 THEN z ELSE On(b[k - 1])
  <2>1. \A k \in 0..n : k # 0 => k \in 1..n /\ b[k - 1] \in S
    BY <1>1
  <2>2. \A k \in 1..n, R \in S : F[k][R] = On(R)
    OBVIOUS
  <2> HIDE DEF F, n, z
  <2> QED
    BY <1>6, <2>1, <2>2
<1>8. Solves(b)
  <2>1. b = [k \in 0..n |-> b[k]]
    OBVIOUS
  <2> HIDE DEF n
  <2> QED
    BY <1>7, <2>1 DEF z, On
<1> DEFINE r == CHOOSE w : Solves(w)
<1>9. Reach({}) = r[n]
  BY DEF Reach, Blocks
<1>10. Solves(r)
  <2> HIDE DEF Solves
  <2> QED
    BY <1>8
<1>11. \A k \in 0..n : r[k] = IF k = 0 THEN z ELSE On(r[k - 1])
  <2> HIDE DEF n, r
  <2> QED
    BY <1>10 DEF z, On
<1> HIDE DEF r, n, z
<1>12. ASSUME NEW R \in S
       PROVE  IsFiniteSet(R) /\ Cardinality(R) \in Nat /\ Cardinality(R) <= n
  <2>1. IsFiniteSet(1..n) /\ Cardinality(1..n) = n
    BY <1>1, FS_Interval
  <2>2. IsFiniteSet(R) /\ Cardinality(R) <= Cardinality(1..n)
    BY <2>1, FS_Subset DEF S
  <2> QED
    BY <2>1, <2>2, FS_CardinalityType
<1> DEFINE Fits(k) == /\ r[k] \in S /\ {1} \subseteq r[k]
                      /\ k + 1 <= Cardinality(r[k]) \/ Closed(mir, r[k])
           T == {k \in 0..n : Fits(k)}
<1>13. Fits(0)
  <2>1. r[0] = {1} /\ r[0] \in S
    BY <1>1, <1>4, <1>11
  <2>2. Cardinality({1}) = 1
    BY FS_Singleton
  <2> QED
    BY <2>1, <2>2
<1>14. ASSUME NEW k \in 1..n, Fits(k - 1)
       PROVE  Fits(k)
  <2> DEFINE R == r[k - 1]
  <2>1. r[k] = On(R) /\ R \in S /\ {1} \subseteq R
    <3>1. k \in 0..n /\ k # 0
      BY <1>1
    <3> QED
      BY <1>11, <1>14, <3>1
  <2>2. (k - 1) + 1 = k
    BY <1>1
  <2>3. k <= Cardinality(R) \/ Closed(mir, R)
    BY <1>14, <2>2
  <2> HIDE DEF R
  <2>4. On(R) \in S /\ R \subseteq On(R)
    BY <1>3, <2>1
  <2>5. CASE Closed(mir, R)
    <3>1. On(R) = R
      BY <1>3, <2>1, <2>5 DEF Closed
    <3> QED
      BY <2>1, <2>5, <3>1
  <2>6. CASE ~Closed(mir, R)
    <3>1. R # On(R)
      BY <1>3, <2>1, <2>6 DEF Closed
    <3>2. Cardinality(R) < Cardinality(On(R))
      BY <1>12, <2>1, <2>4, <3>1, FS_Subset
    <3>3. Cardinality(R) \in Nat /\ Cardinality(On(R)) \in Nat
      BY <1>12, <2>1, <2>4
    <3>4. k + 1 <= Cardinality(On(R))
      BY <2>3, <2>6, <3>2, <3>3
    <3> QED
      BY <2>1, <2>4, <3>4
  <2> QED
    BY <2>5, <2>6
<1> HIDE DEF Fits
<1>15. Fits(n)
  <2>1. 0 \in T
    BY <1>1, <1>13
  <2>2. ASSUME NEW k \in 1..n, k - 1 \in T
        PROVE  k \in T
    BY <1>1, <1>14, <2>2
  <2> HIDE DEF T
  <2>3. \A k \in 0..n : k \in T
    BY <1>1, <2>1, <2>2, Upwards
  <2>4. n \in 0..n
    BY <1>1
  <2> QED
    BY <2>3, <2>4 DEF T
<1>16. ~(n + 1 <= Cardinality(r[n])) /\ r[n] \subseteq 1..n
  <2>1. r[n] \in S
    BY <1>15 DEF Fits
  <2> QED
    BY <1>1, <1>12, <2>1 DEF S
<1> QED
  BY <1>9, <1>15, <1>16 DEF Fits, n

\* In a complete function, control can reach every block from the entry: no branch,
\* loop or short circuit forgets to link a block that it has created.
THEOREM EveryBlockIsReached == Spec => []AllBlocksReachable
<1>1. ASSUME MirInv
      PROVE  AllBlocksReachable
  <2> SUFFICES ASSUME Complete
               PROVE  Reach({}) = 1..Len(mir.blocks)
    BY DEF AllBlocksReachable, Blocks
  <2> DEFINE n == Len(mir.blocks)
             R == Reach({})
  <2>1. PICK base \in Nat : Building(mir, base, globals, Loose, frames, visible)
    BY <1>1 DEF Complete, MirInv
  <2>2. mir \in Factory /\ 1 <= n
    BY <2>1, BuildingTypes
  <2>3. Linked(mir, frames) /\ frames = <<>>
    BY <1>1 DEF MirInv, Complete
  <2>4. Roots(frames, Len(frames)) = {1}
    BY <2>3 DEF Roots
  <2>5. R \subseteq 1..n /\ {1} \subseteq R /\ Closed(mir, R)
    BY <2>2, <2>3, ReachIsClosed DEF Linked
  <2> HIDE DEF R
  <2>6. \A b \in 1..n : b \in R
    BY <2>3, <2>4, <2>5 DEF Linked, Reaches
  <2> QED
    BY <2>5, <2>6 DEF R
<1> QED
  BY <1>1, Invariance, PTL

-----------------------------------------------------------------------------
(* If with an else branch.  A statement changes the variables of the entries  *)
(* there are, and adds entries in the innermost scope only, so that both      *)
(* branches have the same names in the scopes around the statement.           *)

SameNames(e0, e) ==
  /\ Len(e) = Len(e0)
  /\ \A d \in 1..Len(e), n \in Name : Held(e, d, n) <=> Held(e0, d, n)

\* The factory m has become f, which knows the same names.
Renames(m, f) ==
  /\ f \in Factory /\ 1 <= Len(f.blocks) /\ Len(m.blocks) <= Len(f.blocks)
  /\ SameNames(m.env, f.env)

LEMMA RenamesChained ==
  ASSUME NEW m \in Factory, NEW f, NEW g, Renames(m, f), Renames(f, g)
  PROVE  Renames(m, g)
<1>1. Len(m.blocks) \in Nat /\ Len(f.blocks) \in Nat /\ Len(g.blocks) \in Nat
  BY DEF Renames, Factory
<1>2. Len(m.blocks) <= Len(g.blocks)
  BY <1>1 DEF Renames
<1> QED
  BY <1>2 DEF Renames, SameNames

LEMMA LastVarNat ==
  ASSUME NEW m \in Factory, 1 <= Len(m.blocks)
  PROVE  LastVar(m) \in Nat
<1> DEFINE L == Len(m.blocks)
           row == m.blocks[L]
<1>1. m.blocks \in Seq(Seq(Instruction)) /\ L \in Nat
  BY DEF Factory
<1>2. row \in Seq(Instruction) /\ Last(m.blocks) = row
  BY <1>1 DEF Last
<1> HIDE DEF row
<1>3. row # <<>> => Last(row) \in Instruction
  <2>1. Len(row) \in Nat /\ (row # <<>> => Len(row) # 0)
    BY <1>2, EmptySeq
  <2> QED
    BY <1>2, <2>1 DEF Last
<1> QED
  BY <1>2, <1>3 DEF LastVar, Instruction

LEMMA PutRenames ==
  ASSUME NEW m \in Factory, NEW b \in 1..Len(m.blocks), NEW i \in Instruction,
         NEW n \in Nat \ {0}
  PROVE  Renames(m, AddTo(m, b, i, n)) /\ AddTo(m, b, i, n).env = m.env
<1> DEFINE f == AddTo(m, b, i, n)
<1>1. f \in Factory /\ f.env = m.env /\ Len(f.blocks) = Len(m.blocks)
  BY PutWider
<1> HIDE DEF f
<1>2. 1 <= Len(m.blocks) /\ Len(m.blocks) <= Len(m.blocks)
  <2>1. Len(m.blocks) \in Nat
    BY DEF Factory
  <2> QED
    BY <2>1
<1> QED
  BY <1>1, <1>2 DEF Renames, SameNames, f

\* What a factory does without touching the environment.
LEMMA CodeRenames ==
  ASSUME NEW m \in Factory, 1 <= Len(m.blocks)
  PROVE  /\ Renames(m, m)
         /\ Renames(m, AddBlock(m)) /\ AddBlock(m).env = m.env
         /\ Renames(m, CreateVar(m)) /\ CreateVar(m).env = m.env
<1>1. Renames(m, m)
  <2>1. Len(m.blocks) \in Nat
    BY DEF Factory
  <2> QED
    BY <2>1 DEF Renames, SameNames
<1>2. AddBlock(m) \in Factory /\ AddBlock(m).env = m.env /\ Len(AddBlock(m).blocks) = Len(m.blocks) + 1
  BY BlockFacts
<1>3. Len(m.blocks) \in Nat /\ m.next \in Nat
  BY DEF Factory
<1>4. Renames(m, AddBlock(m))
  BY <1>2, <1>3 DEF Renames, SameNames
<1> DEFINE f == CreateVar(m)
<1>5. f \in Factory /\ f.blocks = m.blocks /\ f.env = m.env /\ Len(m.blocks) <= Len(f.blocks)
  <2> DEFINE n == m.next + 1
  <2>1. n \in Nat \ {0}
    BY <1>3
  <2>2. f = [m EXCEPT !.next = n]
    BY DEF CreateVar
  <2> HIDE DEF n, f
  <2>3. f \in Factory /\ f.blocks = m.blocks /\ f.env = m.env
    BY <2>1, <2>2 DEF Factory
  <2> QED
    BY <1>3, <2>3
<1> HIDE DEF f
<1>6. Renames(m, f)
  BY <1>5 DEF Renames, SameNames
<1> QED
  BY <1>1, <1>2, <1>4, <1>5, <1>6 DEF f

LEMMA InstrRenames ==
  ASSUME NEW m \in Factory, 1 <= Len(m.blocks), NEW op \in Ops, NEW args \in Seq(Argument)
  PROVE  /\ Renames(m, Emit(m, op, args)) /\ Emit(m, op, args).env = m.env
         /\ Renames(m, AddInstr(m, op, args)) /\ AddInstr(m, op, args).env = m.env
         /\ \A b \in 1..Len(m.blocks) : /\ Renames(m, InsertInto(m, b, op, args))
                                        /\ InsertInto(m, b, op, args).env = m.env
         /\ \A v \in Nat : /\ Renames(m, SetResult(AddInstr(m, op, args), v))
                           /\ SetResult(AddInstr(m, op, args), v).env = m.env
<1> DEFINE L == Len(m.blocks)
<1>1. L \in 1..L /\ m.next \in Nat \ {0} /\ m.next + 1 \in Nat \ {0}
  BY DEF Factory
<1>2. Instr(op, args) \in Instruction
  BY DEF Instr, Instruction
<1>3. \A v \in Nat : [op |-> op, args |-> args, res |-> v] \in Instruction
  BY DEF Instruction
<1>4. Renames(m, Emit(m, op, args)) /\ Emit(m, op, args).env = m.env
  <2> DEFINE i == [op |-> op, args |-> args, res |-> m.next]
  <2>1. i \in Instruction
    BY <1>1, <1>3
  <2>2. Emit(m, op, args) = AddTo(m, L, i, m.next + 1)
    BY EmitIsPut
  <2> HIDE DEF i
  <2> QED
    BY <1>1, <2>1, <2>2, PutRenames
<1>5. ASSUME NEW b \in 1..L
      PROVE  Renames(m, InsertInto(m, b, op, args)) /\ InsertInto(m, b, op, args).env = m.env
  BY <1>1, <1>2, InsertIsPut, PutRenames
<1>6. Renames(m, AddInstr(m, op, args)) /\ AddInstr(m, op, args).env = m.env
  BY <1>1, <1>5 DEF AddInstr, LastBlock
<1>7. ASSUME NEW v \in Nat
      PROVE  /\ Renames(m, SetResult(AddInstr(m, op, args), v))
             /\ SetResult(AddInstr(m, op, args), v).env = m.env
  <2> DEFINE i == [op |-> op, args |-> args, res |-> v]
  <2>1. i \in Instruction
    BY <1>3
  <2>2. SetResult(AddInstr(m, op, args), v) = AddTo(m, L, i, m.next)
    BY ResultIsPut
  <2> HIDE DEF i
  <2> QED
    BY <1>1, <2>1, <2>2, PutRenames
<1> QED
  BY <1>4, <1>5, <1>6, <1>7

\* A name that has a variable, or is one of the module.
KnownName(m, n) == n \in Name /\ (n \in globals \/ Knows(m, n))

LEMMA KnowsHeld ==
  ASSUME NEW m \in Factory, NEW n \in Name
  PROVE  Knows(m, n) <=> \E d \in 1..Len(m.env) : Held(m.env, d, n)
<1>1. m.env \in Seq(Env!Scope)
  BY DEF Factory
<1>2. DOMAIN m.env = 1..Len(m.env)
  BY <1>1
<1> QED
  BY <1>2 DEF Knows, Env!Contains, Env!Holders, Held

LEMMA KnownKept ==
  ASSUME NEW m \in Factory, NEW f, Renames(m, f), NEW n, KnownName(m, n)
  PROVE  KnownName(f, n)
<1>1. f \in Factory /\ Len(f.env) = Len(m.env) /\ n \in Name
  BY DEF Renames, SameNames, KnownName
<1>2. CASE n \in globals
  BY <1>1, <1>2 DEF KnownName
<1>3. CASE Knows(m, n)
  <2>1. PICK d \in 1..Len(m.env) : Held(m.env, d, n)
    BY <1>1, <1>3, KnowsHeld
  <2>2. Held(f.env, d, n)
    BY <1>1, <2>1 DEF Renames, SameNames
  <2> QED
    BY <1>1, <2>1, <2>2, KnowsHeld DEF KnownName
<1> QED
  BY <1>2, <1>3 DEF KnownName

LEMMA UpdateRenames ==
  ASSUME MirAssumption,
         NEW m \in Factory, 1 <= Len(m.blocks), NEW n \in Name, Knows(m, n), NEW v \in Nat
  PROVE  Renames(m, AddUpdate(m, n, v))
<1> DEFINE op == "UPDATE"
           args == <<V(v)>>
           b == Emit(m, op, args)
           k == Env!FindScope(m.env, n)
           s == At(LastBlock(m), LastVar(b))
           e == [m.env EXCEPT ![k][n] = s]
           f == SetEnv(b, e)
<1>1. op \in Ops /\ args \in Seq(Argument)
  BY OperandShapes DEF Ops
<1>2. AddUpdate(m, n, v) = f
  BY DEF AddUpdate, Env!Assign
<1> HIDE DEF op, args
<1>3. Renames(m, b) /\ b.env = m.env /\ b \in Factory /\ 1 <= Len(b.blocks)
  BY <1>1, InstrRenames DEF Renames
<1> HIDE DEF b
<1>4. s \in Site
  <2>1. LastBlock(m) \in Nat
    BY DEF LastBlock, Factory
  <2>2. LastVar(b) \in Nat
    BY <1>3, LastVarNat
  <2> QED
    BY <2>1, <2>2 DEF At, Site
<1>5. m.env \in Seq(Env!Scope)
  BY DEF Factory
<1>6. k \in 1..Len(m.env) /\ Held(m.env, k, n)
  BY <1>5, FindInnermost DEF Knows
<1> HIDE DEF s, k
<1>7. /\ e \in Seq(Env!Scope)
      /\ Len(e) = Len(m.env)
      /\ \A d \in 1..Len(m.env), p \in Name : e[d][p] = IF d = k /\ p = n THEN s ELSE m.env[d][p]
  BY <1>4, <1>5, <1>6, EntryReplaced
<1> HIDE DEF e
<1>8. SameNames(m.env, e)
  <2>1. s # None
    BY <1>4 DEF MirAssumption
  <2> QED
    BY <1>6, <1>7, <2>1 DEF SameNames, Held
<1>9. f \in Factory /\ f.blocks = b.blocks /\ f.env = e
  BY <1>3, <1>7, SetEnvFacts
<1> HIDE DEF f
<1> QED
  BY <1>2, <1>3, <1>8, <1>9 DEF Renames

LEMMA RefRenames ==
  ASSUME MirAssumption, NEW m \in Factory, 1 <= Len(m.blocks), NEW n, KnownName(m, n)
  PROVE  Renames(m, Ref(m, n)) /\ LastVar(Ref(m, n)) \in Nat
<1>1. n \in Name
  BY DEF KnownName
<1>2. Renames(m, Ref(m, n))
  <2>1. CASE n \in globals
    <3> DEFINE args == <<[kind |-> "global", name |-> n]>>
               op == "LOAD"
    <3>1. op \in Ops /\ args \in Seq(Argument)
      BY <1>1, OperandShapes DEF Ops
    <3>2. Ref(m, n) = Emit(m, op, args)
      BY <2>1 DEF Ref, VariableRef
    <3> HIDE DEF op, args
    <3> QED
      BY <3>1, <3>2, InstrRenames
  <2>2. CASE n \notin globals
    <3> DEFINE v == VarOf(m.env, n)
    <3>1. Knows(m, n)
      BY <2>2 DEF KnownName
    <3>2. m.env \in Seq(Env!Scope)
      BY DEF Factory
    <3>3. v \in Nat
      BY <1>1, <3>1, <3>2, FindInnermost, ScopeEntries DEF Knows, VarOf
    <3>4. Ref(m, n) = AddUpdate(m, n, v)
      BY <2>2 DEF Ref, VariableRef
    <3> HIDE DEF v
    <3> QED
      BY <1>1, <3>1, <3>3, <3>4, UpdateRenames
  <2> QED
    BY <2>1, <2>2
<1> QED
  BY <1>2, LastVarNat DEF Renames

\* var_bind: the current scope gets an entry.
LEMMA BindNames ==
  ASSUME MirAssumption,
         NEW m \in Factory, 1 <= Len(m.blocks), 1 <= Len(m.env),
         NEW n \in Name, CanBind(m, n), NEW v \in Nat
  PROVE  LET f == VarBind(m, n, v)
         IN  /\ f \in Factory /\ 1 <= Len(f.blocks) /\ Len(f.env) = Len(m.env)
             /\ \A d \in 1..Len(m.env), p \in Name :
                  Held(f.env, d, p) <=> Held(m.env, d, p) \/ (d = Len(m.env) /\ p = n)
<1> DEFINE op == "BIND"
           args == <<V(v)>>
           b == Emit(m, op, args)
           k == Len(m.env)
           s == At(LastBlock(m), LastVar(b))
           e == [m.env EXCEPT ![k][n] = s]
           f == SetEnv(b, e)
<1>1. op \in Ops /\ args \in Seq(Argument)
  BY OperandShapes DEF Ops
<1>2. VarBind(m, n, v) = f
  BY DEF VarBind, Env!Insert, CanBind
<1> HIDE DEF op, args
<1>3. Renames(m, b) /\ b.env = m.env /\ b \in Factory /\ 1 <= Len(b.blocks)
  BY <1>1, InstrRenames DEF Renames
<1> HIDE DEF b
<1>4. s \in Site
  <2>1. LastBlock(m) \in Nat
    BY DEF LastBlock, Factory
  <2>2. LastVar(b) \in Nat
    BY <1>3, LastVarNat
  <2> QED
    BY <2>1, <2>2 DEF At, Site
<1>5. m.env \in Seq(Env!Scope)
  BY DEF Factory
<1>6. k \in 1..Len(m.env)
  BY <1>5
<1> HIDE DEF s, k
<1>7. /\ e \in Seq(Env!Scope)
      /\ Len(e) = Len(m.env)
      /\ \A d \in 1..Len(m.env), p \in Name : e[d][p] = IF d = k /\ p = n THEN s ELSE m.env[d][p]
  BY <1>4, <1>5, <1>6, EntryReplaced
<1> HIDE DEF e
<1>8. \A d \in 1..Len(m.env), p \in Name : Held(e, d, p) <=> Held(m.env, d, p) \/ (d = k /\ p = n)
  <2>1. s # None
    BY <1>4 DEF MirAssumption
  <2> QED
    BY <1>6, <1>7, <2>1 DEF Held
<1>9. f \in Factory /\ f.blocks = b.blocks /\ f.env = e
  BY <1>3, <1>7, SetEnvFacts
<1> HIDE DEF f
<1> QED
  BY <1>2, <1>3, <1>7, <1>8, <1>9 DEF k

\* The blocks of a condition that is cut short.
LEMMA LogicRenames ==
  ASSUME MirAssumption,
         NEW m \in Factory, 1 <= Len(m.blocks), NEW e, KnownName(m, e.left), KnownName(m, e.right)
  PROVE  Renames(m, Logic(m, e))
<1> DEFINE leftBlock  == LastBlock(m) + 1
           rightBlock == LastBlock(m) + 2
           mergeBlock == LastBlock(m) + 3
           targets == IF e.kind = "and"
                      THEN <<Lab(rightBlock), Lab(mergeBlock)>>
                      ELSE <<Lab(mergeBlock), Lab(rightBlock)>>
           first == AddInstr(m, "JUMP", <<Lab(leftBlock)>>)
           left  == Ref(AddBlock(first), e.left)
           cond  == <<V(LastVar(left))>> \o targets
           cjmp  == Emit(left, "COND_JUMP", cond)
           right == Ref(AddBlock(cjmp), e.right)
           short == Emit(AddBlock(right), "CONST_BOOL", <<Lit>>)
           vals == <<V(LastVar(cjmp)), V(LastVar(right)), V(LastVar(short))>>
           phi   == Emit(short, "PHI", vals)
           jump == InsertJump(phi, leftBlock, mergeBlock)
           f == InsertJump(jump, rightBlock, mergeBlock)
           L == Len(m.blocks)
<1>1. Logic(m, e) = f
  BY DEF Logic
<1>2. /\ L \in Nat /\ leftBlock = L + 1 /\ rightBlock = L + 2 /\ mergeBlock = L + 3
      /\ leftBlock \in Nat /\ rightBlock \in Nat /\ mergeBlock \in Nat
  BY DEF LastBlock, Factory
<1> HIDE DEF leftBlock, rightBlock, mergeBlock
<1>3. /\ \A b \in Nat : <<Lab(b)>> \in Seq(Argument)
      /\ \A v \in Nat : <<V(v)>> \in Seq(Argument)
      /\ \A v, w, u \in Nat : <<V(v), V(w), V(u)>> \in Seq(Argument)
      /\ <<Lit>> \in Seq(Argument)
      /\ targets \in Seq(Argument)
  <2>1. \A a \in Argument : <<a>> \in Seq(Argument)
    OBVIOUS
  <2>2. \A a, b \in Argument : <<a, b>> \in Seq(Argument)
    OBVIOUS
  <2>3. \A a, b, c \in Argument : <<a, b, c>> \in Seq(Argument)
    OBVIOUS
  <2> QED
    BY <1>2, <2>1, <2>2, <2>3, OperandShapes
<1> HIDE DEF targets
<1>4. {"JUMP", "COND_JUMP", "CONST_BOOL", "PHI"} \subseteq Ops
  BY DEF Ops
<1>5. Renames(m, first) /\ first \in Factory /\ 1 <= Len(first.blocks) /\ L <= Len(first.blocks)
  BY <1>2, <1>3, <1>4, InstrRenames DEF Renames
<1> HIDE DEF first
<1> DEFINE a == AddBlock(first)
<1>6. Renames(first, a) /\ a \in Factory /\ 1 <= Len(a.blocks) /\ L + 1 <= Len(a.blocks)
  <2>1. Len(first.blocks) \in Nat
    BY <1>5 DEF Factory
  <2>3. Len(a.blocks) = Len(first.blocks) + 1
    BY <1>5, BlockFacts
  <2>2. Renames(first, a)
    BY <1>5, CodeRenames
  <2> QED
    BY <1>2, <1>5, <2>1, <2>2, <2>3 DEF Renames
<1>7. Renames(m, a)
  BY <1>5, <1>6, RenamesChained
<1> HIDE DEF a
<1>8. Renames(a, left) /\ left \in Factory /\ LastVar(left) \in Nat /\ 1 <= Len(left.blocks)
  <2>1. KnownName(a, e.left)
    BY <1>7, KnownKept
  <2>2. left = Ref(a, e.left)
    BY DEF a
  <2> HIDE DEF left
  <2> QED
    BY <1>6, <2>1, <2>2, RefRenames DEF Renames
<1>9. Renames(m, left)
  BY <1>7, <1>8, RenamesChained
<1> HIDE DEF left
<1>10. cond \in Seq(Argument)
  <2>1. <<V(LastVar(left))>> \in Seq(Argument)
    BY <1>3, <1>8
  <2> DEFINE one == <<V(LastVar(left))>>
  <2> HIDE DEF one
  <2>2. one \o targets \in Seq(Argument)
    BY <1>3, <2>1 DEF one
  <2> QED
    BY <2>2 DEF one
<1> HIDE DEF cond
<1>11. Renames(left, cjmp) /\ cjmp \in Factory /\ 1 <= Len(cjmp.blocks) /\ LastVar(cjmp) \in Nat
  BY <1>4, <1>8, <1>10, InstrRenames, LastVarNat DEF Renames
<1>12. Renames(m, cjmp)
  BY <1>9, <1>11, RenamesChained
<1> HIDE DEF cjmp
<1> DEFINE c == AddBlock(cjmp)
<1>13. Renames(cjmp, c) /\ c \in Factory /\ 1 <= Len(c.blocks) /\ L + 2 <= Len(c.blocks)
  <2>1. Len(c.blocks) = Len(cjmp.blocks) + 1
    BY <1>11, BlockFacts
  <2>2. Renames(cjmp, c)
    BY <1>11, CodeRenames
  <2>3. Renames(a, cjmp)
    BY <1>6, <1>8, <1>11, RenamesChained
  <2>4. Len(a.blocks) \in Nat /\ Len(cjmp.blocks) \in Nat
    BY <1>6, <1>11 DEF Factory
  <2>5. L + 1 <= Len(cjmp.blocks)
    BY <1>2, <1>6, <2>3, <2>4 DEF Renames
  <2> QED
    BY <1>2, <2>1, <2>2, <2>4, <2>5 DEF Renames
<1>14. Renames(m, c)
  BY <1>12, <1>13, RenamesChained
<1> HIDE DEF c
<1>15. Renames(c, right) /\ right \in Factory /\ LastVar(right) \in Nat /\ 1 <= Len(right.blocks)
  <2>1. KnownName(c, e.right)
    BY <1>14, KnownKept
  <2>2. right = Ref(c, e.right)
    BY DEF c
  <2> HIDE DEF right
  <2> QED
    BY <1>13, <2>1, <2>2, RefRenames DEF Renames
<1>16. Renames(m, right)
  BY <1>14, <1>15, RenamesChained
<1> HIDE DEF right
<1> DEFINE d == AddBlock(right)
<1>17. Renames(right, d) /\ d \in Factory /\ 1 <= Len(d.blocks)
  BY <1>15, CodeRenames DEF Renames
<1>18. Renames(d, short) /\ short \in Factory /\ 1 <= Len(short.blocks) /\ LastVar(short) \in Nat
  <2>1. short = Emit(d, "CONST_BOOL", <<Lit>>)
    OBVIOUS
  <2> HIDE DEF d, short
  <2> QED
    BY <1>3, <1>4, <1>17, <2>1, InstrRenames, LastVarNat DEF Renames
<1> HIDE DEF short, d
<1>19. vals \in Seq(Argument)
  BY <1>3, <1>11, <1>15, <1>18
<1> HIDE DEF vals
<1>20. Renames(short, phi) /\ phi \in Factory /\ 1 <= Len(phi.blocks)
  BY <1>4, <1>18, <1>19, InstrRenames DEF Renames
<1> HIDE DEF phi
<1>21. Renames(c, phi)
  BY <1>13, <1>15, <1>17, <1>18, <1>20, RenamesChained
<1>22. Renames(m, phi)
  BY <1>14, <1>21, RenamesChained
<1>23. leftBlock \in 1..Len(phi.blocks) /\ rightBlock \in 1..Len(phi.blocks)
  <2>1. Len(phi.blocks) \in Nat /\ Len(c.blocks) \in Nat
    BY <1>13, <1>20 DEF Factory
  <2>2. L + 2 <= Len(phi.blocks)
    BY <1>2, <1>13, <1>21, <2>1 DEF Renames
  <2> QED
    BY <1>2, <2>1, <2>2
<1>24. <<Lab(mergeBlock)>> \in Seq(Argument)
  BY <1>2, <1>3
<1>25. Renames(phi, jump) /\ jump \in Factory /\ 1 <= Len(jump.blocks)
  BY <1>4, <1>20, <1>23, <1>24, InstrRenames DEF InsertJump, Renames
<1> HIDE DEF jump
<1>26. rightBlock \in 1..Len(jump.blocks)
  <2>1. Len(phi.blocks) \in Nat /\ Len(jump.blocks) \in Nat
    BY <1>20, <1>25 DEF Factory
  <2> QED
    BY <1>23, <1>25, <2>1 DEF Renames
<1>27. Renames(jump, f)
  BY <1>4, <1>24, <1>25, <1>26, InstrRenames DEF InsertJump
<1> HIDE DEF f
<1> QED
  BY <1>1, <1>22, <1>25, <1>27, RenamesChained

\* An expression over names that are known.
LEMMA EvalRenames ==
  ASSUME MirAssumption, NEW m \in Factory, 1 <= Len(m.blocks),
         NEW names, \A n \in names : KnownName(m, n), NEW e \in ExprsOver(names)
  PROVE  Renames(m, Eval(m, e))
<1>1. /\ e.kind \in ExprKind
      /\ e.kind \in {"name", "neg", "not", "call"} => e.left \in names
      /\ e.kind \in {"and", "or"} \cup DOMAIN Opcode => e.left \in names /\ e.right \in names
  BY ExprKinds
<1>2. Lit \in Argument /\ Fn \in Argument /\ Null \in Argument /\ \A v \in Nat : V(v) \in Argument
  BY OperandShapes
<1> DEFINE left == Ref(m, e.left)
<1>3. ASSUME e.left \in names
      PROVE  /\ Renames(m, left) /\ LastVar(left) \in Nat
             /\ left \in Factory /\ 1 <= Len(left.blocks) /\ V(LastVar(left)) \in Argument
  BY <1>2, <1>3, RefRenames DEF Renames
<1>4. CASE e.kind \in {"lit", "flag", "real"}
  <2> DEFINE op == LiteralOpcode[e.kind]
             args == <<Lit>>
  <2>1. op \in Ops /\ args \in Seq(Argument)
    BY <1>2, <1>4, OpcodesAreOps
  <2>2. Eval(m, e) = Emit(m, op, args)
    BY <1>4, EvalCases
  <2> HIDE DEF op, args
  <2> QED
    BY <2>1, <2>2, InstrRenames
<1>5. CASE e.kind = "name"
  <2>1. Renames(m, left)
    BY <1>1, <1>3, <1>5
  <2>2. Eval(m, e) = left
    BY <1>5, EvalCases
  <2> QED
    BY <2>1, <2>2
<1>6. CASE e.kind = "neg"
  <2> DEFINE args == <<Lit, V(LastVar(left))>>
  <2>1. Eval(m, e) = Emit(left, "ISUB", args)
    BY <1>6, EvalCases
  <2>2. Renames(m, left) /\ left \in Factory /\ 1 <= Len(left.blocks) /\ V(LastVar(left)) \in Argument
    BY <1>1, <1>3, <1>6
  <2> HIDE DEF left
  <2>3. args \in Seq(Argument) /\ "ISUB" \in Ops
    BY <1>2, <2>2 DEF Ops
  <2> HIDE DEF args
  <2>4. Renames(left, Emit(left, "ISUB", args))
    BY <2>2, <2>3, InstrRenames
  <2> QED
    BY <2>1, <2>2, <2>4, RenamesChained
<1>7. CASE e.kind = "call"
  <2> DEFINE args == <<Fn, Null, V(LastVar(left))>>
  <2>1. Eval(m, e) = AddInstr(left, "CALL", args)
    BY <1>7, EvalCases
  <2>2. Renames(m, left) /\ left \in Factory /\ 1 <= Len(left.blocks) /\ V(LastVar(left)) \in Argument
    BY <1>1, <1>3, <1>7
  <2> HIDE DEF left
  <2>3. args \in Seq(Argument) /\ "CALL" \in Ops
    BY <1>2, <2>2 DEF Ops
  <2> HIDE DEF args
  <2>4. Renames(left, AddInstr(left, "CALL", args))
    BY <2>2, <2>3, InstrRenames
  <2> QED
    BY <2>1, <2>2, <2>4, RenamesChained
<1>8. CASE e.kind \in DOMAIN Opcode
  <2> DEFINE right == Ref(left, e.right)
             op == Opcode[e.kind]
             args == <<V(LastVar(left)), V(LastVar(right))>>
  <2>1. Eval(m, e) = Emit(right, op, args)
    BY <1>8, EvalCases
  <2>2. Renames(m, left) /\ left \in Factory /\ 1 <= Len(left.blocks) /\ V(LastVar(left)) \in Argument
    BY <1>1, <1>3, <1>8
  <2> HIDE DEF left
  <2>3. KnownName(left, e.right)
    BY <1>1, <1>8, <2>2, KnownKept
  <2>4. Renames(left, right) /\ right \in Factory /\ 1 <= Len(right.blocks) /\ V(LastVar(right)) \in Argument
    BY <1>2, <2>2, <2>3, RefRenames DEF Renames
  <2> HIDE DEF right
  <2>5. op \in Ops /\ args \in Seq(Argument)
    BY <1>8, <2>2, <2>4, OpcodesAreOps
  <2> HIDE DEF args, op
  <2>6. Renames(right, Emit(right, op, args))
    BY <2>4, <2>5, InstrRenames
  <2> QED
    BY <2>1, <2>2, <2>4, <2>6, RenamesChained
<1>9. CASE e.kind = "not"
  <2>1. Eval(m, e) = m
    BY <1>9, EvalCases
  <2> QED
    BY <2>1, CodeRenames
<1>10. CASE e.kind \in {"and", "or"}
  <2>1. KnownName(m, e.left) /\ KnownName(m, e.right)
    BY <1>1, <1>10
  <2>2. Renames(m, Logic(m, e))
    BY <2>1, LogicRenames
  <2>3. Eval(m, e) = Logic(m, e)
    BY <1>10, EvalCases
  <2> QED
    BY <2>2, <2>3
<1> HIDE DEF left
<1> QED
  BY <1>1, <1>4, <1>5, <1>6, <1>7, <1>8, <1>9, <1>10 DEF ExprKind

-----------------------------------------------------------------------------
(* Two environments have parted when they hold the same names in their first *)
(* scopes and none of the names N in the others, of which the second one has *)
(* s at least.                                                              *)

Alike(a, b, l) == \A d \in 1..l, n \in Name : Held(a, d, n) <=> Held(b, d, n)
Clear(e, l, N) == \A d \in l + 1..Len(e), n \in N : ~Held(e, d, n)
Parted(a, b, N, s) ==
  \E l \in 0..Len(a) : l + s <= Len(b) /\ Alike(a, b, l) /\ Clear(a, l, N) /\ Clear(b, l, N)

LEMMA PartedKept ==
  ASSUME NEW a \in Seq(Env!Scope), NEW b \in Seq(Env!Scope), NEW N \in SUBSET Name, NEW s \in Nat,
         Parted(a, b, N, s), NEW c, SameNames(b, c)
  PROVE  Parted(a, c, N, s)
<1>1. PICK l \in 0..Len(a) :
        l + s <= Len(b) /\ Alike(a, b, l) /\ Clear(a, l, N) /\ Clear(b, l, N)
  BY DEF Parted
<1>2. Len(c) = Len(b) /\ Len(b) \in Nat /\ Len(a) \in Nat
  BY DEF SameNames
<1>3. \A d \in 1..l : d \in 1..Len(c)
  BY <1>1, <1>2
<1>4. \A d \in l + 1..Len(c) : d \in 1..Len(c)
  BY <1>1, <1>2
<1>5. Alike(a, c, l)
  BY <1>1, <1>3 DEF Alike, SameNames
<1>6. Clear(c, l, N)
  BY <1>1, <1>2, <1>4 DEF Clear, SameNames
<1> QED
  BY <1>1, <1>2, <1>5, <1>6 DEF Parted

\* A name that is not among N is bound in the innermost scope.
LEMMA PartedBound ==
  ASSUME NEW a \in Seq(Env!Scope), NEW b \in Seq(Env!Scope), NEW N \in SUBSET Name,
         NEW s \in Nat \ {0}, Parted(a, b, N, s), NEW c, Len(c) = Len(b),
         NEW n, n \notin N,
         \A d \in 1..Len(b), p \in Name : Held(c, d, p) <=> Held(b, d, p) \/ (d = Len(b) /\ p = n)
  PROVE  Parted(a, c, N, s)
<1>1. PICK l \in 0..Len(a) :
        l + s <= Len(b) /\ Alike(a, b, l) /\ Clear(a, l, N) /\ Clear(b, l, N)
  BY DEF Parted
<1>2. Len(b) \in Nat /\ Len(a) \in Nat
  OBVIOUS
<1>3. \A d \in 1..l : d \in 1..Len(b) /\ d # Len(b)
  BY <1>1, <1>2
<1>4. \A d \in l + 1..Len(b) : d \in 1..Len(b)
  BY <1>1, <1>2
<1>5. Alike(a, c, l)
  BY <1>1, <1>3 DEF Alike
<1>6. Clear(c, l, N)
  BY <1>1, <1>4 DEF Clear
<1> QED
  BY <1>1, <1>5, <1>6 DEF Parted

LEMMA PartedPushed ==
  ASSUME NEW a \in Seq(Env!Scope), NEW b \in Seq(Env!Scope), NEW N \in SUBSET Name, NEW s \in Nat,
         Parted(a, b, N, s)
  PROVE  Parted(a, Env!PushEnv(b), N, s + 1)
<1> DEFINE c == Env!PushEnv(b)
<1>1. PICK l \in 0..Len(a) :
        l + s <= Len(b) /\ Alike(a, b, l) /\ Clear(a, l, N) /\ Clear(b, l, N)
  BY DEF Parted
<1>2. /\ Len(b) \in Nat /\ Len(c) = Len(b) + 1
      /\ \A d \in 1..Len(b) : c[d] = b[d]
      /\ \A n \in Name : ~Held(c, Len(b) + 1, n)
  BY PushedEnv
<1> HIDE DEF c
<1>3. \A d \in 1..l : d \in 1..Len(b)
  BY <1>1, <1>2
<1>4. \A d \in l + 1..Len(c) : d \in l + 1..Len(b) \/ d = Len(b) + 1
  BY <1>1, <1>2
<1>5. \A d \in l + 1..Len(b) : d \in 1..Len(b)
  BY <1>1, <1>2
<1>6. Alike(a, c, l)
  BY <1>1, <1>2, <1>3 DEF Alike, Held
<1>7. Clear(c, l, N)
  <2>1. ASSUME NEW d \in l + 1..Len(c), NEW n \in N
        PROVE  ~Held(c, d, n)
    <3>1. CASE d \in l + 1..Len(b)
      BY <1>1, <1>2, <1>5, <3>1 DEF Clear, Held
    <3>2. CASE d = Len(b) + 1
      BY <1>2, <3>2
    <3> QED
      BY <1>4, <3>1, <3>2
  <2> QED
    BY <2>1 DEF Clear
<1>8. l + (s + 1) <= Len(c)
  BY <1>1, <1>2
<1> QED
  BY <1>1, <1>6, <1>7, <1>8 DEF Parted, c

LEMMA PartedPopped ==
  ASSUME NEW a \in Seq(Env!Scope), NEW b \in Seq(Env!Scope), NEW N \in SUBSET Name, NEW s \in Nat,
         Parted(a, b, N, s + 1)
  PROVE  Parted(a, Env!PopEnv(b), N, s)
<1> DEFINE c == Env!PopEnv(b)
<1>1. PICK l \in 0..Len(a) :
        l + (s + 1) <= Len(b) /\ Alike(a, b, l) /\ Clear(a, l, N) /\ Clear(b, l, N)
  BY DEF Parted
<1>2. Len(b) \in Nat /\ l \in Nat /\ 0 < Len(b)
  BY <1>1
<1>3. Len(c) = Len(b) - 1 /\ \A d \in 1..Len(c) : c[d] = b[d]
  BY <1>2, PoppedEnv
<1> HIDE DEF c
<1>4. \A d \in 1..l : d \in 1..Len(c)
  BY <1>1, <1>2, <1>3
<1>5. \A d \in l + 1..Len(c) : d \in 1..Len(c) /\ d \in l + 1..Len(b)
  BY <1>1, <1>2, <1>3
<1>6. Alike(a, c, l) /\ Clear(c, l, N)
  BY <1>1, <1>3, <1>4, <1>5 DEF Alike, Clear, Held
<1>7. l + s <= Len(c)
  BY <1>1, <1>2, <1>3
<1> QED
  BY <1>1, <1>6, <1>7 DEF Parted, c

LEMMA PartedSwapped ==
  ASSUME NEW a \in Seq(Env!Scope), NEW b \in Seq(Env!Scope), NEW N \in SUBSET Name, NEW s \in Nat,
         Parted(a, b, N, s)
  PROVE  Parted(b, a, N, 0)
<1>1. PICK l \in 0..Len(a) :
        l + s <= Len(b) /\ Alike(a, b, l) /\ Clear(a, l, N) /\ Clear(b, l, N)
  BY DEF Parted
<1>2. l \in 0..Len(b) /\ l + 0 <= Len(a)
  BY <1>1
<1>3. Alike(b, a, l)
  BY <1>1 DEF Alike
<1> QED
  BY <1>1, <1>2, <1>3 DEF Parted

LEMMA PartedFewer ==
  ASSUME NEW a \in Seq(Env!Scope), NEW b \in Seq(Env!Scope), NEW N \in SUBSET Name, NEW s \in Nat,
         Parted(a, b, N, s), NEW t \in Nat, t <= s
  PROVE  Parted(a, b, N, t)
<1>1. PICK l \in 0..Len(a) :
        l + s <= Len(b) /\ Alike(a, b, l) /\ Clear(a, l, N) /\ Clear(b, l, N)
  BY DEF Parted
<1>2. l + t <= Len(b)
  <2>1. Len(b) \in Nat
    OBVIOUS
  <2> QED
    BY <1>1, <2>1
<1> QED
  BY <1>1, <1>2 DEF Parted

LEMMA PartedItself ==
  ASSUME NEW a \in Seq(Env!Scope), NEW N
  PROVE  Parted(a, a, N, 0)
<1>1. Len(a) \in 0..Len(a) /\ Len(a) + 0 <= Len(a) /\ \A d : d \notin Len(a) + 1..Len(a)
  BY LenProperties
<1>2. Alike(a, a, Len(a)) /\ Clear(a, Len(a), N)
  BY <1>1 DEF Alike, Clear
<1> QED
  BY <1>1, <1>2 DEF Parted

-----------------------------------------------------------------------------
(* The environment that a suspended if has set aside has parted from those of *)
(* the visits inside of it, up to the names that were visible in front of it. *)

SetAside(f) == IF f.kind = "then" THEN f.main ELSE f.env
Around(vis, gs, j) == (UNION {vis[i] : i \in 1..j + 1}) \ gs

\* The environment e inside of the first k suspended visits.
Apart(e, gs, fs, vis, k) ==
  \A j \in 1..k : fs[j].kind # "loop" =>
                    Parted(SetAside(fs[j]), e, Around(vis, gs, j), (k - j) + 1)

Layered(e, gs, fs, vis) ==
  /\ Apart(e, gs, fs, vis, Len(fs))
  /\ \A k \in 1..Len(fs) : fs[k].kind # "loop" => Apart(SetAside(fs[k]), gs, fs, vis, k - 1)

\* The visits and the scopes of the checker around them.
Scoped(fs, vis) ==
  /\ fs \in Seq(Frame) /\ Len(fs) \in Nat
  /\ Len(vis) = Len(fs) + 2
  /\ \A i \in 1..Len(vis) : vis[i] \subseteq Name

LEMMA FrameEnv ==
  ASSUME NEW f \in Frame, f.kind # "loop"
  PROVE  SetAside(f) \in Seq(Env!Scope)
<1> DEFINE T == Seq(Env!Scope)
           A == [kind : {"then"}, alt : BOOLEAN, cond : Nat \X Nat, block : Nat, main : T]
           B == [kind : {"else"}, then : Nat, block : Nat, env : T]
           C == [kind : {"loop"}, cond : Nat \X Nat, expr : Nat]
<1>1. f \in A \/ f \in B \/ f \in C
  BY DEF Frame
<1> HIDE DEF T
<1>2. f \in A => f.kind = "then" /\ f.main \in T
  OBVIOUS
<1>3. f \in B => f.kind = "else" /\ f.env \in T
  OBVIOUS
<1>4. f \in C => f.kind = "loop"
  OBVIOUS
<1> HIDE DEF A, B, C
<1>5. SetAside(f) \in T
  BY <1>1, <1>2, <1>3, <1>4 DEF SetAside
<1> QED
  BY <1>5 DEF T

LEMMA ScopedFacts ==
  ASSUME NEW fs, NEW vis, NEW gs, Scoped(fs, vis)
  PROVE  /\ \A j \in 1..Len(fs) : fs[j] \in Frame
         /\ \A j \in 1..Len(fs) : fs[j].kind # "loop" => SetAside(fs[j]) \in Seq(Env!Scope)
         /\ \A j \in 1..Len(fs) : Around(vis, gs, j) \in SUBSET Name
<1>1. \A j \in 1..Len(fs) : fs[j] \in Frame
  <2> DEFINE T == Frame
  <2>1. fs \in Seq(T)
    BY DEF Scoped
  <2> HIDE DEF T
  <2>2. \A j \in 1..Len(fs) : fs[j] \in T
    BY <2>1
  <2> QED
    BY <2>2 DEF T
<1>2. ASSUME NEW j \in 1..Len(fs)
      PROVE  Around(vis, gs, j) \in SUBSET Name
  <2>1. \A i \in 1..j + 1 : i \in 1..Len(vis)
    BY DEF Scoped
  <2> QED
    BY <2>1 DEF Around, Scoped
<1> QED
  BY <1>1, <1>2, FrameEnv

LEMMA ApartKept ==
  ASSUME NEW fs, NEW vis, NEW gs, Scoped(fs, vis), NEW k \in 0..Len(fs),
         NEW e \in Seq(Env!Scope), Apart(e, gs, fs, vis, k), NEW f, SameNames(e, f)
  PROVE  Apart(f, gs, fs, vis, k)
<1>1. ASSUME NEW j \in 1..k, fs[j].kind # "loop"
      PROVE  Parted(SetAside(fs[j]), f, Around(vis, gs, j), (k - j) + 1)
  <2>1. j \in 1..Len(fs) /\ (k - j) + 1 \in Nat
    BY DEF Scoped
  <2>2. Parted(SetAside(fs[j]), e, Around(vis, gs, j), (k - j) + 1)
    BY <1>1 DEF Apart
  <2> QED
    BY <1>1, <2>1, <2>2, ScopedFacts, PartedKept
<1> QED
  BY <1>1 DEF Apart

\* Apart looks at the first visits and their scopes only.
LEMMA ApartAgrees ==
  ASSUME NEW e, NEW gs, NEW fs, NEW vis, NEW fs2, NEW vis2, NEW k \in Nat,
         Apart(e, gs, fs, vis, k), \A j \in 1..k : fs2[j] = fs[j],
         \A i \in 1..k + 1 : vis2[i] = vis[i]
  PROVE  Apart(e, gs, fs2, vis2, k)
<1>1. ASSUME NEW j \in 1..k
      PROVE  Around(vis2, gs, j) = Around(vis, gs, j)
  <2>1. \A i \in 1..j + 1 : i \in 1..k + 1
    OBVIOUS
  <2>2. \A i \in 1..j + 1 : vis2[i] = vis[i]
    BY <2>1
  <2> QED
    BY <2>2 DEF Around
<1> QED
  BY <1>1 DEF Apart

LEMMA ApartBound ==
  ASSUME NEW fs, NEW vis, NEW gs, Scoped(fs, vis), NEW k \in 0..Len(fs),
         NEW e \in Seq(Env!Scope), Apart(e, gs, fs, vis, k),
         NEW f, Len(f) = Len(e), NEW n, \A i \in 1..Len(vis) : n \notin vis[i],
         \A d \in 1..Len(e), p \in Name : Held(f, d, p) <=> Held(e, d, p) \/ (d = Len(e) /\ p = n)
  PROVE  Apart(f, gs, fs, vis, k)
<1>1. ASSUME NEW j \in 1..k, fs[j].kind # "loop"
      PROVE  Parted(SetAside(fs[j]), f, Around(vis, gs, j), (k - j) + 1)
  <2>1. j \in 1..Len(fs) /\ (k - j) + 1 \in Nat \ {0}
    BY DEF Scoped
  <2>2. Parted(SetAside(fs[j]), e, Around(vis, gs, j), (k - j) + 1)
    BY <1>1 DEF Apart
  <2>3. n \notin Around(vis, gs, j)
    <3>1. \A i \in 1..j + 1 : i \in 1..Len(vis)
      BY DEF Scoped
    <3> QED
      BY <3>1 DEF Around
  <2> QED
    BY <1>1, <2>1, <2>2, <2>3, ScopedFacts, PartedBound
<1> QED
  BY <1>1 DEF Apart

\* A scope is opened inside of one more visit, from which e has set itself aside.
LEMMA ApartPushed ==
  ASSUME NEW fs, NEW vis, NEW gs, Scoped(fs, vis), NEW k \in 1..Len(fs),
         NEW e \in Seq(Env!Scope), Apart(e, gs, fs, vis, k - 1),
         fs[k].kind # "loop" => Parted(SetAside(fs[k]), e, Around(vis, gs, k), 0)
  PROVE  Apart(Env!PushEnv(e), gs, fs, vis, k)
<1>1. ASSUME NEW j \in 1..k, fs[j].kind # "loop"
      PROVE  Parted(SetAside(fs[j]), Env!PushEnv(e), Around(vis, gs, j), (k - j) + 1)
  <2>1. /\ j \in 1..Len(fs) /\ k - j \in Nat
        /\ SetAside(fs[j]) \in Seq(Env!Scope) /\ Around(vis, gs, j) \in SUBSET Name
    <3>1. j \in 1..Len(fs) /\ k - j \in Nat
      BY DEF Scoped
    <3> QED
      BY <1>1, <3>1, ScopedFacts
  <2>2. Parted(SetAside(fs[j]), e, Around(vis, gs, j), k - j)
    <3>1. CASE j = k
      <4>1. k - j = 0
        BY <3>1
      <4> QED
        BY <1>1, <3>1, <4>1
    <3>2. CASE j # k
      <4>1. j \in 1..k - 1 /\ ((k - 1) - j) + 1 = k - j
        BY <3>2
      <4>2. Parted(SetAside(fs[j]), e, Around(vis, gs, j), ((k - 1) - j) + 1)
        BY <1>1, <4>1 DEF Apart
      <4> QED
        BY <4>1, <4>2
    <3> QED
      BY <3>1, <3>2
  <2> QED
    BY <2>1, <2>2, PartedPushed
<1> QED
  BY <1>1 DEF Apart

LEMMA ApartPopped ==
  ASSUME NEW fs, NEW vis, NEW gs, Scoped(fs, vis), NEW k \in 1..Len(fs),
         NEW e \in Seq(Env!Scope), Apart(e, gs, fs, vis, k)
  PROVE  Apart(Env!PopEnv(e), gs, fs, vis, k - 1)
<1>1. ASSUME NEW j \in 1..k - 1, fs[j].kind # "loop"
      PROVE  Parted(SetAside(fs[j]), Env!PopEnv(e), Around(vis, gs, j), ((k - 1) - j) + 1)
  <2>1. j \in 1..Len(fs) /\ k - j \in Nat /\ ((k - 1) - j) + 1 = k - j /\ j \in 1..k
    BY DEF Scoped
  <2>2. SetAside(fs[j]) \in Seq(Env!Scope) /\ Around(vis, gs, j) \in SUBSET Name
    BY <1>1, <2>1, ScopedFacts
  <2>3. Parted(SetAside(fs[j]), e, Around(vis, gs, j), (k - j) + 1)
    BY <1>1, <2>1 DEF Apart
  <2>4. Parted(SetAside(fs[j]), Env!PopEnv(e), Around(vis, gs, j), k - j)
    BY <2>1, <2>2, <2>3, PartedPopped
  <2> QED
    BY <2>1, <2>4
<1> QED
  BY <1>1 DEF Apart

LEMMA ApartFewer ==
  ASSUME NEW fs, NEW vis, NEW gs, Scoped(fs, vis), NEW k \in 1..Len(fs),
         NEW e \in Seq(Env!Scope), Apart(e, gs, fs, vis, k)
  PROVE  Apart(e, gs, fs, vis, k - 1)
<1>1. ASSUME NEW j \in 1..k - 1, fs[j].kind # "loop"
      PROVE  Parted(SetAside(fs[j]), e, Around(vis, gs, j), ((k - 1) - j) + 1)
  <2>1. /\ j \in 1..Len(fs) /\ (k - j) + 1 \in Nat /\ ((k - 1) - j) + 1 \in Nat /\ j \in 1..k
        /\ ((k - 1) - j) + 1 <= (k - j) + 1
    BY DEF Scoped
  <2>2. SetAside(fs[j]) \in Seq(Env!Scope) /\ Around(vis, gs, j) \in SUBSET Name
    BY <1>1, <2>1, ScopedFacts
  <2>3. Parted(SetAside(fs[j]), e, Around(vis, gs, j), (k - j) + 1)
    BY <1>1, <2>1 DEF Apart
  <2> QED
    BY <2>1, <2>2, <2>3, PartedFewer
<1> QED
  BY <1>1 DEF Apart

LEMMA LayeredKept ==
  ASSUME NEW fs, NEW vis, NEW gs, Scoped(fs, vis),
         NEW e \in Seq(Env!Scope), Layered(e, gs, fs, vis), NEW f, SameNames(e, f)
  PROVE  Layered(f, gs, fs, vis)
<1>1. Len(fs) \in 0..Len(fs)
  BY DEF Scoped
<1>2. Apart(f, gs, fs, vis, Len(fs))
  BY <1>1, ApartKept DEF Layered
<1> QED
  BY <1>2 DEF Layered

\* The first visits and their scopes are those of fs and vis.
LEMMA LayersAgree ==
  ASSUME NEW fs, NEW vis, NEW gs, Scoped(fs, vis), NEW e, Layered(e, gs, fs, vis),
         NEW n \in 0..Len(fs), NEW fs2, NEW vis2, \A j \in 1..n : fs2[j] = fs[j],
         \A i \in 1..n + 1 : vis2[i] = vis[i]
  PROVE  \A k \in 1..n : fs2[k].kind # "loop" => Apart(SetAside(fs2[k]), gs, fs2, vis2, k - 1)
<1>1. ASSUME NEW k \in 1..n, fs2[k].kind # "loop"
      PROVE  Apart(SetAside(fs2[k]), gs, fs2, vis2, k - 1)
  <2>1. k - 1 \in Nat /\ k \in 1..Len(fs)
    BY DEF Scoped
  <2>2. (\A j \in 1..k - 1 : j \in 1..n) /\ (\A i \in 1..(k - 1) + 1 : i \in 1..n + 1)
    OBVIOUS
  <2>3. Apart(SetAside(fs2[k]), gs, fs, vis, k - 1)
    BY <1>1, <2>1 DEF Layered
  <2> QED
    BY <2>1, <2>2, <2>3, ApartAgrees
<1> QED
  BY <1>1

LEMMA LayeredBound ==
  ASSUME NEW fs, NEW vis, NEW gs, Scoped(fs, vis),
         NEW e \in Seq(Env!Scope), Layered(e, gs, fs, vis),
         NEW f, Len(f) = Len(e), NEW n, \A i \in 1..Len(vis) : n \notin vis[i],
         \A d \in 1..Len(e), p \in Name : Held(f, d, p) <=> Held(e, d, p) \/ (d = Len(e) /\ p = n),
         NEW vis2, \A i \in 1..Len(vis) - 1 : vis2[i] = vis[i]
  PROVE  Layered(f, gs, fs, vis2)
<1> DEFINE k == Len(fs)
<1>1. k \in 0..Len(fs) /\ k \in Nat /\ \A i \in 1..k + 1 : i \in 1..Len(vis) - 1
  BY DEF Scoped
<1>2. \A i \in 1..k + 1 : vis2[i] = vis[i]
  BY <1>1
<1> HIDE DEF k
<1>3. Apart(f, gs, fs, vis, k)
  <2>1. Apart(e, gs, fs, vis, k)
    BY DEF Layered, k
  <2> QED
    BY <1>1, <2>1, ApartBound
<1>4. Apart(f, gs, fs, vis2, k)
  BY <1>1, <1>2, <1>3, ApartAgrees
<1>5. \A j \in 1..k : fs[j].kind # "loop" => Apart(SetAside(fs[j]), gs, fs, vis2, j - 1)
  BY <1>1, <1>2, LayersAgree
<1> QED
  BY <1>4, <1>5 DEF Layered, k

\* A statement with a body: an if sets its environment aside.
LEMMA LayeredPushed ==
  ASSUME NEW fs, NEW vis, NEW gs, Scoped(fs, vis),
         NEW e \in Seq(Env!Scope), Layered(e, gs, fs, vis),
         NEW fs2, NEW vis2, Scoped(fs2, vis2), Len(fs2) = Len(fs) + 1,
         \A j \in 1..Len(fs) : fs2[j] = fs[j], \A i \in 1..Len(fs) + 1 : vis2[i] = vis[i],
         fs2[Len(fs) + 1].kind # "loop" => SetAside(fs2[Len(fs) + 1]) = e
  PROVE  Layered(Env!PushEnv(e), gs, fs2, vis2)
<1> DEFINE k == Len(fs) + 1
           fr == fs2[k]
<1>1. k \in 1..Len(fs2) /\ k - 1 = Len(fs) /\ Len(fs) \in Nat /\ Len(fs) \in 0..Len(fs)
  BY DEF Scoped
<1> HIDE DEF k
<1>2. Apart(e, gs, fs2, vis2, k - 1)
  <2>1. Apart(e, gs, fs, vis, k - 1)
    BY <1>1 DEF Layered
  <2>2. (\A j \in 1..k - 1 : fs2[j] = fs[j]) /\ (\A i \in 1..(k - 1) + 1 : vis2[i] = vis[i])
    BY <1>1
  <2>3. k - 1 \in Nat
    BY <1>1
  <2> QED
    BY <2>1, <2>2, <2>3, ApartAgrees
<1>3. fr.kind # "loop" => Parted(SetAside(fr), e, Around(vis2, gs, k), 0)
  BY PartedItself DEF k
<1>4. Apart(Env!PushEnv(e), gs, fs2, vis2, k)
  BY <1>1, <1>2, <1>3, ApartPushed
<1>5. ASSUME NEW j \in 1..Len(fs2), fs2[j].kind # "loop"
      PROVE  Apart(SetAside(fs2[j]), gs, fs2, vis2, j - 1)
  <2>1. CASE j = k
    BY <1>2, <1>5, <2>1 DEF k
  <2>2. CASE j # k
    <3>1. j \in 1..Len(fs)
      BY <1>1, <2>2 DEF k
    <3> QED
      BY <1>1, <1>5, <3>1, LayersAgree
  <2> QED
    BY <2>1, <2>2
<1> QED
  BY <1>4, <1>5 DEF Layered, k

\* The body of an if is left: the visit goes on with the names it had set aside.
LEMMA LayeredLeft ==
  ASSUME NEW fs, NEW vis, NEW gs, Scoped(fs, vis), NEW e, Layered(e, gs, fs, vis),
         1 <= Len(fs), fs[Len(fs)].kind # "loop", NEW f, SameNames(SetAside(fs[Len(fs)]), f),
         NEW fs2, NEW vis2, Len(fs2) = Len(fs) - 1,
         \A j \in 1..Len(fs2) : fs2[j] = fs[j], \A i \in 1..Len(fs) : vis2[i] = vis[i]
  PROVE  Layered(f, gs, fs2, vis2)
<1> DEFINE k == Len(fs)
           n == Len(fs2)
           a == SetAside(fs[k])
<1>1. /\ k \in 1..Len(fs) /\ n \in Nat /\ n \in 0..Len(fs) /\ n = k - 1
      /\ a \in Seq(Env!Scope)
  <2>1. k \in 1..Len(fs) /\ n \in Nat /\ n \in 0..Len(fs) /\ n = k - 1
    BY DEF Scoped
  <2> QED
    BY <2>1, ScopedFacts
<1>2. (\A j \in 1..n : fs2[j] = fs[j]) /\ (\A i \in 1..n + 1 : vis2[i] = vis[i])
  BY <1>1
<1>3. Apart(a, gs, fs, vis, n)
  BY <1>1 DEF Layered
<1> HIDE DEF k, n, a
<1>4. Apart(f, gs, fs, vis, n)
  BY <1>1, <1>3, ApartKept DEF a, k
<1>5. Apart(f, gs, fs2, vis2, n)
  BY <1>1, <1>2, <1>4, ApartAgrees
<1>6. \A j \in 1..n : fs2[j].kind # "loop" => Apart(SetAside(fs2[j]), gs, fs2, vis2, j - 1)
  BY <1>1, <1>2, LayersAgree
<1> QED
  BY <1>5, <1>6 DEF Layered, n

\* The body of a loop is left.
LEMMA LayeredPopped ==
  ASSUME NEW fs, NEW vis, NEW gs, Scoped(fs, vis),
         NEW e \in Seq(Env!Scope), Layered(e, gs, fs, vis), 1 <= Len(fs),
         NEW fs2, NEW vis2, Len(fs2) = Len(fs) - 1,
         \A j \in 1..Len(fs2) : fs2[j] = fs[j], \A i \in 1..Len(fs) : vis2[i] = vis[i]
  PROVE  Layered(Env!PopEnv(e), gs, fs2, vis2)
<1> DEFINE k == Len(fs)
           n == Len(fs2)
           f == Env!PopEnv(e)
<1>1. k \in 1..Len(fs) /\ n \in Nat /\ n \in 0..Len(fs) /\ n = k - 1
  BY DEF Scoped
<1>2. (\A j \in 1..n : fs2[j] = fs[j]) /\ (\A i \in 1..n + 1 : vis2[i] = vis[i])
  BY <1>1
<1>3. Apart(e, gs, fs, vis, k)
  BY DEF Layered
<1> HIDE DEF k, n
<1>4. Apart(f, gs, fs, vis, n)
  BY <1>1, <1>3, ApartPopped
<1> HIDE DEF f
<1>5. Apart(f, gs, fs2, vis2, n)
  BY <1>1, <1>2, <1>4, ApartAgrees
<1>6. \A j \in 1..n : fs2[j].kind # "loop" => Apart(SetAside(fs2[j]), gs, fs2, vis2, j - 1)
  <2>1. Scoped(fs, vis) /\ Layered(e, gs, fs, vis) /\ n \in 0..Len(fs)
    BY <1>1
  <2> QED
    BY ONLY <1>2, <2>1, LayersAgree
<1> QED
  BY <1>5, <1>6 DEF Layered, n, f

\* The else branch follows in the environment that the if had set aside, and that of
\* the then branch is set aside instead.
LEMMA LayeredElse ==
  ASSUME NEW fs, NEW vis, NEW gs, Scoped(fs, vis),
         NEW e \in Seq(Env!Scope), Layered(e, gs, fs, vis),
         1 <= Len(fs), fs[Len(fs)].kind # "loop",
         NEW fs2, NEW vis2, Scoped(fs2, vis2), Len(fs2) = Len(fs),
         \A j \in 1..Len(fs) - 1 : fs2[j] = fs[j], \A i \in 1..Len(fs) + 1 : vis2[i] = vis[i],
         fs2[Len(fs)].kind # "loop", SetAside(fs2[Len(fs)]) = e
  PROVE  Layered(Env!PushEnv(SetAside(fs[Len(fs)])), gs, fs2, vis2)
<1> DEFINE k == Len(fs)
           a == SetAside(fs[k])
<1>1. /\ k \in 1..Len(fs) /\ k \in 1..Len(fs2) /\ k - 1 \in Nat /\ k - 1 \in 0..Len(fs)
      /\ a \in Seq(Env!Scope)
      /\ (k - k) + 1 = 1 /\ 1 \in Nat
  <2>1. k \in 1..Len(fs) /\ k \in 1..Len(fs2) /\ k - 1 \in Nat /\ k - 1 \in 0..Len(fs)
        /\ (k - k) + 1 = 1 /\ 1 \in Nat
    BY DEF Scoped
  <2> QED
    BY <2>1, ScopedFacts
<1>2. (\A j \in 1..k - 1 : fs2[j] = fs[j]) /\ (\A i \in 1..(k - 1) + 1 : vis2[i] = vis[i])
  BY <1>1
<1>3. Apart(a, gs, fs, vis, k - 1) /\ Apart(e, gs, fs, vis, k)
  BY <1>1 DEF Layered
<1>4. Apart(a, gs, fs2, vis2, k - 1)
  BY <1>1, <1>2, <1>3, ApartAgrees
<1>5. Parted(e, a, Around(vis2, gs, k), 0)
  <2>1. Parted(a, e, Around(vis, gs, k), 1)
    BY <1>1, <1>3 DEF Apart
  <2>2. Around(vis2, gs, k) = Around(vis, gs, k)
    BY DEF Around
  <2>3. Around(vis, gs, k) \in SUBSET Name
    BY <1>1, ScopedFacts
  <2> HIDE DEF a, k
  <2> QED
    BY <1>1, <2>1, <2>2, <2>3, PartedSwapped
<1>6. Apart(Env!PushEnv(a), gs, fs2, vis2, k)
  <2> HIDE DEF a
  <2> QED
    BY <1>1, <1>4, <1>5, ApartPushed
<1>7. Apart(e, gs, fs2, vis2, k - 1)
  <2>1. Apart(e, gs, fs, vis, k - 1)
    BY <1>1, <1>3, ApartFewer
  <2> QED
    BY <1>1, <1>2, <2>1, ApartAgrees
<1>8. ASSUME NEW j \in 1..k, fs2[j].kind # "loop"
      PROVE  Apart(SetAside(fs2[j]), gs, fs2, vis2, j - 1)
  <2>1. CASE j = k
    BY <1>7, <2>1
  <2>2. CASE j # k
    <3> DEFINE n == k - 1
    <3>1. j \in 1..n /\ n \in 0..Len(fs)
      BY <1>1, <2>2
    <3>2. (\A i \in 1..n : fs2[i] = fs[i]) /\ (\A i \in 1..n + 1 : vis2[i] = vis[i])
      BY <1>2
    <3> HIDE DEF n
    <3>3. \A i \in 1..n : fs2[i].kind # "loop" => Apart(SetAside(fs2[i]), gs, fs2, vis2, i - 1)
      BY <3>1, <3>2, LayersAgree
    <3> QED
      BY <1>8, <3>1, <3>3
  <2> QED
    BY <2>1, <2>2
<1> QED
  BY <1>6, <1>8 DEF Layered

-----------------------------------------------------------------------------
(* What every step does to the environments of the suspended visits.        *)

Aligned == status = "function" => Layered(mir.env, globals, frames, visible)

LEMMA Working ==
  ASSUME MirInv, status = "function"
  PROVE  /\ mir \in Factory /\ 1 <= Len(mir.blocks)
         /\ mir.env \in Seq(Env!Scope) /\ 1 <= Len(mir.env)
         /\ frames \in Seq(Frame) /\ visible \in Seq(SUBSET Name) /\ Scoped(frames, visible)
         /\ \A n \in InScope : KnownName(mir, n)
         /\ Renames(mir, mir)
<1>1. PICK base \in Nat : Building(mir, base, globals, Loose, frames, visible)
  BY DEF MirInv
<1>2. /\ mir \in Factory /\ 1 <= Len(mir.blocks)
      /\ mir.env \in Seq(Env!Scope) /\ Len(mir.env) \in Nat /\ base < Len(mir.env)
      /\ Len(frames) \in Nat /\ \A i \in 1..Len(visible) : visible[i] \subseteq Name
      /\ Len(visible) = Len(frames) + 2
  BY <1>1, BuildingTypes
<1>3. frames \in Seq(Frame) /\ visible \in Seq(SUBSET Name)
  BY <1>1 DEF Building
<1>4. Scoped(frames, visible)
  BY <1>2, <1>3 DEF Scoped
<1>5. \A n \in InScope : KnownName(mir, n)
  BY <1>1, ScopeUsable DEF InScope, Usable, KnownName
<1>6. 1 <= Len(mir.env)
  BY <1>2
<1>7. Renames(mir, mir)
  BY <1>2, CodeRenames
<1> QED
  BY <1>2, <1>3, <1>4, <1>5, <1>6, <1>7

LEMMA ThrowAligned ==
  ASSUME NEW s, s # "function", Throw(s)
  PROVE  Aligned'
BY DEF Throw, Aligned

LEMMA EmitsAligned ==
  ASSUME MirInv, Aligned, status = "function", NEW m, Renames(mir, m), Emits(m)
  PROVE  Aligned'
<1>1. mir' = m /\ frames' = frames /\ visible' = visible /\ globals' = globals
  BY DEF Emits
<1>2. Layered(mir.env, globals, frames, visible)
  BY DEF Aligned
<1>3. Layered(m.env, globals, frames, visible)
  BY <1>2, Working, LayeredKept DEF Renames
<1> QED
  BY <1>1, <1>3 DEF Aligned

LEMMA EvalInScope ==
  ASSUME MirAssumption, MirInv, status = "function", NEW m, Renames(mir, m), NEW e \in Exprs
  PROVE  Renames(mir, Eval(m, e)) /\ LastVar(Eval(m, e)) \in Nat
<1> DEFINE names == InScope
           f == Eval(m, e)
<1>1. mir \in Factory /\ \A n \in names : KnownName(mir, n)
  BY Working
<1>2. m \in Factory /\ 1 <= Len(m.blocks)
  BY DEF Renames
<1>3. \A n \in names : KnownName(m, n)
  BY <1>1, KnownKept
<1>4. e \in ExprsOver(names)
  BY DEF Exprs
<1> HIDE DEF names
<1>5. Renames(m, f)
  BY <1>2, <1>3, <1>4, EvalRenames
<1> HIDE DEF f
<1>6. Renames(mir, f)
  BY <1>1, <1>5, RenamesChained
<1>7. LastVar(f) \in Nat
  BY <1>6, LastVarNat DEF Renames
<1> QED
  BY <1>6, <1>7 DEF f

LEMMA RefInScope ==
  ASSUME MirAssumption, MirInv, status = "function", NEW m, Renames(mir, m), NEW n \in InScope
  PROVE  Renames(mir, Ref(m, n)) /\ LastVar(Ref(m, n)) \in Nat
<1>1. mir \in Factory /\ KnownName(mir, n)
  BY Working
<1>2. m \in Factory /\ 1 <= Len(m.blocks) /\ KnownName(m, n)
  BY <1>1, KnownKept DEF Renames
<1>3. Renames(m, Ref(m, n)) /\ LastVar(Ref(m, n)) \in Nat
  BY <1>2, RefRenames
<1> QED
  BY <1>1, <1>3, RenamesChained

LEMMA InstrInScope ==
  ASSUME MirInv, status = "function", NEW m, Renames(mir, m),
         NEW op \in Ops, NEW args \in Seq(Argument)
  PROVE  /\ Renames(mir, AddInstr(m, op, args))
         /\ Renames(mir, Emit(m, op, args))
         /\ \A v \in Nat : Renames(mir, SetResult(AddInstr(m, op, args), v))
<1>1. mir \in Factory
  BY Working
<1>2. m \in Factory /\ 1 <= Len(m.blocks)
  BY DEF Renames
<1>3. /\ Renames(m, AddInstr(m, op, args))
      /\ Renames(m, Emit(m, op, args))
      /\ \A v \in Nat : Renames(m, SetResult(AddInstr(m, op, args), v))
  BY <1>2, InstrRenames
<1> QED
  BY <1>1, <1>3, RenamesChained

LEMMA ArgShapes ==
  /\ <<>> \in Seq(Argument) /\ <<Lit>> \in Seq(Argument)
  /\ \A v \in Nat : <<V(v)>> \in Seq(Argument) /\ <<V(v), Lit>> \in Seq(Argument)
  /\ \A v, w \in Nat : <<V(v), V(w)>> \in Seq(Argument)
  /\ \A b \in Nat : <<Lab(b)>> \in Seq(Argument)
  /\ \A s, t \in Site : <<Phi(s), Phi(t)>> \in Seq(Argument)
<1>1. /\ <<>> \in Seq(Argument)
      /\ \A a \in Argument : <<a>> \in Seq(Argument)
      /\ \A a, b \in Argument : <<a, b>> \in Seq(Argument)
  OBVIOUS
<1> QED
  BY <1>1, OperandShapes

LEMMA UpdatesAligned ==
  ASSUME MirAssumption, MirInv, Aligned, status = "function", NEW m, Renames(mir, m),
         NEW n \in InScope, NEW v \in Nat, Updates(m, n, v)
  PROVE  Aligned'
<1>1. mir \in Factory /\ n \in Name
  BY Working DEF KnownName
<1>2. m \in Factory /\ 1 <= Len(m.blocks)
  BY DEF Renames
<1>3. CASE Knows(m, n)
  <2>1. Emits(AddUpdate(m, n, v))
    BY <1>3 DEF Updates
  <2>2. Renames(m, AddUpdate(m, n, v))
    BY <1>1, <1>2, <1>3, UpdateRenames
  <2>3. Renames(mir, AddUpdate(m, n, v))
    BY <1>1, <2>2, RenamesChained
  <2> QED
    BY <2>1, <2>3, EmitsAligned
<1>4. CASE ~Knows(m, n)
  <2>1. Throw("not_defined")
    BY <1>4 DEF Updates
  <2> QED
    BY <2>1, ThrowAligned
<1> QED
  BY <1>3, <1>4

\* The statements without a body that bind nothing.
LEMMA PlainAligned ==
  ASSUME MirAssumption, MirInv, Aligned
  PROVE  /\ \A e \in Exprs \cup {None} : VisitReturn(e) => Aligned'
         /\ \A op \in {"CONTINUE", "BREAK"} : VisitJump(op) => Aligned'
         /\ VisitDefer => Aligned'
         /\ \A e \in Exprs : VisitCall(e) => Aligned'
         /\ \A n \in Name, op \in {"sum", "difference"} : VisitIncrement(n, op) => Aligned'
<1>1. status = "function" => Renames(mir, mir)
  BY Working
<1>2. ASSUME NEW e \in Exprs \cup {None}, VisitReturn(e)
      PROVE  Aligned'
  <2>1. status = "function" /\ "RETURN" \in Ops
    BY <1>2 DEF VisitReturn, Stmt, Ops
  <2>2. CASE e = None
    <3> DEFINE args == <<>>
    <3>1. Emits(AddInstr(mir, "RETURN", args))
      BY <1>2, <2>2 DEF VisitReturn
    <3>2. args \in Seq(Argument)
      BY ArgShapes
    <3> HIDE DEF args
    <3> QED
      BY <1>1, <2>1, <3>1, <3>2, InstrInScope, EmitsAligned
  <2>3. CASE e # None
    <3> DEFINE m == Eval(mir, e)
               args == <<V(LastVar(m))>>
    <3>1. WithValue(m, Emits(AddInstr(m, "RETURN", args)))
      BY <1>2, <2>3 DEF VisitReturn
    <3>2. Renames(mir, m) /\ LastVar(m) \in Nat
      BY <1>1, <1>2, <2>1, <2>3, EvalInScope
    <3> HIDE DEF m
    <3>3. args \in Seq(Argument)
      BY <3>2, ArgShapes
    <3> HIDE DEF args
    <3>4. Renames(mir, AddInstr(m, "RETURN", args))
      BY <2>1, <3>2, <3>3, InstrInScope
    <3>5. Emits(AddInstr(m, "RETURN", args)) \/ Throw("no_value")
      BY <3>1 DEF WithValue
    <3> QED
      BY <2>1, <3>4, <3>5, EmitsAligned, ThrowAligned
  <2> QED
    BY <2>2, <2>3
<1>3. ASSUME NEW op \in {"CONTINUE", "BREAK"}, VisitJump(op)
      PROVE  Aligned'
  <2> DEFINE args == <<>>
  <2>1. status = "function" /\ op \in Ops /\ Emits(AddInstr(mir, op, args))
    BY <1>3 DEF VisitJump, Stmt, Ops
  <2>2. args \in Seq(Argument)
    BY ArgShapes
  <2> HIDE DEF args
  <2> QED
    BY <1>1, <2>1, <2>2, InstrInScope, EmitsAligned
<1>4. ASSUME VisitDefer
      PROVE  Aligned'
  <2>1. status = "function" /\ Emits(mir)
    BY <1>4 DEF VisitDefer, Stmt
  <2> QED
    BY <1>1, <2>1, EmitsAligned
<1>5. ASSUME NEW e \in Exprs, VisitCall(e)
      PROVE  Aligned'
  <2>1. status = "function" /\ Emits(Eval(mir, e))
    BY <1>5 DEF VisitCall, Stmt
  <2> QED
    BY <1>1, <2>1, EvalInScope, EmitsAligned
<1>6. ASSUME NEW n \in Name, NEW op \in {"sum", "difference"}, VisitIncrement(n, op)
      PROVE  Aligned'
  <2> DEFINE m == Ref(mir, n)
             args == <<V(LastVar(m)), Lit>>
             code == Opcode[op]
  <2>1. status = "function" /\ n \in InScope /\ Emits(AddInstr(m, code, args))
    BY <1>6 DEF VisitIncrement, Stmt
  <2>2. code \in Ops
    BY DEF Opcode, Ops
  <2>3. Renames(mir, m) /\ LastVar(m) \in Nat
    BY <1>1, <2>1, RefInScope
  <2> HIDE DEF m
  <2>4. args \in Seq(Argument)
    BY <2>3, ArgShapes
  <2> HIDE DEF args, code
  <2> QED
    BY <2>1, <2>2, <2>3, <2>4, InstrInScope, EmitsAligned
<1> QED
  BY <1>2, <1>3, <1>4, <1>5, <1>6

LEMMA AssignAligned ==
  ASSUME MirAssumption, MirInv, Aligned, NEW n, NEW e \in Exprs, VisitAssign(n, e)
  PROVE  Aligned'
<1> DEFINE start == CreateVar(mir)
           m == Eval(start, e)
<1>1. status = "function" /\ n \in InScope /\ WithValue(m, Updates(m, n, LastVar(m)))
  BY DEF VisitAssign, Stmt
<1>2. Renames(mir, start)
  BY <1>1, Working, CodeRenames
<1> HIDE DEF start
<1>3. Renames(mir, m) /\ LastVar(m) \in Nat
  BY <1>1, <1>2, EvalInScope
<1> HIDE DEF m
<1>4. Updates(m, n, LastVar(m)) \/ Throw("no_value")
  BY <1>1 DEF WithValue
<1> QED
  BY <1>1, <1>3, <1>4, UpdatesAligned, ThrowAligned

LEMMA CompoundAligned ==
  ASSUME MirAssumption, MirInv, Aligned, NEW n, NEW e \in Exprs, NEW op \in CompoundOps,
         VisitCompound(n, e, op)
  PROVE  Aligned'
<1> DEFINE start == CreateVar(mir)
           right == Eval(start, e)
           left == Ref(right, n)
           args == <<V(LastVar(left)), V(LastVar(right))>>
           code == Opcode[op]
           m == SetResult(AddInstr(left, code, args), mir.next)
<1>1. /\ status = "function" /\ n \in InScope
      /\ WithValue(right, IF op = "remainder" THEN Emits(m) ELSE Updates(m, n, mir.next))
  BY DEF VisitCompound, Stmt, Compute
<1>2. Emits(m) \/ Updates(m, n, mir.next) \/ Throw("no_value")
  <2> HIDE DEF m, right
  <2> QED
    BY <1>1 DEF WithValue
<1>3. Renames(mir, start) /\ mir.next \in Nat
  BY <1>1, Working, CodeRenames DEF Factory
<1> HIDE DEF start
<1>4. Renames(mir, right) /\ LastVar(right) \in Nat
  BY <1>1, <1>3, EvalInScope
<1> HIDE DEF right
<1>5. Renames(mir, left) /\ LastVar(left) \in Nat
  BY <1>1, <1>4, RefInScope
<1> HIDE DEF left
<1>6. args \in Seq(Argument) /\ code \in Ops
  <2>1. code \in Ops
    BY DEF Opcode, Ops, CompoundOps
  <2> QED
    BY <1>4, <1>5, <2>1, ArgShapes
<1> HIDE DEF args, code
<1>7. Renames(mir, m)
  BY <1>1, <1>3, <1>5, <1>6, InstrInScope
<1> HIDE DEF m
<1> QED
  BY <1>1, <1>2, <1>3, <1>7, EmitsAligned, UpdatesAligned, ThrowAligned

-----------------------------------------------------------------------------
(* What merge_envs makes of the entries that differ.                        *)

LEMMA EmitLast ==
  ASSUME NEW m \in Factory, 1 <= Len(m.blocks), NEW op \in Ops, NEW args \in Seq(Argument)
  PROVE  LET f == Emit(m, op, args)
             s == <<Len(m.blocks), Len(m.blocks[Len(m.blocks)]) + 1>>
         IN  /\ f \in Factory /\ f.env = m.env /\ Len(f.blocks) = Len(m.blocks)
             /\ LastVar(f) = m.next /\ m.next \in Nat
             /\ s \in Slots(f) /\ Slot(f, s) = [op |-> op, args |-> args, res |-> m.next]
             /\ \A p \in Slots(m) : p \in Slots(f) /\ Slot(f, p) = Slot(m, p)
<1> DEFINE L == Len(m.blocks)
           i == [op |-> op, args |-> args, res |-> m.next]
           n == m.next + 1
           f == AddTo(m, L, i, n)
           new == <<L, Len(m.blocks[L]) + 1>>
<1>1. L \in 1..Len(m.blocks) /\ m.next \in Nat /\ n \in Nat \ {0}
  BY DEF Factory
<1>2. i \in Instruction /\ i.res = m.next
  BY <1>1 DEF Instruction
<1>3. Emit(m, op, args) = f
  BY EmitIsPut
<1>4. /\ Slots(f) = Slots(m) \cup {new}
      /\ Slot(f, new) = i
      /\ Len(f.blocks[L]) = Len(m.blocks[L]) + 1
      /\ \A p \in Slots(m) : Slot(f, p) = Slot(m, p)
  <2> HIDE DEF i, L, n
  <2>1. i \in Instruction
    BY <1>2
  <2> QED
    BY ONLY <1>1, <2>1, PutFacts DEF f, new
<1>5. f \in Factory /\ f.env = m.env /\ Len(f.blocks) = Len(m.blocks)
  <2> HIDE DEF i, L, n
  <2>1. i \in Instruction
    BY <1>2
  <2> QED
    BY ONLY <1>1, <2>1, PutWider DEF f
<1>6. LastVar(f) = m.next
  <2>1. Last(f.blocks) = f.blocks[L]
    BY <1>5 DEF Last
  <2>2. f.blocks[L] # <<>>
    <3>1. Len(f.blocks[L]) # Len(<<>>)
      <4>1. Len(m.blocks[L]) \in Nat
        BY <1>1, SlotShape
      <4> QED
        BY <1>4, <4>1
    <3> QED
      BY <3>1
  <2>3. Last(f.blocks[L]) = i
    BY <1>4 DEF Last, Slot
  <2> QED
    BY <1>2, <2>1, <2>2, <2>3 DEF LastVar
<1> HIDE DEF f, new
<1> QED
  BY <1>1, <1>3, <1>4, <1>5, <1>6 DEF new

\* The last block of f has a phi for the entry of n in scope d of the branches.
PhiFor(f, e1, e2, d, n) ==
  \E s \in Slots(f) :
    /\ s[1] = Len(f.blocks)
    /\ Slot(f, s).op = "PHI" /\ Slot(f, s).res = f.env[d][n].var
    /\ Slot(f, s).args = <<Phi(e1[d][n]), Phi(e2[d][n])>>

\* The code m goes on as f with a phi for one entry more.
GetsPhi(m, f, e1, e2, d, n) ==
  /\ Renames(m, f) /\ Len(f.blocks) = Len(m.blocks)
  /\ PhiFor(f, e1, e2, d, n)
  /\ \A i \in 1..Len(m.env), k \in Name :
       /\ PhiFor(m, e1, e2, i, k) => PhiFor(f, e1, e2, i, k)
       /\ <<i, k>> # <<d, n>> => f.env[i][k] = m.env[i][k]

LEMMA EntryMerged ==
  ASSUME MirAssumption,
         NEW m \in Factory, 1 <= Len(m.blocks), NEW e1, NEW e2, NEW p,
         p[1] \in 1..Len(m.env), p[2] \in Name, Held(m.env, p[1], p[2]),
         e1[p[1]][p[2]] \in Site, e2[p[1]][p[2]] \in Site
  PROVE  GetsPhi(m, MergeEntry(m, e1, e2, p), e1, e2, p[1], p[2])
<1> DEFINE d == p[1]
           n == p[2]
           args == <<Phi(e1[d][n]), Phi(e2[d][n])>>
           b == Emit(m, "PHI", args)
           s == [b.env[d][n] EXCEPT !.var = LastVar(b)]
           e == [b.env EXCEPT ![d][n] = s]
           f == SetEnv(b, e)
           new == <<Len(m.blocks), Len(m.blocks[Len(m.blocks)]) + 1>>
<1>1. args \in Seq(Argument) /\ "PHI" \in Ops
  BY ArgShapes DEF Ops
<1>2. MergeEntry(m, e1, e2, p) = f
  BY DEF MergeEntry, SetEnv
<1>3. d \in 1..Len(m.env) /\ n \in Name /\ Held(m.env, d, n)
  OBVIOUS
<1> HIDE DEF args, d, n
<1>4. /\ b \in Factory /\ b.env = m.env /\ Len(b.blocks) = Len(m.blocks)
      /\ LastVar(b) = m.next /\ m.next \in Nat
      /\ new \in Slots(b) /\ Slot(b, new) = [op |-> "PHI", args |-> args, res |-> m.next]
      /\ \A q \in Slots(m) : q \in Slots(b) /\ Slot(b, q) = Slot(m, q)
  BY <1>1, EmitLast
<1>5. new[1] = Len(m.blocks)
  OBVIOUS
<1> HIDE DEF b, new
<1>6. m.env \in Seq(Env!Scope)
  BY DEF Factory
<1>7. s \in Site /\ s.var = m.next
  <2>1. b.env[d][n] \in Site
    BY <1>3, <1>4, <1>6, ScopeEntries
  <2> QED
    BY <1>4, <2>1 DEF Site
<1> HIDE DEF s
<1>8. /\ e \in Seq(Env!Scope)
      /\ Len(e) = Len(m.env)
      /\ \A i \in 1..Len(m.env), k \in Name : e[i][k] = IF i = d /\ k = n THEN s ELSE m.env[i][k]
  BY <1>3, <1>4, <1>6, <1>7, EntryReplaced
<1> HIDE DEF e
<1>9. f \in Factory /\ f.blocks = b.blocks /\ f.env = e
  BY <1>4, <1>8, SetEnvFacts
<1> HIDE DEF f
<1>10. \A q : Slot(f, q) = Slot(b, q)
  BY <1>9 DEF Slot
<1>11. Slots(f) = Slots(b)
  BY <1>9 DEF Slots
<1>12. SameNames(m.env, f.env)
  <2>1. s # None
    BY <1>7 DEF MirAssumption
  <2> QED
    BY <1>3, <1>8, <1>9, <2>1 DEF SameNames, Held
<1>13. Renames(m, f) /\ Len(f.blocks) = Len(m.blocks)
  <2>1. Len(m.blocks) \in Nat
    BY DEF Factory
  <2> QED
    BY <1>4, <1>9, <1>12, <2>1 DEF Renames
<1>14. f.env[d][n].var = m.next
  BY <1>3, <1>7, <1>8, <1>9
<1>15. PhiFor(f, e1, e2, d, n)
  BY <1>4, <1>5, <1>10, <1>11, <1>13, <1>14 DEF PhiFor, args
<1>16. ASSUME NEW i \in 1..Len(m.env), NEW k \in Name, <<i, k>> # <<d, n>>
       PROVE  f.env[i][k] = m.env[i][k]
  BY <1>8, <1>9, <1>16
<1>17. ASSUME NEW i \in 1..Len(m.env), NEW k \in Name, PhiFor(m, e1, e2, i, k)
       PROVE  PhiFor(f, e1, e2, i, k)
  <2>1. CASE i = d /\ k = n
    BY <1>15, <2>1
  <2>2. CASE ~(i = d /\ k = n)
    <3>1. f.env[i][k] = m.env[i][k]
      BY <1>16, <2>2
    <3>2. PICK q \in Slots(m) :
            /\ q[1] = Len(m.blocks)
            /\ Slot(m, q).op = "PHI" /\ Slot(m, q).res = m.env[i][k].var
            /\ Slot(m, q).args = <<Phi(e1[i][k]), Phi(e2[i][k])>>
      BY <1>17 DEF PhiFor
    <3>3. q \in Slots(f) /\ Slot(f, q) = Slot(m, q)
      BY <1>4, <1>10, <1>11
    <3> QED
      BY <1>13, <3>1, <3>2, <3>3 DEF PhiFor
  <2> QED
    BY <2>1, <2>2
<1> QED
  BY <1>2, <1>13, <1>15, <1>16, <1>17 DEF GetsPhi, d, n

\* An entry that differs is one of both environments.
LEMMA DifferingEntry ==
  ASSUME NEW e1 \in Seq(Env!Scope), NEW e2 \in Seq(Env!Scope), NEW reached,
         NEW p \in Differing(e1, e2, reached)
  PROVE  /\ p = <<p[1], p[2]>> /\ p[1] \in 1..Len(e1) /\ p[2] \in Name
         /\ Held(e1, p[1], p[2])
         /\ e1[p[1]][p[2]] \in Site /\ e2[p[1]][p[2]] \in Site
<1> DEFINE d == p[1]
           n == p[2]
<1>1. Len(e1) \in Nat /\ Len(e2) \in Nat
  OBVIOUS
<1>2. p = <<d, n>> /\ d \in Common(e1, e2) /\ n \in Name /\ n \in Visited(e1, e2, d, reached)
  BY DEF Differing
<1>3. d \in 1..Len(e1) /\ d \in 1..Len(e2)
  BY <1>1, <1>2 DEF Common
<1> HIDE DEF d, n
<1>4. Held(e1, d, n) /\ Held(e2, d, n)
  BY <1>2 DEF Visited, Entries, Held
<1>5. e1[d][n] \in Site /\ e2[d][n] \in Site
  BY <1>2, <1>3, <1>4, ScopeEntries
<1> QED
  BY <1>2, <1>3, <1>4, <1>5 DEF d, n

\* merge_envs keeps the names of the first environment.  An entry that differs gets
\* a phi, and the others stay.
MergedNames(m, e1, e2, D, f) ==
  /\ f \in Factory /\ 1 <= Len(f.blocks) /\ Len(f.blocks) = Len(m.blocks)
  /\ SameNames(e1, f.env)
  /\ \A d \in 1..Len(e1), n \in Name : <<d, n>> \notin D => f.env[d][n] = e1[d][n]

LEMMA MergingNames ==
  ASSUME MirAssumption,
         NEW m \in Factory, 1 <= Len(m.blocks),
         NEW e1 \in Seq(Env!Scope), NEW e2 \in Seq(Env!Scope), NEW reached,
         NEW todo \in Seq(Differing(e1, e2, reached))
  PROVE  LET f == Merging(m, e1, e2, todo)
         IN  /\ MergedNames(m, e1, e2, Differing(e1, e2, reached), f)
             /\ \A j \in 1..Len(todo) : PhiFor(f, e1, e2, todo[j][1], todo[j][2])
<1> DEFINE n == Len(todo)
           z == SetEnv(m, e1)
           D == Differing(e1, e2, reached)
           S == {f \in Factory : MergedNames(m, e1, e2, D, f)}
           Solves(w) == w = [k \in 0..n |-> IF k = 0 THEN SetEnv(m, e1)
                                            ELSE MergeEntry(w[k - 1], e1, e2, todo[k])]
           F == [k \in 1..n |-> [f \in S |-> MergeEntry(f, e1, e2, todo[k])]]
           Has(f, j) == PhiFor(f, e1, e2, todo[j][1], todo[j][2])
<1>1. n \in Nat /\ \A k \in 1..n : todo[k] \in D
  BY ElementOfSeq
<1>2. z \in Factory /\ z.env = e1 /\ z.blocks = m.blocks
  BY SetEnvFacts
<1> HIDE DEF z
<1>3. z \in S
  BY <1>2 DEF MergedNames, SameNames
<1>4. ASSUME NEW k \in 1..n, NEW f \in S
      PROVE  /\ MergeEntry(f, e1, e2, todo[k]) \in S
             /\ Has(MergeEntry(f, e1, e2, todo[k]), k)
             /\ \A j \in 1..n : Has(f, j) => Has(MergeEntry(f, e1, e2, todo[k]), j)
  <2> DEFINE p == todo[k]
             g == MergeEntry(f, e1, e2, p)
  <2>1. p \in D
    BY <1>1
  <2>2. /\ p = <<p[1], p[2]>> /\ p[1] \in 1..Len(e1) /\ p[2] \in Name
        /\ Held(e1, p[1], p[2])
        /\ e1[p[1]][p[2]] \in Site /\ e2[p[1]][p[2]] \in Site
    BY <2>1, DifferingEntry
  <2>3. MergedNames(m, e1, e2, D, f) /\ f \in Factory /\ 1 <= Len(f.blocks)
    BY DEF MergedNames
  <2>4. Len(f.env) = Len(e1) /\ \A i \in 1..Len(e1), q \in Name : Held(f.env, i, q) <=> Held(e1, i, q)
    BY <2>3 DEF MergedNames, SameNames
  <2>5. \A j \in 1..n : todo[j][1] \in 1..Len(f.env) /\ todo[j][2] \in Name
    BY <1>1, <2>4, DifferingEntry
  <2> HIDE DEF p, D
  <2>6. p[1] \in 1..Len(f.env) /\ Held(f.env, p[1], p[2])
    BY <2>2, <2>4
  <2>7. GetsPhi(f, g, e1, e2, p[1], p[2])
    BY <2>2, <2>3, <2>6, EntryMerged
  <2> HIDE DEF g
  <2>8. SameNames(e1, g.env)
    BY <2>4, <2>7 DEF GetsPhi, Renames, SameNames
  <2>9. ASSUME NEW i \in 1..Len(e1), NEW q \in Name, <<i, q>> \notin D
        PROVE  g.env[i][q] = e1[i][q]
    <3>1. <<i, q>> # <<p[1], p[2]>>
      BY <2>1, <2>2, <2>9
    <3>2. g.env[i][q] = f.env[i][q]
      BY <2>4, <2>7, <3>1 DEF GetsPhi
    <3> QED
      BY <2>3, <2>9, <3>2 DEF MergedNames
  <2>10. g \in S
    BY <2>3, <2>7, <2>8, <2>9 DEF GetsPhi, Renames, MergedNames
  <2>11. Has(g, k) /\ \A j \in 1..n : Has(f, j) => Has(g, j)
    <3> HIDE DEF n
    <3> QED
      BY <2>5, <2>7 DEF GetsPhi, p
  <2> HIDE DEF Has, S
  <2> QED
    BY <2>10, <2>11 DEF g, p
<1> HIDE DEF S, D, Has
<1>5. F \in Steps(n, S)
  BY <1>4 DEF Steps
<1>6. PICK b \in [0..n -> S] :
        \A k \in 0..n : b[k] = IF k = 0 THEN z ELSE F[k][b[k - 1]]
  <2> HIDE DEF F, n
  <2>1. Solved(n, S, z, F)
    BY <1>1, <1>3, <1>5, Solution
  <2> QED
    BY <2>1, Zenon DEF Solved
<1>7. \A k \in 0..n : b[k] = IF k = 0 THEN z ELSE MergeEntry(b[k - 1], e1, e2, todo[k])
  <2>1. \A k \in 0..n : k # 0 => k \in 1..n /\ b[k - 1] \in S
    BY <1>1
  <2>2. \A k \in 1..n, f \in S : F[k][f] = MergeEntry(f, e1, e2, todo[k])
    OBVIOUS
  <2> HIDE DEF F, n
  <2> QED
    BY <1>6, <2>1, <2>2
<1>8. Solves(b)
  <2>1. b = [k \in 0..n |-> b[k]]
    OBVIOUS
  <2> HIDE DEF n
  <2> QED
    BY <1>7, <2>1 DEF z
<1> DEFINE merged == CHOOSE w : Solves(w)
<1>9. Merging(m, e1, e2, todo) = merged[n]
  BY DEF Merging
<1>10. Solves(merged)
  <2> HIDE DEF Solves
  <2> QED
    BY <1>8
<1>11. \A k \in 0..n : merged[k] = IF k = 0 THEN z ELSE MergeEntry(merged[k - 1], e1, e2, todo[k])
  <2> HIDE DEF n, merged
  <2> QED
    BY <1>10 DEF z
<1> HIDE DEF merged, n
<1>12. merged[n] \in S /\ \A j \in 1..n : Has(merged[n], j)
  <2> DEFINE T == {k \in 0..n : merged[k] \in S /\ \A j \in 1..k : Has(merged[k], j)}
  <2>1. 0 \in T
    BY <1>1, <1>3, <1>11
  <2>2. ASSUME NEW k \in 1..n, k - 1 \in T
        PROVE  k \in T
    <3>1. k \in 0..n /\ k # 0 /\ \A j \in 1..k : j \in 1..n /\ (j = k \/ j \in 1..k - 1)
      BY <1>1
    <3>2. merged[k] = MergeEntry(merged[k - 1], e1, e2, todo[k])
      BY <1>11, <3>1
    <3>3. merged[k - 1] \in S /\ \A j \in 1..k - 1 : Has(merged[k - 1], j)
      BY <2>2
    <3>4. /\ merged[k] \in S /\ Has(merged[k], k)
          /\ \A j \in 1..n : Has(merged[k - 1], j) => Has(merged[k], j)
      BY <1>4, <3>2, <3>3
    <3> QED
      BY <3>1, <3>3, <3>4
  <2> HIDE DEF T
  <2>3. \A k \in 0..n : k \in T
    BY <1>1, <2>1, <2>2, Upwards
  <2>4. n \in 0..n
    BY <1>1
  <2> QED
    BY <2>3, <2>4 DEF T
<1> QED
  BY <1>9, <1>12 DEF S, D, Has, n

\* All the elements of a finite set are in its sequence.
LEMMA AllInSequence ==
  ASSUME NEW S, IsFiniteSet(S), NEW x \in S
  PROVE  \E j \in 1..Len(SetToSeq(S)) : SetToSeq(S)[j] = x
<1> DEFINE n == Cardinality(S)
           q == SetToSeq(S)
<1>1. n \in Nat /\ \E f \in [1..n -> S] : IsInjective(f)
  <2>1. n \in Nat /\ ExistsBijection(1..n, S)
    BY FS_CardinalityType
  <2>2. PICK f : f \in Bijection(1..n, S)
    BY <2>1 DEF ExistsBijection
  <2>3. f \in [1..n -> S] /\ IsInjective(f)
    BY <2>2 DEF Bijection, Injection, IsInjective
  <2> QED
    BY <2>1, <2>3
<1>2. q \in [1..n -> S] /\ IsInjective(q)
  BY <1>1 DEF SetToSeq
<1> HIDE DEF q
<1>3. Len(q) = n
  BY <1>1, <1>2
<1>4. q \in Injection(1..n, S)
  BY <1>2 DEF Injection, IsInjective
<1>5. IsFiniteSet(1..n) /\ Cardinality(1..n) = n
  BY <1>1, FS_Interval
<1>6. q \in Surjection(1..n, S)
  BY <1>4, <1>5, FS_SurjSameCardinalityImpliesInj, FS_Injection
<1> QED
  BY <1>3, <1>6 DEF Surjection, q

LEMMA MergeEnvsNames ==
  ASSUME MirAssumption,
         NEW m \in Factory, 1 <= Len(m.blocks),
         NEW e1 \in Seq(Env!Scope), NEW e2 \in Seq(Env!Scope), NEW reached
  PROVE  LET D == Differing(e1, e2, reached)
             f == MergeEnvs(m, e1, e2, reached)
         IN  /\ MergedNames(m, e1, e2, D, f)
             /\ \A p \in D : PhiFor(f, e1, e2, p[1], p[2])
<1> DEFINE D == Differing(e1, e2, reached)
           todo == SetToSeq(D)
           f == Merging(m, e1, e2, todo)
<1>1. IsFiniteSet(D)
  BY DifferingFinite
<1>2. todo \in Seq(Differing(e1, e2, reached))
  BY <1>1, InSequence
<1>3. \A p \in D : \E j \in 1..Len(todo) : todo[j] = p
  <2> HIDE DEF D
  <2> QED
    BY <1>1, AllInSequence
<1>4. MergeEnvs(m, e1, e2, reached) = f
  BY DEF MergeEnvs
<1> HIDE DEF todo
<1>5. MergedNames(m, e1, e2, D, f) /\ \A j \in 1..Len(todo) : PhiFor(f, e1, e2, todo[j][1], todo[j][2])
  BY <1>2, MergingNames
<1> HIDE DEF f, D
<1> QED
  BY <1>3, <1>4, <1>5 DEF D

-----------------------------------------------------------------------------
(* The steps that open and close scopes.                                    *)

\* What is bound is a name that no scope of the checker has.
LEMMA FreshIsNew ==
  ASSUME NEW n \in Fresh, visible \in Seq(SUBSET Name)
  PROVE  \A i \in 1..Len(visible) : n \notin visible[i]
BY DEF Fresh, InScope, Range

LEMMA BoundTop ==
  ASSUME NEW vis \in Seq(SUBSET Name), NEW n
  PROVE  \A i \in 1..Len(vis) - 1 : [vis EXCEPT ![Len(vis)] = @ \cup {n}][i] = vis[i]
<1>1. Len(vis) \in Nat
  OBVIOUS
<1>2. \A i \in 1..Len(vis) - 1 : i \in DOMAIN vis /\ i # Len(vis)
  BY <1>1
<1> QED
  BY <1>2

LEMMA BindingAligned ==
  ASSUME MirAssumption, MirInv, Aligned, NEW n \in Name, NEW e \in Exprs, VisitBinding(n, e)
  PROVE  Aligned'
<1> DEFINE m == Eval(mir, e)
           v == LastVar(m)
           f == VarBind(m, n, v)
           vis2 == [visible EXCEPT ![Len(visible)] = @ \cup {n}]
<1>1. /\ status = "function" /\ n \in Fresh
      /\ WithValue(m, IF CanBind(m, n)
                      THEN /\ mir' = f /\ visible' = vis2
                           /\ Counted
                           /\ UNCHANGED <<globals, frames, status>>
                      ELSE Throw("not_inserted"))
  BY DEF VisitBinding, Stmt
<1>2. Renames(mir, m) /\ v \in Nat
  <2>1. Renames(mir, mir)
    BY <1>1, Working
  <2> QED
    BY <1>1, <2>1, EvalInScope
<1> HIDE DEF m, f, vis2
<1>3. CASE Throw("no_value") \/ Throw("not_inserted")
  BY <1>3, ThrowAligned
<1>4. CASE /\ CanBind(m, n) /\ mir' = f /\ visible' = vis2
           /\ UNCHANGED <<globals, frames, status>>
  <2>1. /\ m \in Factory /\ 1 <= Len(m.blocks) /\ 1 <= Len(m.env) /\ SameNames(mir.env, m.env)
        /\ m.env \in Seq(Env!Scope)
    <3>1. m \in Factory /\ 1 <= Len(m.blocks) /\ SameNames(mir.env, m.env) /\ 1 <= Len(mir.env)
      BY <1>1, <1>2, Working DEF Renames
    <3>2. Len(m.env) = Len(mir.env)
      BY <3>1 DEF SameNames
    <3> QED
      BY <3>1, <3>2 DEF Factory
  <2>2. /\ mir.env \in Seq(Env!Scope) /\ visible \in Seq(SUBSET Name) /\ Scoped(frames, visible)
    BY <1>1, Working
  <2>3. Layered(m.env, globals, frames, visible)
    BY <1>1, <2>1, <2>2, LayeredKept DEF Aligned
  <2>4. /\ Len(f.env) = Len(m.env)
        /\ \A d \in 1..Len(m.env), p \in Name :
             Held(f.env, d, p) <=> Held(m.env, d, p) \/ (d = Len(m.env) /\ p = n)
    <3>1. v \in Nat
      BY <1>2
    <3> HIDE DEF v
    <3> QED
      BY <1>4, <2>1, <3>1, BindNames DEF f
  <2>5. \A i \in 1..Len(visible) : n \notin visible[i]
    BY <1>1, <2>2, FreshIsNew
  <2>6. \A i \in 1..Len(visible) - 1 : vis2[i] = visible[i]
    BY <2>2, BoundTop DEF vis2
  <2>7. Layered(f.env, globals, frames, vis2)
    BY <2>1, <2>2, <2>3, <2>4, <2>5, <2>6, LayeredBound
  <2> QED
    BY <1>4, <2>7 DEF Aligned
<1> QED
  BY <1>1, <1>3, <1>4 DEF WithValue

LEMMA BuildingScoped ==
  ASSUME NEW m, NEW base, NEW gs, NEW ls, NEW fs, NEW vis, Building(m, base, gs, ls, fs, vis)
  PROVE  Scoped(fs, vis) /\ vis \in Seq(SUBSET Name)
<1>1. /\ Len(fs) \in Nat /\ \A i \in 1..Len(vis) : vis[i] \subseteq Name
      /\ Len(vis) = Len(fs) + 2
  BY BuildingTypes
<1>2. fs \in Seq(Frame) /\ vis \in Seq(SUBSET Name)
  BY DEF Building
<1> QED
  BY <1>1, <1>2 DEF Scoped

LEMMA NextScoped ==
  ASSUME MirInv', status' = "function"
  PROVE  Scoped(frames', visible')
<1>1. PICK base \in Nat : Building(mir', base, globals', Loose', frames', visible')
  BY DEF MirInv
<1> QED
  BY <1>1, BuildingScoped

\* The visit on top.
LEMMA TopFrame ==
  ASSUME MirInv, status = "function", frames # <<>>
  PROVE  /\ Top \in Frame /\ Top = frames[Len(frames)] /\ Len(frames) \in 1..Len(frames)
         /\ Len(Front(frames)) = Len(frames) - 1
         /\ \A j \in 1..Len(frames) - 1 : Front(frames)[j] = frames[j]
         /\ Len(Front(visible)) = Len(frames) + 1
         /\ \A i \in 1..Len(frames) + 1 : Front(visible)[i] = visible[i]
         /\ Front(frames) \in Seq(Frame) /\ Front(visible) \in Seq(SUBSET Name)
<1> DEFINE T == Frame
           U == SUBSET Name
<1>1. frames \in Seq(T) /\ visible \in Seq(U) /\ Len(visible) = Len(frames) + 2
  BY Working DEF Scoped
<1>2. visible # <<>>
  <2>1. Len(frames) \in Nat
    BY <1>1
  <2> QED
    BY <1>1, <2>1
<1> HIDE DEF T, U
<1>3. /\ Front(frames) \in Seq(T) /\ Len(Front(frames)) = Len(frames) - 1
      /\ Len(frames) \in Nat /\ 1 <= Len(frames)
      /\ \A i \in 1..Len(frames) - 1 : Front(frames)[i] = frames[i]
      /\ Last(frames) = frames[Len(frames)] /\ Last(frames) \in T
  BY <1>1, FrontFacts
<1>4. /\ Front(visible) \in Seq(U) /\ Len(Front(visible)) = Len(visible) - 1
      /\ \A i \in 1..Len(visible) - 1 : Front(visible)[i] = visible[i]
  BY <1>1, <1>2, FrontFacts
<1>5. Len(visible) - 1 = Len(frames) + 1 /\ Len(frames) \in 1..Len(frames)
  BY <1>1, <1>3
<1> QED
  BY <1>3, <1>4, <1>5 DEF Top, T, U

\* The operations of the factory on code, and those on the environment.
HasEnv(m) == "env" \in DOMAIN m /\ "blocks" \in DOMAIN m

LEMMA OnlyCode ==
  ASSUME NEW m, HasEnv(m)
  PROVE  /\ HasEnv(AddBlock(m)) /\ AddBlock(m).env = m.env
         /\ \A i, a : HasEnv(AddOperand(m, i, a)) /\ AddOperand(m, i, a).env = m.env
         /\ \A b, t : HasEnv(InsertJump(m, b, t)) /\ InsertJump(m, b, t).env = m.env
         /\ HasEnv(PushEnv(m)) /\ PushEnv(m).env = Env!PushEnv(m.env)
         /\ HasEnv(PopEnv(m)) /\ PopEnv(m).env = Env!PopEnv(m.env)
         /\ \A e : HasEnv(SetEnv(m, e)) /\ SetEnv(m, e).env = e
<1>1. HasEnv(AddBlock(m)) /\ AddBlock(m).env = m.env
  BY DEF AddBlock, HasEnv
<1>2. ASSUME NEW i, NEW a
      PROVE  HasEnv(AddOperand(m, i, a)) /\ AddOperand(m, i, a).env = m.env
  BY DEF AddOperand, HasEnv
<1>3. ASSUME NEW b, NEW t
      PROVE  HasEnv(InsertJump(m, b, t)) /\ InsertJump(m, b, t).env = m.env
  <2> DEFINE row == Append(m.blocks[b], Instr("JUMP", <<Lab(t)>>))
  <2>1. InsertJump(m, b, t) = [m EXCEPT !.blocks[b] = row]
    BY DEF InsertJump, InsertInto
  <2> HIDE DEF row
  <2> QED
    BY <2>1 DEF HasEnv
<1>4. HasEnv(PushEnv(m)) /\ PushEnv(m).env = Env!PushEnv(m.env)
  BY DEF PushEnv, HasEnv
<1>5. HasEnv(PopEnv(m)) /\ PopEnv(m).env = Env!PopEnv(m.env)
  BY DEF PopEnv, HasEnv
<1>6. \A e : HasEnv(SetEnv(m, e)) /\ SetEnv(m, e).env = e
  BY DEF SetEnv, HasEnv
<1> QED
  BY <1>1, <1>2, <1>3, <1>4, <1>5, <1>6

LEMMA OperandEnv ==
  ASSUME NEW m, HasEnv(m), NEW i, NEW a
  PROVE  AddOperand(m, i, a).env = m.env
BY DEF AddOperand, HasEnv

LEMMA FactoryHasEnv == \A m \in Factory : HasEnv(m)
BY DEF Factory, HasEnv

LEMMA EnterIfAligned ==
  ASSUME MirAssumption, MirInv, Aligned, MirInv', NEW e \in Exprs, NEW alt \in BOOLEAN,
         EnterIf(e, alt)
  PROVE  Aligned'
<1> DEFINE m == Eval(mir, e)
           args == <<V(LastVar(m))>>
           cond == Emit(m, "COND_JUMP", args)
           then == AddBlock(cond)
           f == AddOperand(then, LastInstr(cond), Lab(LastBlock(then)))
           fr == [kind |-> "then", alt |-> alt, cond |-> LastInstr(cond),
                  block |-> LastBlock(then), main |-> cond.env]
<1>1. /\ status = "function"
      /\ WithValue(m, /\ mir' = PushEnv(f)
                      /\ frames' = Append(frames, fr)
                      /\ visible' = Append(visible, {})
                      /\ Counted
                      /\ UNCHANGED <<globals, status>>)
  BY DEF EnterIf, Stmt, Push
<1>2. Renames(mir, m) /\ LastVar(m) \in Nat
  <2>1. Renames(mir, mir)
    BY <1>1, Working
  <2> QED
    BY <1>1, <2>1, EvalInScope
<1> HIDE DEF m
<1>3. Renames(mir, cond)
  <2>1. args \in Seq(Argument)
    BY <1>2, ArgShapes
  <2> HIDE DEF args
  <2> QED
    BY <1>1, <1>2, <2>1, InstrInScope DEF Ops
<1>4. fr.kind = "then" /\ SetAside(fr) = cond.env
  BY DEF SetAside
<1> HIDE DEF cond
<1>5. HasEnv(f) /\ f.env = cond.env
  <2>1. HasEnv(cond)
    BY <1>3, FactoryHasEnv DEF Renames
  <2>2. HasEnv(then) /\ then.env = cond.env
    BY <2>1, OnlyCode
  <2> DEFINE i == LastInstr(cond)
             a == Lab(LastBlock(then))
  <2>3. f = AddOperand(then, i, a)
    OBVIOUS
  <2> HIDE DEF f, i, a, then
  <2> QED
    BY <2>2, <2>3, OnlyCode
<1> HIDE DEF f, fr
<1>6. CASE Throw("no_value")
  BY <1>6, ThrowAligned
<1>7. CASE /\ mir' = PushEnv(f) /\ frames' = Append(frames, fr) /\ visible' = Append(visible, {})
           /\ UNCHANGED <<globals, status>>
  <2>1. Scoped(frames', visible')
    BY <1>1, <1>7, NextScoped
  <2>2. /\ mir.env \in Seq(Env!Scope) /\ Scoped(frames, visible)
        /\ frames \in Seq(Frame) /\ visible \in Seq(SUBSET Name)
    BY <1>1, Working
  <2>3. cond.env \in Seq(Env!Scope) /\ Layered(cond.env, globals, frames, visible)
    <3>1. cond.env \in Seq(Env!Scope) /\ SameNames(mir.env, cond.env)
      BY <1>3 DEF Renames, Factory
    <3> QED
      BY <1>1, <2>2, <3>1, LayeredKept DEF Aligned
  <2>4. /\ Len(frames') = Len(frames) + 1 /\ frames'[Len(frames) + 1] = fr
        /\ \A j \in 1..Len(frames) : frames'[j] = frames[j]
    <3> DEFINE T == Frame
    <3>1. frames \in Seq(T)
      BY <2>2
    <3> HIDE DEF T
    <3> QED
      BY <1>7, <3>1
  <2>5. \A i \in 1..Len(frames) + 1 : visible'[i] = visible[i]
    <3>1. Len(visible) = Len(frames) + 2 /\ Len(frames) \in Nat
      BY <2>2 DEF Scoped
    <3>2. \A i \in 1..Len(frames) + 1 : i \in 1..Len(visible)
      BY <3>1
    <3> QED
      BY <1>7, <2>2, <3>2
  <2>6. frames'[Len(frames) + 1].kind # "loop" => SetAside(frames'[Len(frames) + 1]) = cond.env
    BY <1>4, <2>4
  <2>7. Layered(Env!PushEnv(cond.env), globals, frames', visible')
    BY <2>1, <2>2, <2>3, <2>4, <2>5, <2>6, LayeredPushed
  <2>8. mir'.env = Env!PushEnv(cond.env)
    BY <1>5, <1>7, OnlyCode
  <2> QED
    BY <1>7, <2>7, <2>8 DEF Aligned
<1> QED
  BY <1>1, <1>6, <1>7 DEF WithValue

\* Leaving a branch.
LEMMA LeaveThenGoesOnAligned ==
  ASSUME MirInv, Aligned, MirInv', LeaveThen, Top.alt
  PROVE  Aligned'
<1> DEFINE alt == AddBlock(SetEnv(mir, Top.main))
           f == AddOperand(alt, Top.cond, Lab(LastBlock(alt)))
           fr == [kind |-> "else", then |-> Top.block, block |-> LastBlock(alt), env |-> mir.env]
           k == Len(frames)
<1>1. /\ status = "function" /\ frames # <<>> /\ Top.kind = "then"
      /\ mir' = PushEnv(f)
      /\ frames' = Append(Front(frames), fr)
      /\ visible' = Append(Front(visible), {})
      /\ globals' = globals /\ status' = status
  BY DEF LeaveThen, Leaves
<1>2. fr.kind = "else" /\ SetAside(fr) = mir.env
  BY DEF SetAside
<1>3. HasEnv(f) /\ f.env = Top.main
  <2>1. HasEnv(mir)
    BY <1>1, Working, FactoryHasEnv
  <2> DEFINE base == SetEnv(mir, Top.main)
  <2>2. HasEnv(base) /\ base.env = Top.main
    BY <2>1, OnlyCode
  <2>3. alt = AddBlock(base)
    OBVIOUS
  <2> HIDE DEF base, alt
  <2>4. HasEnv(alt) /\ alt.env = Top.main
    BY <2>2, <2>3, OnlyCode
  <2> QED
    BY <2>4, OnlyCode
<1> HIDE DEF f, fr
<1>4. mir'.env = Env!PushEnv(Top.main)
  BY <1>1, <1>3, OnlyCode
<1>5. /\ mir.env \in Seq(Env!Scope) /\ Scoped(frames, visible)
      /\ Layered(mir.env, globals, frames, visible)
      /\ Scoped(frames', visible')
  BY <1>1, Working, NextScoped DEF Aligned
<1>6. /\ Top = frames[k] /\ k \in 1..k /\ 1 <= k
      /\ frames[k].kind # "loop" /\ SetAside(frames[k]) = Top.main
  BY <1>1, TopFrame DEF SetAside
<1>7. /\ Len(frames') = k /\ frames'[k] = fr
      /\ \A j \in 1..k - 1 : frames'[j] = frames[j]
  <2> DEFINE T == Frame
             front == Front(frames)
  <2>1. front \in Seq(T) /\ Len(front) = k - 1 /\ \A j \in 1..k - 1 : front[j] = frames[j]
    BY <1>1, TopFrame
  <2> HIDE DEF T
  <2>2. frames' = Append(front, fr)
    BY <1>1
  <2> HIDE DEF front
  <2>3. Len(frames') = Len(front) + 1 /\ frames'[Len(front) + 1] = fr
        /\ \A j \in 1..Len(front) : frames'[j] = front[j]
    BY <2>1, <2>2
  <2>4. Len(front) + 1 = k
    BY <1>6, <2>1
  <2> QED
    BY <2>1, <2>3, <2>4
<1>8. \A i \in 1..k + 1 : visible'[i] = visible[i]
  <2> DEFINE front == Front(visible)
  <2>1. front \in Seq(SUBSET Name) /\ Len(front) = k + 1 /\ \A i \in 1..k + 1 : front[i] = visible[i]
    BY <1>1, TopFrame
  <2>2. visible' = Append(front, {})
    BY <1>1
  <2> HIDE DEF front
  <2>3. \A i \in 1..Len(front) : visible'[i] = front[i]
    BY <2>1, <2>2
  <2> QED
    BY <2>1, <2>3
<1>9. Layered(Env!PushEnv(SetAside(frames[k])), globals, frames', visible')
  <2>1. frames'[k].kind # "loop" /\ SetAside(frames'[k]) = mir.env
    BY <1>2, <1>7
  <2> QED
    BY ONLY <1>5, <1>6, <1>7, <1>8, <2>1, LayeredElse DEF k
<1> QED
  BY <1>1, <1>4, <1>6, <1>9 DEF Aligned

LEMMA TopBlocks ==
  ASSUME MirInv, status = "function", frames # <<>>
  PROVE  /\ Top.kind = "then" => Top.block \in 1..Len(mir.blocks)
         /\ Top.kind = "else" => Top.then \in 1..Len(mir.blocks) /\ Top.block \in 1..Len(mir.blocks)
<1>1. PICK base \in Nat : Building(mir, base, globals, Loose, frames, visible)
  BY DEF MirInv
<1>2. Suspended(mir, Top, base, globals, Loose, visible, Len(visible) - 1)
  BY <1>1, TopSuspended
<1> QED
  BY <1>2 DEF Suspended

\* The branches jump to a block of their own.
LEMMA BlockMet ==
  ASSUME MirInv, status = "function", NEW b \in 1..Len(mir.blocks), NEW c \in 1..Len(mir.blocks)
  PROVE  LET merge == AddBlock(mir)
             to == LastBlock(merge)
             one == InsertJump(merge, b, to)
             two == InsertJump(one, c, to)
         IN  /\ one \in Factory /\ 1 <= Len(one.blocks)
             /\ two \in Factory /\ 1 <= Len(two.blocks)
<1> DEFINE merge == AddBlock(mir)
           to == LastBlock(merge)
           args == <<Lab(to)>>
           one == InsertJump(merge, b, to)
           two == InsertJump(one, c, to)
<1>1. mir \in Factory /\ 1 <= Len(mir.blocks)
  BY Working
<1>2. /\ merge \in Factory /\ 1 <= Len(merge.blocks)
      /\ b \in 1..Len(merge.blocks) /\ c \in 1..Len(merge.blocks)
      /\ to \in Nat
  <2>1. merge \in Factory /\ Len(merge.blocks) = Len(mir.blocks) + 1
    BY <1>1, BlockFacts
  <2>2. Len(mir.blocks) \in Nat
    BY <1>1 DEF Factory
  <2> QED
    BY <1>1, <2>1, <2>2 DEF LastBlock
<1>3. args \in Seq(Argument) /\ "JUMP" \in Ops
  BY <1>2, ArgShapes DEF Ops
<1>4. one = InsertInto(merge, b, "JUMP", args) /\ two = InsertInto(one, c, "JUMP", args)
  BY DEF InsertJump
<1> HIDE DEF args, merge, to, one, two
<1>5. Renames(merge, one)
  BY <1>2, <1>3, <1>4, InstrRenames
<1>6. one \in Factory /\ 1 <= Len(one.blocks) /\ c \in 1..Len(one.blocks)
  <2>1. Len(merge.blocks) \in Nat /\ Len(one.blocks) \in Nat
    BY <1>2, <1>5 DEF Renames, Factory
  <2> QED
    BY <1>2, <1>5, <2>1 DEF Renames
<1>7. Renames(one, two)
  BY <1>3, <1>4, <1>6, InstrRenames
<1> QED
  BY <1>6, <1>7 DEF Renames, merge, to, one, two

\* f has the merged environment of two branches.
Unites(f, e1, e2, reached) ==
  /\ f \in Factory /\ 1 <= Len(f.blocks) /\ SameNames(e1, f.env)
  /\ \A d \in 1..Len(e1), n \in Name :
       IF <<d, n>> \in Differing(e1, e2, reached)
       THEN PhiFor(f, e1, e2, d, n) ELSE f.env[d][n] = e1[d][n]

LEMMA MergeUnites ==
  ASSUME MirAssumption,
         NEW m \in Factory, 1 <= Len(m.blocks),
         NEW e1 \in Seq(Env!Scope), NEW e2 \in Seq(Env!Scope), NEW reached
  PROVE  Unites(MergeEnvs(m, e1, e2, reached), e1, e2, reached)
<1> DEFINE D == Differing(e1, e2, reached)
           f == MergeEnvs(m, e1, e2, reached)
<1>1. MergedNames(m, e1, e2, D, f) /\ \A p \in D : PhiFor(f, e1, e2, p[1], p[2])
  BY MergeEnvsNames
<1> HIDE DEF f
<1>2. \A d \in 1..Len(e1), n \in Name : <<d, n>> \in D => PhiFor(f, e1, e2, d, n)
  <2> HIDE DEF D
  <2> QED
    BY <1>1
<1> QED
  BY <1>1, <1>2 DEF MergedNames, Unites, f

LEMMA ElseUnites ==
  ASSUME MirAssumption, MirInv, NEW reached, LeaveElse(reached)
  PROVE  /\ status = "function" /\ frames # <<>> /\ Top.kind = "else"
         /\ Top.env \in Seq(Env!Scope)
         /\ Unites(mir', Top.env, mir.env, reached)
<1> DEFINE merge == AddBlock(mir)
           to == LastBlock(merge)
           m == InsertJump(InsertJump(merge, Top.then, to), Top.block, to)
<1>1. /\ status = "function" /\ frames # <<>> /\ Top.kind = "else"
      /\ mir' = MergeEnvs(m, Top.env, mir.env, reached)
  BY DEF LeaveElse, Leaves
<1>2. Top.then \in 1..Len(mir.blocks) /\ Top.block \in 1..Len(mir.blocks)
  BY <1>1, TopBlocks
<1>3. m \in Factory /\ 1 <= Len(m.blocks)
  BY <1>1, <1>2, BlockMet
<1> HIDE DEF m
<1>4. Top.env \in Seq(Env!Scope) /\ mir.env \in Seq(Env!Scope)
  <2>1. SetAside(Top) \in Seq(Env!Scope)
    BY <1>1, TopFrame, FrameEnv
  <2> QED
    BY <1>1, <2>1, Working DEF SetAside
<1> QED
  BY <1>1, <1>3, <1>4, MergeUnites

LEMMA LeftAligned ==
  ASSUME MirInv, Aligned, status = "function", frames # <<>>, Top.kind # "loop",
         SameNames(SetAside(Top), mir'.env), Pop, globals' = globals
  PROVE  Aligned'
<1> DEFINE k == Len(frames)
<1>1. Scoped(frames, visible) /\ Layered(mir.env, globals, frames, visible)
  BY Working DEF Aligned
<1>2. /\ Top = frames[k] /\ 1 <= k /\ Len(frames') = k - 1
      /\ \A j \in 1..k - 1 : frames'[j] = frames[j]
      /\ \A i \in 1..k + 1 : visible'[i] = visible[i]
  BY TopFrame DEF Pop
<1>3. \A i \in 1..k : i \in 1..k + 1
  BY <1>1 DEF Scoped
<1>4. \A i \in 1..k : visible'[i] = visible[i]
  BY <1>2, <1>3
<1>5. /\ \A j \in 1..Len(frames') : frames'[j] = frames[j]
      /\ frames[k].kind # "loop" /\ SameNames(SetAside(frames[k]), mir'.env)
  BY <1>2
<1>6. Layered(mir'.env, globals, frames', visible')
  BY ONLY <1>1, <1>2, <1>4, <1>5, LayeredLeft DEF k
<1> QED
  BY <1>6 DEF Aligned

LEMMA LeaveElseAligned ==
  ASSUME MirAssumption, MirInv, Aligned, NEW reached, LeaveElse(reached)
  PROVE  Aligned'
<1>1. /\ status = "function" /\ frames # <<>> /\ Top.kind = "else"
      /\ SameNames(Top.env, mir'.env)
  BY ElseUnites DEF Unites
<1>2. SameNames(SetAside(Top), mir'.env)
  BY <1>1 DEF SetAside
<1>3. Pop /\ globals' = globals
  BY DEF LeaveElse
<1> QED
  BY <1>1, <1>2, <1>3, LeftAligned

LEMMA LeaveThenMergesAligned ==
  ASSUME MirAssumption, MirInv, Aligned, LeaveThen, ~Top.alt
  PROVE  Aligned'
<1> DEFINE merge == AddBlock(mir)
           m == InsertJump(merge, Top.block, LastBlock(merge))
           f == MergeEnvs(m, Top.main, mir.env, {})
<1>1. /\ status = "function" /\ frames # <<>> /\ Top.kind = "then"
      /\ mir' = SetEnv(f, Top.main) /\ Pop /\ globals' = globals
  BY DEF LeaveThen, Leaves
<1>2. m \in Factory /\ 1 <= Len(m.blocks)
  <2>1. Top.block \in 1..Len(mir.blocks)
    BY <1>1, TopBlocks
  <2> QED
    BY <1>1, <2>1, BlockMet
<1> HIDE DEF m
<1>3. Top.main \in Seq(Env!Scope) /\ mir.env \in Seq(Env!Scope) /\ SetAside(Top) = Top.main
  <2>1. SetAside(Top) \in Seq(Env!Scope)
    BY <1>1, TopFrame, FrameEnv
  <2> QED
    BY <1>1, <2>1, Working DEF SetAside
<1>4. f \in Factory
  BY <1>2, <1>3, MergeUnites DEF Unites
<1> HIDE DEF f
<1>5. mir'.env = Top.main
  <2>1. HasEnv(f)
    BY <1>4, FactoryHasEnv
  <2>2. SetEnv(f, Top.main).env = Top.main
    BY <2>1, OnlyCode
  <2>3. mir' = SetEnv(f, Top.main)
    BY <1>1
  <2> QED
    BY ONLY <2>2, <2>3
<1>6. SameNames(SetAside(Top), mir'.env)
  BY <1>3, <1>5 DEF SameNames
<1> QED
  BY <1>1, <1>6, LeftAligned

LEMMA LeaveLoopAligned ==
  ASSUME MirInv, Aligned, LeaveLoop
  PROVE  Aligned'
<1> DEFINE k == Len(frames)
           body == Top.expr + 1
           merge == AddBlock(InsertJump(PopEnv(mir), body, Top.expr))
           one == AddOperand(merge, Top.cond, Lab(body))
           to == Lab(LastBlock(merge))
<1>1. /\ status = "function" /\ frames # <<>>
      /\ mir' = AddOperand(one, Top.cond, to)
      /\ Pop /\ globals' = globals
  BY DEF LeaveLoop, Leaves
<1>2. /\ mir.env \in Seq(Env!Scope) /\ Scoped(frames, visible) /\ HasEnv(mir)
      /\ Layered(mir.env, globals, frames, visible)
  BY <1>1, Working, FactoryHasEnv DEF Aligned
<1> DEFINE a == PopEnv(mir)
           b == InsertJump(a, body, Top.expr)
<1>3. HasEnv(a) /\ a.env = Env!PopEnv(mir.env)
  BY <1>2, OnlyCode
<1>4. merge = AddBlock(b)
  OBVIOUS
<1> HIDE DEF a, merge
<1>5. HasEnv(b) /\ b.env = Env!PopEnv(mir.env)
  BY <1>3, OnlyCode
<1> HIDE DEF b
<1>6. HasEnv(merge) /\ merge.env = Env!PopEnv(mir.env)
  BY <1>4, <1>5, OnlyCode
<1> HIDE DEF to, body
<1>7. HasEnv(one) /\ one.env = Env!PopEnv(mir.env)
  BY <1>6, OnlyCode
<1> HIDE DEF one
<1>8. mir'.env = Env!PopEnv(mir.env)
  <2>1. AddOperand(one, Top.cond, to).env = one.env
    BY <1>7, OperandEnv
  <2>2. mir' = AddOperand(one, Top.cond, to)
    BY <1>1
  <2> QED
    BY ONLY <1>7, <2>1, <2>2
<1>9. /\ 1 <= k /\ Len(frames') = k - 1
      /\ \A j \in 1..k - 1 : frames'[j] = frames[j]
      /\ \A i \in 1..k + 1 : visible'[i] = visible[i]
  BY <1>1, TopFrame DEF Pop
<1>10. \A i \in 1..k : visible'[i] = visible[i]
  <2>1. \A i \in 1..k : i \in 1..k + 1
    BY <1>2 DEF Scoped
  <2> QED
    BY <1>9, <2>1
<1>11. \A j \in 1..Len(frames') : frames'[j] = frames[j]
  BY <1>9
<1>12. Layered(Env!PopEnv(mir.env), globals, frames', visible')
  BY ONLY <1>2, <1>9, <1>10, <1>11, LayeredPopped DEF k
<1> QED
  BY <1>1, <1>8, <1>12 DEF Aligned

\* The init expression of a loop binds its name to a constant.
LEMMA LoopBound ==
  ASSUME MirAssumption, MirInv, status = "function", NEW init \in Name, CanBind(mir, init)
  PROVE  LET const == Emit(mir, "CONST_INT", <<Lit>>)
             bound == VarBind(const, init, LastVar(const))
         IN  /\ bound \in Factory /\ 1 <= Len(bound.blocks) /\ Len(bound.env) = Len(mir.env)
             /\ \A d \in 1..Len(mir.env), p \in Name :
                  Held(bound.env, d, p) <=> Held(mir.env, d, p) \/ (d = Len(mir.env) /\ p = init)
             /\ \A n \in InScope \cup {init} : KnownName(bound, n)
<1> DEFINE op == "CONST_INT"
           args == <<Lit>>
           const == Emit(mir, op, args)
           v == LastVar(const)
           bound == VarBind(const, init, v)
<1>1. /\ mir \in Factory /\ 1 <= Len(mir.blocks) /\ 1 <= Len(mir.env) /\ mir.env \in Seq(Env!Scope)
      /\ \A n \in InScope : KnownName(mir, n)
  BY Working
<1>2. op \in Ops /\ args \in Seq(Argument)
  BY ArgShapes DEF Ops
<1> HIDE DEF op, args
<1>3. const \in Factory /\ 1 <= Len(const.blocks) /\ const.env = mir.env
  BY <1>1, <1>2, InstrRenames DEF Renames
<1>4. v \in Nat /\ CanBind(const, init)
  BY <1>3, LastVarNat DEF CanBind
<1> HIDE DEF const, v
<1>5. /\ bound \in Factory /\ 1 <= Len(bound.blocks) /\ Len(bound.env) = Len(mir.env)
      /\ \A d \in 1..Len(mir.env), p \in Name :
           Held(bound.env, d, p) <=> Held(mir.env, d, p) \/ (d = Len(mir.env) /\ p = init)
  <2>1. 1 <= Len(const.env)
    BY <1>1, <1>3
  <2>2. /\ bound \in Factory /\ 1 <= Len(bound.blocks) /\ Len(bound.env) = Len(const.env)
        /\ \A d \in 1..Len(const.env), p \in Name :
             Held(bound.env, d, p) <=> Held(const.env, d, p) \/ (d = Len(const.env) /\ p = init)
    BY <1>3, <1>4, <2>1, BindNames
  <2> QED
    BY <1>3, <2>2
<1> HIDE DEF bound
<1>6. ASSUME NEW n \in InScope \cup {init}
      PROVE  KnownName(bound, n)
  <2>1. CASE n = init
    <3>1. Len(mir.env) \in 1..Len(mir.env)
      BY <1>1
    <3>2. Held(bound.env, Len(mir.env), init)
      BY <1>5, <3>1
    <3> QED
      BY <1>5, <2>1, <3>1, <3>2, KnowsHeld DEF KnownName
  <2>2. CASE n \in InScope
    <3>1. KnownName(mir, n)
      BY <1>1, <2>2
    <3>2. CASE n \in globals
      BY <3>1, <3>2 DEF KnownName
    <3>3. CASE n \notin globals
      <4>1. PICK d \in 1..Len(mir.env) : Held(mir.env, d, n)
        BY <1>1, <3>1, <3>3, KnowsHeld DEF KnownName
      <4>2. n \in Name /\ Held(bound.env, d, n)
        BY <1>5, <3>1, <4>1 DEF KnownName
      <4> QED
        BY <1>5, <4>1, <4>2, KnowsHeld DEF KnownName
    <3> QED
      BY <3>2, <3>3
  <2> QED
    BY <2>1, <2>2
<1> QED
  BY <1>5, <1>6 DEF bound, const, v, op, args

LEMMA EnterLoopAligned ==
  ASSUME MirAssumption, MirInv, Aligned, MirInv', NEW init, NEW c, NEW post,
         EnterLoop(init, c, post)
  PROVE  Aligned'
<1> DEFINE const == Emit(mir, "CONST_INT", <<Lit>>)
           bound == VarBind(const, init, LastVar(const))
           condBlock == LastBlock(bound) + 1
           start == AddBlock(AddInstr(bound, "JUMP", <<Lab(condBlock)>>))
           value == Eval(start, c)
           cond == Emit(value, "COND_JUMP", <<V(LastVar(value))>>)
           expr == Emit(AddBlock(cond), "CONST_INT", <<Lit>>)
           update == AddUpdate(expr, post, LastVar(expr))
           jump == InsertJump(update, LastBlock(expr), condBlock)
           fr == [kind |-> "loop", cond |-> LastInstr(cond), expr |-> LastBlock(jump),
                  post |-> post]
           vis == [visible EXCEPT ![Len(visible)] = @ \cup {init}]
           names == (InScope \cup {init}) \ {None}
<1>1. /\ status = "function"
      /\ init \in Fresh \cup {None}
      /\ c \in ExprsOver(names) \cup {None}
      /\ post \in PostNames(init) \cup {None}
  BY DEF EnterLoop, Stmt
<1>2. CASE None \in {init, c, post}
  <2>1. Throw("unexpected_nullptr")
    BY <1>2 DEF EnterLoop
  <2> QED
    BY <2>1, ThrowAligned
<1>3. CASE None \notin {init, c, post} /\ ~CanBind(mir, init)
  <2>1. Throw("not_inserted")
    BY <1>3 DEF EnterLoop
  <2> QED
    BY <2>1, ThrowAligned
<1>4. ASSUME None \notin {init, c, post}, CanBind(mir, init)
      PROVE  Aligned'
  <2>1. WithValue(value, IF ~Knows(expr, post) THEN Throw("not_defined")
                         ELSE /\ mir' = PushEnv(AddBlock(jump)) /\ frames' = Append(frames, fr)
                              /\ visible' = Append(vis, {}) /\ Counted
                              /\ UNCHANGED <<globals, status>>)
    BY <1>4 DEF EnterLoop
  <2>2. InScope \subseteq Name /\ Fresh \subseteq Name
    BY <1>1, Working DEF KnownName, Fresh, MirInv, MirAssumption
  <2>3. init \in Name /\ init \in Fresh
    BY <1>1, <1>4 DEF Fresh, MirInv, MirAssumption
  <2>4. post \in Name
    BY <1>1, <1>4, <2>2, <2>3 DEF PostNames
  <2>5. /\ bound \in Factory /\ 1 <= Len(bound.blocks) /\ Len(bound.env) = Len(mir.env)
        /\ \A d \in 1..Len(mir.env), p \in Name :
             Held(bound.env, d, p) <=> Held(mir.env, d, p) \/ (d = Len(mir.env) /\ p = init)
        /\ \A n \in InScope \cup {init} : KnownName(bound, n)
    BY <1>1, <1>4, <2>3, LoopBound
  <2> HIDE DEF bound, const
  <2>6. Renames(bound, start)
    <3> DEFINE args == <<Lab(condBlock)>>
               jumped == AddInstr(bound, "JUMP", args)
    <3>1. condBlock \in Nat
      BY <2>5 DEF LastBlock, Factory
    <3>2. args \in Seq(Argument) /\ "JUMP" \in Ops
      BY <3>1, ArgShapes DEF Ops
    <3> HIDE DEF args
    <3>3. Renames(bound, jumped)
      BY <2>5, <3>2, InstrRenames
    <3>4. start = AddBlock(jumped)
      BY DEF args
    <3> HIDE DEF jumped, start
    <3>5. Renames(jumped, start)
      BY <3>3, <3>4, CodeRenames DEF Renames
    <3> QED
      BY <2>5, <3>3, <3>5, RenamesChained
  <2> HIDE DEF start, condBlock
  <2>7. Renames(bound, value)
    <3>1. start \in Factory /\ 1 <= Len(start.blocks) /\ \A n \in names : KnownName(start, n)
      BY <2>5, <2>6, KnownKept DEF Renames
    <3>2. c \in ExprsOver(names)
      BY <1>1, <1>4
    <3> HIDE DEF names
    <3>3. Renames(start, value)
      BY <3>1, <3>2, EvalRenames
    <3> QED
      BY <2>5, <2>6, <3>3, RenamesChained
  <2> HIDE DEF value
  <2>8. Renames(bound, cond)
    <3> DEFINE args == <<V(LastVar(value))>>
    <3>1. LastVar(value) \in Nat
      BY <2>7, LastVarNat DEF Renames
    <3>2. args \in Seq(Argument) /\ "COND_JUMP" \in Ops
      BY <3>1, ArgShapes DEF Ops
    <3>3. cond = Emit(value, "COND_JUMP", args)
      OBVIOUS
    <3> HIDE DEF args, cond
    <3>4. Renames(value, cond)
      BY <2>7, <3>2, <3>3, InstrRenames DEF Renames
    <3> QED
      BY <2>5, <2>7, <3>4, RenamesChained
  <2> HIDE DEF cond
  <2>9. Renames(bound, expr) /\ LastVar(expr) \in Nat
    <3> DEFINE args == <<Lit>>
               next == AddBlock(cond)
    <3>1. args \in Seq(Argument) /\ "CONST_INT" \in Ops
      BY ArgShapes DEF Ops
    <3>2. Renames(cond, next)
      BY <2>8, CodeRenames DEF Renames
    <3>3. expr = Emit(next, "CONST_INT", args)
      OBVIOUS
    <3> HIDE DEF args, next, expr
    <3>4. Renames(next, expr)
      BY <3>1, <3>2, <3>3, InstrRenames DEF Renames
    <3>5. Renames(bound, next)
      BY <2>5, <2>8, <3>2, RenamesChained
    <3>6. Renames(bound, expr)
      BY <2>5, <3>4, <3>5, RenamesChained
    <3> QED
      BY <3>6, LastVarNat DEF Renames
  <2> HIDE DEF expr
  <2>10. ASSUME Knows(expr, post)
         PROVE  Renames(bound, update)
    <3> DEFINE v == LastVar(expr)
    <3>1. v \in Nat
      BY <2>9
    <3> HIDE DEF v
    <3>2. Renames(expr, AddUpdate(expr, post, v))
      BY <2>4, <2>9, <2>10, <3>1, UpdateRenames DEF Renames
    <3> QED
      BY <2>5, <2>9, <3>2, RenamesChained DEF v
  <2> HIDE DEF update
  <2>11. ASSUME Knows(expr, post)
         PROVE  HasEnv(AddBlock(jump)) /\ AddBlock(jump).env = update.env
    <3> DEFINE b == LastBlock(expr)
    <3>1. HasEnv(update)
      BY <2>10, <2>11, FactoryHasEnv DEF Renames
    <3>2. jump = InsertJump(update, b, condBlock)
      OBVIOUS
    <3> HIDE DEF b, jump
    <3>3. HasEnv(jump) /\ jump.env = update.env
      BY <3>1, <3>2, OnlyCode
    <3> QED
      BY <3>3, OnlyCode
  <2>12. fr.kind = "loop"
    OBVIOUS
  <2> HIDE DEF jump, fr
  <2>13. /\ mir.env \in Seq(Env!Scope) /\ Scoped(frames, visible)
         /\ frames \in Seq(Frame) /\ visible \in Seq(SUBSET Name)
         /\ Layered(mir.env, globals, frames, visible)
    BY <1>1, Working DEF Aligned
  <2>14. \A i \in 1..Len(visible) : init \notin visible[i]
    BY <2>3, <2>13, FreshIsNew
  <2>15. \A i \in 1..Len(visible) - 1 : vis[i] = visible[i]
    BY <2>13, BoundTop
  <2>16. vis \in Seq(SUBSET Name) /\ Len(vis) = Len(visible)
    <3> DEFINE s == visible[Len(visible)] \cup {init}
               T == SUBSET Name
    <3>1. Len(visible) \in 1..Len(visible)
      BY <2>13 DEF Scoped
    <3>2. s \in T /\ vis = [visible EXCEPT ![Len(visible)] = s]
      BY <2>3, <2>13, <3>1
    <3> HIDE DEF s
    <3>3. visible \in Seq(T)
      BY <2>13
    <3> HIDE DEF T, vis
    <3>4. vis \in Seq(T) /\ Len(vis) = Len(visible)
      BY <3>1, <3>2, <3>3, ExceptSeq
    <3> QED
      BY <3>4 DEF T
  <2> HIDE DEF vis
  <2>17. Layered(bound.env, globals, frames, vis)
    BY <2>5, <2>13, <2>14, <2>15, LayeredBound
  <2>18. Scoped(frames, vis)
    <3>1. \A i \in 1..Len(vis) : vis[i] \subseteq Name
      BY <2>16
    <3> QED
      BY <2>13, <2>16, <3>1 DEF Scoped
  <2>19. ASSUME Knows(expr, post)
         PROVE  update.env \in Seq(Env!Scope) /\ Layered(update.env, globals, frames, vis)
    <3>1. /\ update.env \in Seq(Env!Scope) /\ bound.env \in Seq(Env!Scope)
          /\ SameNames(bound.env, update.env)
      BY <2>5, <2>10, <2>19 DEF Renames, Factory
    <3> QED
      BY <2>17, <2>18, <3>1, LayeredKept
  <2>20. CASE Throw("no_value") \/ Throw("not_defined")
    BY <2>20, ThrowAligned
  <2>21. CASE /\ Knows(expr, post)
              /\ mir' = PushEnv(AddBlock(jump)) /\ frames' = Append(frames, fr)
              /\ visible' = Append(vis, {}) /\ UNCHANGED <<globals, status>>
    <3>1. Scoped(frames', visible')
      BY <1>1, <2>21, NextScoped
    <3>2. /\ Len(frames') = Len(frames) + 1 /\ frames'[Len(frames) + 1] = fr
          /\ \A j \in 1..Len(frames) : frames'[j] = frames[j]
      <4> DEFINE T == Frame
      <4>1. frames \in Seq(T)
        BY <2>13
      <4> HIDE DEF T
      <4> QED
        BY <2>21, <4>1
    <3>3. \A i \in 1..Len(frames) + 1 : visible'[i] = vis[i]
      <4>1. \A i \in 1..Len(frames) + 1 : i \in 1..Len(vis)
        BY <2>18 DEF Scoped
      <4> QED
        BY <2>16, <2>21, <4>1
    <3>4. frames'[Len(frames) + 1].kind # "loop" => SetAside(frames'[Len(frames) + 1]) = update.env
      BY <2>12, <3>2
    <3>5. Layered(Env!PushEnv(update.env), globals, frames', visible')
      <4>1. update.env \in Seq(Env!Scope) /\ Layered(update.env, globals, frames, vis)
        BY <2>19, <2>21
      <4> QED
        BY <2>18, <3>1, <3>2, <3>3, <3>4, <4>1, LayeredPushed
    <3>6. mir'.env = Env!PushEnv(update.env)
      <4>1. PushEnv(AddBlock(jump)).env = Env!PushEnv(update.env)
        BY <2>11, <2>21, OnlyCode
      <4> QED
        BY <2>21, <4>1
    <3> QED
      BY <2>21, <3>5, <3>6 DEF Aligned
  <2> QED
    BY <2>1, <2>20, <2>21 DEF WithValue
<1> QED
  BY <1>2, <1>3, <1>4

\* The suspended visits stay, unless the translation goes on.
LEMMA StepFrames ==
  ASSUME Next
  PROVE  \/ frames' = frames
         \/ /\ status = "function" /\ status' = "function"
            /\ \/ \E fr : frames' = Append(frames, fr)
               \/ frames # <<>> /\ Top.kind # "else"
               \/ \E reached : LeaveElse(reached)
<1> DEFINE Done == \/ frames' = frames
                   \/ /\ status = "function" /\ status' = "function"
                      /\ \/ \E fr : frames' = Append(frames, fr)
                         \/ frames # <<>> /\ Top.kind # "else"
                         \/ \E reached : LeaveElse(reached)
<1>1. Step
  BY DEF Next
<1>2. \A s : Throw(s) => Done
  BY DEF Throw
<1>3. \A m : Emits(m) => Done
  BY DEF Emits
<1>4. \A m, n, v : Updates(m, n, v) => Done
  BY <1>2, <1>3 DEF Updates
<1>5. \A n : DeclareGlobal(n) => Done
  BY DEF DeclareGlobal
<1>6. \A p : EnterFunction(p) => Done
  BY DEF EnterFunction
<1>7. LeaveFunction => Done
  BY DEF LeaveFunction
<1>8. Finish => Done
  BY <1>2 DEF Finish
<1>9. ASSUME NEW n, NEW e, VisitBinding(n, e)
      PROVE  Done
  BY <1>2, <1>9 DEF VisitBinding, WithValue
<1>10. ASSUME NEW n, NEW e, NEW op
       PROVE  /\ VisitAssign(n, e) => Done
              /\ VisitCompound(n, e, op) => Done
              /\ VisitIncrement(n, op) => Done
              /\ VisitCall(e) => Done
              /\ VisitReturn(e) => Done
              /\ VisitJump(op) => Done
              /\ VisitDefer => Done
  <2> HIDE DEF Done
  <2>1. VisitAssign(n, e) => Done
    BY <1>2, <1>4 DEF VisitAssign, WithValue
  <2>2. VisitCompound(n, e, op) => Done
    BY <1>2, <1>3, <1>4 DEF VisitCompound, WithValue
  <2>3. VisitIncrement(n, op) => Done
    BY <1>3 DEF VisitIncrement
  <2>4. VisitCall(e) => Done
    BY <1>3 DEF VisitCall
  <2>5. VisitReturn(e) => Done
    BY <1>2, <1>3 DEF VisitReturn, WithValue
  <2>6. VisitJump(op) => Done
    BY <1>3 DEF VisitJump
  <2>7. VisitDefer => Done
    BY <1>3 DEF VisitDefer
  <2> QED
    BY <2>1, <2>2, <2>3, <2>4, <2>5, <2>6, <2>7
<1>11. ASSUME NEW e, NEW alt, EnterIf(e, alt)
       PROVE  Done
  BY <1>2, <1>11 DEF EnterIf, Stmt, Push, WithValue
<1>12. ASSUME NEW init, NEW c, NEW post, EnterLoop(init, c, post)
       PROVE  Done
  BY <1>2, <1>12 DEF EnterLoop, Stmt, WithValue
<1>13. LeaveThen => Done
  BY DEF LeaveThen, Leaves
<1>14. LeaveLoop => Done
  BY DEF LeaveLoop, Leaves
<1>15. ASSUME NEW reached, LeaveElse(reached)
       PROVE  Done
  BY <1>15 DEF LeaveElse, Leaves
<1> HIDE DEF Done
<1>16. Done
  BY <1>1, <1>5, <1>6, <1>7, <1>8, <1>9, <1>10, <1>11, <1>12, <1>13, <1>14, <1>15 DEF Step
<1> QED
  BY <1>16 DEF Done

\* The suspended visits are a list, and in a function the environments that they have
\* set aside have parted from those inside of them.
BranchInv == Len(frames) \in Nat /\ Aligned

LEMMA AlignedStep ==
  ASSUME MirAssumption, MirInv, Aligned, MirInv', Next
  PROVE  Aligned'
<1>1. Step
  BY DEF Next
<1>2. \A n : DeclareGlobal(n) => Aligned'
  BY DEF DeclareGlobal, Aligned
<1>3. ASSUME NEW p, EnterFunction(p)
      PROVE  Aligned'
  <2>1. frames' = <<>>
    BY <1>3 DEF EnterFunction, MirInv
  <2>2. \A j : j \notin 1..Len(<<>>)
    OBVIOUS
  <2>3. \A e, gs, vis : Layered(e, gs, <<>>, vis)
    BY <2>2 DEF Layered, Apart
  <2> QED
    BY <2>1, <2>3 DEF Aligned
<1>4. LeaveFunction => Aligned'
  BY DEF LeaveFunction, Aligned
<1>5. Finish => Aligned'
  BY ThrowAligned DEF Finish
<1>6. ASSUME NEW n \in Name, NEW op \in {"sum", "difference"} \cap Features, VisitIncrement(n, op)
      PROVE  Aligned'
  BY <1>6, PlainAligned
<1>7. \A e \in Exprs : VisitCall(e) => Aligned'
  BY PlainAligned
<1>8. ASSUME NEW n \in Name, NEW e \in Exprs
      PROVE  /\ VisitBinding(n, e) => Aligned'
             /\ VisitAssign(n, e) => Aligned'
             /\ \A op \in CompoundOps : VisitCompound(n, e, op) => Aligned'
  BY BindingAligned, AssignAligned, CompoundAligned
<1>9. \A e \in Exprs, alt \in BOOLEAN : EnterIf(e, alt) => Aligned'
  BY EnterIfAligned
<1>10. \A e \in Exprs \cup {None} : VisitReturn(e) => Aligned'
  BY PlainAligned
<1>11. \A init, c, post : EnterLoop(init, c, post) => Aligned'
  BY EnterLoopAligned
<1>12. \A op \in {"CONTINUE", "BREAK"} : VisitJump(op) => Aligned'
  BY PlainAligned
<1>13. VisitDefer => Aligned'
  BY PlainAligned
<1>14. LeaveThen => Aligned'
  BY LeaveThenMergesAligned, LeaveThenGoesOnAligned
<1>15. LeaveLoop => Aligned'
  BY LeaveLoopAligned
<1>16. \A reached : LeaveElse(reached) => Aligned'
  BY LeaveElseAligned
<1> HIDE DEF Aligned
<1> QED
  BY <1>1, <1>2, <1>3, <1>4, <1>5, <1>6, <1>7, <1>8, <1>9, <1>10, <1>11, <1>12, <1>13,
     <1>14, <1>15, <1>16 DEF Step

LEMMA BranchStart ==
  ASSUME Init
  PROVE  BranchInv
BY DEF Init, BranchInv, Aligned

LEMMA BranchStep ==
  ASSUME MirAssumption, MirInv, BranchInv, MirInv', [Next]_vars
  PROVE  BranchInv'
<1>1. CASE Next
  <2>1. Len(frames') \in Nat
    <3>1. status' = "function" => Len(frames') \in Nat
      BY NextScoped DEF Scoped
    <3> QED
      BY <1>1, <3>1, StepFrames DEF BranchInv
  <2>2. Aligned'
    BY <1>1, AlignedStep DEF BranchInv
  <2> QED
    BY <2>1, <2>2 DEF BranchInv
<1>2. CASE UNCHANGED vars
  <2>1. mir' = mir /\ globals' = globals /\ frames' = frames /\ visible' = visible /\ status' = status
    BY <1>2 DEF vars, mirVars
  <2> QED
    BY <2>1 DEF BranchInv, Aligned
<1> QED
  BY <1>1, <1>2

\* A branch closes no scope that it has not opened and binds no name that is visible
\* around it: where an if has set its environment aside, the branches have the same
\* names.
THEOREM BranchesAlign == Spec => []BranchInv
<1>1. Init => BranchInv
  BY BranchStart
<1>2. MirInv /\ MirInv' /\ BranchInv /\ [Next]_vars => BranchInv'
  BY MirAssumption, BranchStep
<1> QED
  BY <1>1, <1>2, Invariance, PTL DEF Spec

\* A name has the variable of its innermost entry.
LEMMA FoundIn ==
  ASSUME NEW e \in Seq(Env!Scope), NEW n \in Name, NEW d \in 1..Len(e), Held(e, d, n),
         \A i \in 1..Len(e) : Held(e, i, n) => i <= d
  PROVE  VarOf(e, n) = e[d][n].var
<1> DEFINE k == Env!FindScope(e, n)
<1>1. Env!Contains(e, n)
  BY DEF Env!Contains, Env!Holders, Held
<1>2. k \in 1..Len(e) /\ Held(e, k, n) /\ (\A i \in 1..Len(e) : Held(e, i, n) => i <= k)
      /\ Env!Find(e, n) = e[k][n]
  BY <1>1, FindInnermost
<1> HIDE DEF k
<1>3. k <= d /\ d <= k /\ k \in Nat /\ d \in Nat
  BY <1>2
<1>4. k = d
  BY <1>3
<1> QED
  BY <1>2, <1>4 DEF VarOf

\* n has its innermost entry in the same scope d of both branches, and that scope has
\* the same names in both.
Meets(e1, e2, d, n) ==
  /\ d \in 1..Len(e1) /\ d \in 1..Len(e2) /\ Held(e1, d, n) /\ Held(e2, d, n)
  /\ \A i \in 1..Len(e1) : Held(e1, i, n) => i <= d
  /\ \A i \in 1..Len(e2) : Held(e2, i, n) => i <= d
  /\ \A p \in Name : Held(e1, d, p) <=> Held(e2, d, p)

LEMMA PartedMeet ==
  ASSUME NEW e1 \in Seq(Env!Scope), NEW e2 \in Seq(Env!Scope), NEW N, NEW s \in Nat,
         Parted(e1, e2, N, s), NEW n \in Name, n \in N, NEW c \in 1..Len(e1), Held(e1, c, n)
  PROVE  \E d : Meets(e1, e2, d, n)
<1> DEFINE d == Env!FindScope(e1, n)
<1>1. PICK l \in 0..Len(e1) :
        l + s <= Len(e2) /\ Alike(e1, e2, l) /\ Clear(e1, l, N) /\ Clear(e2, l, N)
  BY DEF Parted
<1>2. Len(e1) \in Nat /\ Len(e2) \in Nat /\ l \in Nat /\ l <= Len(e1) /\ l <= Len(e2)
  BY <1>1
<1>3. Env!Contains(e1, n)
  BY DEF Env!Contains, Env!Holders, Held
<1>4. d \in 1..Len(e1) /\ Held(e1, d, n) /\ \A i \in 1..Len(e1) : Held(e1, i, n) => i <= d
  BY <1>3, FindInnermost
<1> HIDE DEF d
<1>5. ASSUME NEW i \in 1..Len(e1), Held(e1, i, n)
      PROVE  i \in 1..l
  <2>1. i \in l + 1..Len(e1) => ~Held(e1, i, n)
    BY <1>1 DEF Clear
  <2> QED
    BY <1>2, <1>5, <2>1
<1>6. ASSUME NEW i \in 1..Len(e2), Held(e2, i, n)
      PROVE  i \in 1..l
  <2>1. i \in l + 1..Len(e2) => ~Held(e2, i, n)
    BY <1>1 DEF Clear
  <2> QED
    BY <1>2, <1>6, <2>1
<1>7. d \in 1..l
  BY <1>4, <1>5
<1>8. d \in 1..Len(e2)
  BY <1>2, <1>7
<1>9. ASSUME NEW i \in 1..Len(e2), Held(e2, i, n)
      PROVE  i <= d
  <2>1. i \in 1..l
    BY <1>6, <1>9
  <2>2. i \in 1..Len(e1)
    BY <1>2, <2>1
  <2>3. Held(e1, i, n)
    BY <1>1, <1>9, <2>1 DEF Alike
  <2> QED
    BY <1>4, <2>2, <2>3
<1>10. \A p \in Name : Held(e1, d, p) <=> Held(e2, d, p)
  BY <1>1, <1>7 DEF Alike
<1> QED
  BY <1>4, <1>8, <1>9, <1>10 DEF Meets

\* What merge_envs makes of such a name.
NameMerged(f, e1, e2, n) ==
  \/ VarOf(e1, n) = VarOf(e2, n) /\ VarOf(f.env, n) = VarOf(e1, n)
  \/ \E i \in DOMAIN Last(f.blocks) :
       /\ Last(f.blocks)[i].op = "PHI"
       /\ Last(f.blocks)[i].res = VarOf(f.env, n)
       /\ {Last(f.blocks)[i].args[k].id : k \in 1..2} = {VarOf(e1, n), VarOf(e2, n)}

LEMMA MetIsMerged ==
  ASSUME NEW e1 \in Seq(Env!Scope), NEW e2 \in Seq(Env!Scope), NEW reached,
         NEW f, Unites(f, e1, e2, reached), NEW n \in Name, NEW d, Meets(e1, e2, d, n)
  PROVE  NameMerged(f, e1, e2, n)
<1>1. /\ f \in Factory /\ 1 <= Len(f.blocks) /\ SameNames(e1, f.env) /\ f.env \in Seq(Env!Scope)
      /\ d \in 1..Len(e1) /\ d \in 1..Len(e2)
  BY DEF Unites, Factory, Meets
<1>2. VarOf(e1, n) = e1[d][n].var
  BY FoundIn DEF Meets
<1>3. VarOf(e2, n) = e2[d][n].var
  BY FoundIn DEF Meets
<1>4. VarOf(f.env, n) = f.env[d][n].var
  <2>1. Len(f.env) = Len(e1)
    BY <1>1 DEF SameNames
  <2>2. d \in 1..Len(f.env) /\ Held(f.env, d, n)
        /\ \A i \in 1..Len(f.env) : Held(f.env, i, n) => i <= d
    BY <1>1, <2>1 DEF SameNames, Meets
  <2> QED
    BY <1>1, <2>2, FoundIn
<1>5. <<d, n>> \in Differing(e1, e2, reached) <=> e1[d][n].var # e2[d][n].var
  <2>1. d \in Common(e1, e2)
    <3>1. Len(e1) \in Nat /\ Len(e2) \in Nat
      OBVIOUS
    <3> QED
      BY <1>1, <3>1 DEF Common
  <2>2. n \in Visited(e1, e2, d, reached)
    <3>1. Entries(e1[d]) \subseteq Entries(e2[d]) /\ n \in Entries(e1[d]) /\ n \in Entries(e2[d])
      BY DEF Meets, Entries, Held
    <3> QED
      BY <3>1 DEF Visited
  <2> QED
    BY <2>1, <2>2 DEF Differing
<1>6. CASE e1[d][n].var = e2[d][n].var
  <2>1. f.env[d][n] = e1[d][n]
    BY <1>1, <1>5, <1>6 DEF Unites
  <2> QED
    BY <1>2, <1>3, <1>4, <1>6, <2>1 DEF NameMerged
<1>7. CASE e1[d][n].var # e2[d][n].var
  <2>1. PhiFor(f, e1, e2, d, n)
    BY <1>1, <1>5, <1>7 DEF Unites
  <2>2. PICK s \in Slots(f) :
          /\ s[1] = Len(f.blocks)
          /\ Slot(f, s).op = "PHI" /\ Slot(f, s).res = f.env[d][n].var
          /\ Slot(f, s).args = <<Phi(e1[d][n]), Phi(e2[d][n])>>
    BY <2>1 DEF PhiFor
  <2> DEFINE row == Last(f.blocks)
             i == s[2]
  <2>3. row = f.blocks[s[1]] /\ row[i] = Slot(f, s)
    BY <2>2 DEF Last, Slot
  <2>4. i \in DOMAIN row
    <3>1. s[2] \in 1..Len(f.blocks[s[1]]) /\ f.blocks[s[1]] \in Seq(Instruction)
      BY <1>1, SlotShape
    <3> QED
      BY <2>3, <3>1
  <2> HIDE DEF row, i
  <2>5. row[i].args[1].id = e1[d][n].var /\ row[i].args[2].id = e2[d][n].var
    <3> DEFINE a == Phi(e1[d][n])
               b == Phi(e2[d][n])
    <3>1. a.id = e1[d][n].var /\ b.id = e2[d][n].var
      BY DEF Phi
    <3>2. row[i].args = <<a, b>>
      BY <2>2, <2>3
    <3> HIDE DEF a, b
    <3> QED
      BY <3>1, <3>2
  <2>6. {row[i].args[k].id : k \in 1..2} = {VarOf(e1, n), VarOf(e2, n)}
    <3> DEFINE id(k) == row[i].args[k].id
    <3>1. id(1) = VarOf(e1, n) /\ id(2) = VarOf(e2, n)
      BY <1>2, <1>3, <2>5
    <3> HIDE DEF id
    <3>2. \A k \in 1..2 : k = 1 \/ k = 2
      OBVIOUS
    <3>3. 1 \in 1..2 /\ 2 \in 1..2
      OBVIOUS
    <3>4. {id(k) : k \in 1..2} = {id(1), id(2)}
      BY <3>2, <3>3
    <3> QED
      BY <3>1, <3>4 DEF id
  <2>7. row[i].op = "PHI" /\ row[i].res = VarOf(f.env, n)
    BY <1>4, <2>2, <2>3
  <2> QED
    BY <2>4, <2>6, <2>7 DEF row, NameMerged
<1> QED
  BY <1>6, <1>7

\* A local that is visible around the innermost visit has an entry in the environment
\* that was set aside.
LEMMA AroundHeld ==
  ASSUME MirInv, status = "function", frames # <<>>, Top.kind = "else",
         NEW n \in (UNION Range(Front(visible))) \ globals
  PROVE  /\ n \in Name /\ n \in Around(visible, globals, Len(frames))
         /\ \E c \in 1..Len(Top.env) : Held(Top.env, c, n)
<1> DEFINE k == Len(frames)
           front == Front(visible)
<1>1. PICK base \in Nat : Building(mir, base, globals, Loose, frames, visible)
  BY DEF MirInv
<1>2. /\ Suspended(mir, Top, base, globals, Loose, visible, Len(visible) - 1)
      /\ Len(visible) - 1 = k + 1
  BY <1>1, TopSuspended
<1>3. Bound(Top.env, base, globals, visible, k + 1)
  BY <1>2 DEF Suspended, Saved
<1>4. front \in Seq(SUBSET Name) /\ Len(front) = k + 1
      /\ (\A i \in 1..k + 1 : front[i] = visible[i])
      /\ Scoped(frames, visible) /\ k \in Nat
  BY TopFrame, Working DEF Scoped
<1>5. visible[1] = globals
  BY <1>1 DEF Building
<1>6. PICK i \in 1..k + 1 : n \in visible[i]
  <2>1. DOMAIN front = 1..k + 1
    <3> DEFINE U == SUBSET Name
    <3>1. front \in Seq(U) /\ Len(front) = k + 1
      BY <1>4
    <3> HIDE DEF U, front
    <3> QED
      BY <3>1
  <2> HIDE DEF front
  <2>2. PICK i \in DOMAIN front : n \in front[i]
    BY DEF Range, front
  <2> QED
    BY <1>4, <2>1, <2>2
<1>7. n \in Name
  BY <1>2, <1>4, <1>6 DEF Scoped
<1>8. n \in Around(visible, globals, k)
  BY <1>6 DEF Around
<1>9. i \in 2..k + 1
  <2>1. i # 1
    BY <1>5, <1>6
  <2> HIDE DEF k
  <2> QED
    BY <1>4, <1>6, <2>1
<1>10. \E c \in 1..Len(Top.env) : Held(Top.env, c, n)
  <2>1. n \in visible[i] \ globals
    BY <1>6
  <2> QED
    BY <1>3, <1>9, <2>1 DEF Bound
<1> QED
  BY <1>7, <1>8, <1>10

LEMMA ElseMerged ==
  ASSUME MirAssumption, MirInv, Aligned, NEW reached, LeaveElse(reached)
  PROVE  Merged(Top.env, mir.env)
<1> DEFINE k == Len(frames)
           e1 == Top.env
           e2 == mir.env
           N == Around(visible, globals, k)
<1>1. /\ status = "function" /\ frames # <<>> /\ Top.kind = "else"
      /\ e1 \in Seq(Env!Scope)
      /\ Unites(mir', e1, e2, reached)
  BY ElseUnites
<1>2. e2 \in Seq(Env!Scope) /\ Layered(e2, globals, frames, visible) /\ k \in Nat
  BY <1>1, Working DEF Aligned, Scoped
<1>3. Top = frames[k] /\ k \in 1..k /\ SetAside(Top) = e1 /\ (k - k) + 1 = 1
  <2>1. SetAside(Top) = e1
    BY <1>1 DEF SetAside
  <2>2. Top = frames[k] /\ k \in 1..k
    BY <1>1, TopFrame
  <2> QED
    BY <1>2, <2>1, <2>2
<1>4. Parted(e1, e2, N, 1)
  <2>1. frames[k].kind # "loop"
    BY <1>1, <1>3
  <2>2. Parted(SetAside(frames[k]), e2, N, (k - k) + 1)
    BY <1>2, <1>3, <2>1 DEF Layered, Apart
  <2> QED
    BY <1>3, <2>2
<1>5. ASSUME NEW n \in (UNION Range(Front(visible))) \ globals
      PROVE  n \in Name /\ \E d : Meets(e1, e2, d, n)
  <2>1. n \in Name /\ n \in N
    BY <1>1, AroundHeld
  <2>2. PICK c \in 1..Len(e1) : Held(e1, c, n)
    BY <1>1, AroundHeld
  <2> HIDE DEF e1, e2, N
  <2>3. \E d : Meets(e1, e2, d, n)
    BY <1>1, <1>2, <1>4, <2>1, <2>2, PartedMeet
  <2> QED
    BY <2>1, <2>3
<1> HIDE DEF e1, e2
<1>6. Merged(e1, e2)
  <2>1. ASSUME NEW n \in (UNION Range(Front(visible))) \ globals
        PROVE  NameMerged(mir', e1, e2, n)
    <3>1. PICK d : Meets(e1, e2, d, n)
      BY <1>5, <2>1
    <3>2. n \in Name
      BY <1>5, <2>1
    <3>3. Unites(mir', e1, e2, reached)
      BY <1>1
    <3> QED
      BY <1>1, <1>2, <3>1, <3>2, <3>3, MetIsMerged
  <2> QED
    BY <2>1 DEF Merged, NameMerged
<1> QED
  BY <1>6 DEF e1, e2

\* The visits get fewer when one of them ends.
LEMMA ElseEnds ==
  ASSUME MirInv, BranchInv, [Next]_vars, EndsElse
  PROVE  \E reached : LeaveElse(reached)
<1> DEFINE n == Len(frames)
<1>1. n \in Nat /\ frames # <<>> /\ Len(frames') < n /\ Top.kind = "else"
  BY DEF BranchInv, EndsElse
<1>2. frames' # frames
  <2>1. ~(n < n)
    BY <1>1
  <2> QED
    BY <1>1, <2>1
<1>3. Next
  BY <1>2 DEF vars, mirVars
<1>4. ASSUME status = "function", NEW fr, frames' = Append(frames, fr)
      PROVE  FALSE
  <2> DEFINE T == Frame
  <2>1. frames \in Seq(T)
    BY <1>4, Working
  <2> HIDE DEF T
  <2>2. Len(frames') = n + 1
    BY <1>4, <2>1
  <2> QED
    BY <1>1, <2>2
<1> QED
  BY <1>1, <1>2, <1>3, <1>4, StepFrames

\* After an if with an else branch, a name has a variable that both branches agree on,
\* or the result of a phi that merge_envs made for it: an assignment in either branch is
\* seen behind the if, however the statements in the branches are nested.
THEOREM BranchesMeet == Spec => IfElseMerges
<1>1. MirInv /\ BranchInv /\ [Next]_vars => [EndsElse => Merged(Top.env, mir.env)]_vars
  <2> SUFFICES ASSUME MirInv, BranchInv, [Next]_vars, EndsElse
               PROVE  Merged(Top.env, mir.env)
    OBVIOUS
  <2>1. PICK reached : LeaveElse(reached)
    BY ElseEnds
  <2> QED
    BY <2>1, MirAssumption, ElseMerged DEF BranchInv
<1> QED
  BY <1>1, Invariance, BranchesAlign, PTL DEF Spec, IfElseMerges
=============================================================================
