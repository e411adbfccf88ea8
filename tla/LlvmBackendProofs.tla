------------------------- MODULE LlvmBackendProofs -------------------------
(***************************************************************************)
(* Proofs about LlvmBackend, for modules of any size: the functions of a    *)
(* module do not use one another's values, and straight code is compiled.   *)
(***************************************************************************)
EXTENDS LlvmBackend, MirBuilderProofs

-----------------------------------------------------------------------------
(* Sequences of anything, and the record of the backend.                    *)

IsSeq(s) == Len(s) \in Nat /\ s = [i \in 1..Len(s) |-> s[i]]

LEMMA AppendShape ==
  ASSUME NEW s, IsSeq(s), NEW x
  PROVE  /\ IsSeq(Append(s, x)) /\ Len(Append(s, x)) = Len(s) + 1
         /\ \A i \in 1..Len(s) + 1 : Append(s, x)[i] = IF i = Len(s) + 1 THEN x ELSE s[i]
<1> DEFINE S == {s[i] : i \in 1..Len(s)} \cup {x}
<1>1. s \in Seq(S)
  BY DEF IsSeq
<1> HIDE DEF S
<1>2. x \in S
  BY DEF S
<1>3. Append(s, x) \in Seq(S) /\ Len(Append(s, x)) = Len(s) + 1
  BY <1>1, <1>2
<1>4. \A i \in 1..Len(s) + 1 : Append(s, x)[i] = IF i = Len(s) + 1 THEN x ELSE s[i]
  BY <1>1, <1>2
<1>5. \A t \in Seq(S) : IsSeq(t)
  BY DEF IsSeq
<1> QED
  BY <1>3, <1>4, <1>5

\* u has the elements of s and those of t.
Joined(u, s, t) ==
  /\ IsSeq(u) /\ Len(u) = Len(s) + Len(t)
  /\ \A i \in 1..Len(s) : u[i] = s[i]
  /\ \A i \in 1..Len(t) : u[Len(s) + i] = t[i]

LEMMA ConcatShape ==
  ASSUME NEW s, IsSeq(s), NEW t, IsSeq(t)
  PROVE  Joined(s \o t, s, t)
<1> DEFINE S == {s[i] : i \in 1..Len(s)} \cup {t[i] : i \in 1..Len(t)}
<1>1. s \in Seq(S) /\ t \in Seq(S)
  BY DEF IsSeq
<1> HIDE DEF S
<1>2. s \o t \in Seq(S) /\ Len(s \o t) = Len(s) + Len(t)
  BY <1>1
<1>3. \A i \in 1..Len(s) : (s \o t)[i] = s[i]
  BY <1>1
<1>4. \A i \in 1..Len(t) : (s \o t)[Len(s) + i] = t[i]
  BY <1>1
<1>5. \A u \in Seq(S) : IsSeq(u)
  BY DEF IsSeq
<1> QED
  BY <1>2, <1>3, <1>4, <1>5 DEF Joined

LEMMA ReplacedShape ==
  ASSUME NEW s, IsSeq(s), NEW i \in 1..Len(s), NEW x
  PROVE  LET t == [s EXCEPT ![i] = x]
         IN  /\ IsSeq(t) /\ Len(t) = Len(s)
             /\ \A k \in 1..Len(s) : t[k] = IF k = i THEN x ELSE s[k]
<1> DEFINE S == {s[k] : k \in 1..Len(s)} \cup {x}
           t == [s EXCEPT ![i] = x]
<1>1. s \in Seq(S) /\ x \in S
  BY DEF IsSeq
<1> HIDE DEF S
<1>2. t \in Seq(S) /\ Len(t) = Len(s) /\ \A k \in 1..Len(s) : t[k] = IF k = i THEN x ELSE s[k]
  BY <1>1
<1>3. \A u \in Seq(S) : IsSeq(u)
  BY DEF IsSeq
<1> QED
  BY <1>2, <1>3

IsBackend(be) ==
  be = [fns |-> be.fns, names |-> be.names, locals |-> be.locals, bblocks |-> be.bblocks,
        entry |-> be.entry, at |-> be.at, error |-> be.error]

Errors == {"out_of_range", "unsupported", "crash", "bad_variant"}

Known(be) == be.error \in Errors \cup {""}

\* A backend whose functions are sequences of instructions in blocks.
Shape(be) ==
  /\ IsBackend(be) /\ Known(be)
  /\ IsSeq(be.fns)
  /\ \A m \in 1..Len(be.fns) : \A b \in DOMAIN be.fns[m] : IsSeq(be.fns[m][b])

Placed(be, at) ==
  \E b \in DOMAIN be.fns[Len(be.fns)] : at = <<Len(be.fns), b>> /\ Len(be.fns) \in 1..Len(be.fns)

\* What adding instructions to the last function leaves as it is.
SameTables(be, f) ==
  f.names = be.names /\ f.bblocks = be.bblocks /\ f.entry = be.entry /\ f.at = be.at

Grew(be, f) ==
  /\ Shape(f) /\ SameTables(be, f)
  /\ Len(f.fns) = Len(be.fns)
  /\ \A m \in 1..Len(be.fns) : DOMAIN f.fns[m] = DOMAIN be.fns[m]
  /\ \A m \in 1..Len(be.fns) : m # Len(be.fns) => f.fns[m] = be.fns[m]
  /\ \A m \in 1..Len(be.fns) : \A b \in DOMAIN be.fns[m] :
       /\ Len(be.fns[m][b]) <= Len(f.fns[m][b])
       /\ \A k \in 1..Len(be.fns[m][b]) : f.fns[m][b][k] = be.fns[m][b][k]

LEMMA GrewItself ==
  ASSUME NEW be, Shape(be)
  PROVE  Grew(be, be)
<1>1. \A m \in 1..Len(be.fns) : \A b \in DOMAIN be.fns[m] : Len(be.fns[m][b]) \in Nat
  BY DEF Shape, IsSeq
<1> QED
  BY <1>1 DEF Grew, SameTables

LEMMA GrewChained ==
  ASSUME NEW be, NEW f, NEW g, Shape(be), Grew(be, f), Grew(f, g)
  PROVE  Grew(be, g)
<1>1. \A m \in 1..Len(be.fns) : \A b \in DOMAIN be.fns[m] :
        /\ Len(be.fns[m][b]) \in Nat /\ Len(f.fns[m][b]) \in Nat /\ Len(g.fns[m][b]) \in Nat
        /\ Len(be.fns[m][b]) <= Len(f.fns[m][b]) /\ Len(f.fns[m][b]) <= Len(g.fns[m][b])
  BY DEF Shape, IsSeq, Grew
<1>2. ASSUME NEW m \in 1..Len(be.fns), NEW b \in DOMAIN be.fns[m]
      PROVE  /\ Len(be.fns[m][b]) <= Len(g.fns[m][b])
             /\ \A k \in 1..Len(be.fns[m][b]) : g.fns[m][b][k] = be.fns[m][b][k]
  <2>1. m \in 1..Len(f.fns) /\ b \in DOMAIN f.fns[m]
    BY DEF Grew
  <2>2. \A k \in 1..Len(be.fns[m][b]) : k \in 1..Len(f.fns[m][b])
    BY <1>1
  <2> QED
    BY <1>1, <2>1, <2>2 DEF Grew
<1>3. Shape(g) /\ SameTables(be, g) /\ Len(g.fns) = Len(be.fns)
  BY DEF Grew, SameTables
<1>4. \A m \in 1..Len(be.fns) :
        DOMAIN g.fns[m] = DOMAIN be.fns[m] /\ (m # Len(be.fns) => g.fns[m] = be.fns[m])
  BY DEF Grew
<1> QED
  BY <1>2, <1>3, <1>4 DEF Grew

LEMMA PlacedKept ==
  ASSUME NEW be, NEW f, NEW at, Placed(be, at), Grew(be, f)
  PROVE  Placed(f, at)
BY DEF Placed, Grew

-----------------------------------------------------------------------------
(* An instruction is added; the table of the locals changes; there is an error. *)

LEMMA Placing ==
  ASSUME NEW be, Shape(be), NEW at, Placed(be, at), NEW op, NEW args
  PROVE  LET f == PutAt(be, at, op, args)
             l == Len(BlockOf(be, at))
         IN  /\ Grew(be, f) /\ f.locals = be.locals /\ f.error = be.error
             /\ l \in Nat /\ Newest(f, at) = InsAt(at, l + 1)
             /\ Len(BlockOf(f, at)) = l + 1
             /\ BlockOf(f, at)[l + 1] = [op |-> op, args |-> args]
             /\ \A b \in DOMAIN be.fns[Len(be.fns)] :
                  b # at[2] => f.fns[Len(be.fns)][b] = be.fns[Len(be.fns)][b]
<1> DEFINE f == PutAt(be, at, op, args)
           i == [op |-> op, args |-> args]
           n == Len(be.fns)
<1>1. PICK c \in DOMAIN be.fns[n] : at = <<n, c>> /\ n \in 1..Len(be.fns)
  BY DEF Placed
<1> DEFINE new == Append(be.fns[n][c], i)
           fns == [be.fns EXCEPT ![n] = [@ EXCEPT ![c] = new]]
<1>2. IsSeq(be.fns) /\ IsSeq(be.fns[n][c]) /\ IsBackend(be) /\ Len(be.fns[n][c]) \in Nat
  BY <1>1 DEF Shape, IsSeq
<1>3. f = [be EXCEPT !.fns = fns]
  BY <1>1 DEF PutAt
<1>4. /\ IsSeq(new) /\ Len(new) = Len(be.fns[n][c]) + 1
      /\ \A k \in 1..Len(be.fns[n][c]) + 1 :
           new[k] = IF k = Len(be.fns[n][c]) + 1 THEN i ELSE be.fns[n][c][k]
  BY <1>2, AppendShape
<1> HIDE DEF new, i, n
<1>5. /\ IsSeq(fns) /\ Len(fns) = Len(be.fns)
      /\ \A m \in 1..Len(be.fns) : m # n => fns[m] = be.fns[m]
      /\ DOMAIN fns[n] = DOMAIN be.fns[n]
      /\ fns[n][c] = new
      /\ \A b \in DOMAIN be.fns[n] : b # c => fns[n][b] = be.fns[n][b]
  <2> DEFINE S == {be.fns[k] : k \in 1..Len(be.fns)} \cup {[be.fns[n] EXCEPT ![c] = new]}
  <2>1. be.fns \in Seq(S)
    BY <1>2 DEF IsSeq
  <2>2. [be.fns[n] EXCEPT ![c] = new] \in S
    OBVIOUS
  <2> HIDE DEF S
  <2>3. fns \in Seq(S) /\ Len(fns) = Len(be.fns)
    BY <1>1, <2>1, <2>2
  <2>4. fns[n] = [be.fns[n] EXCEPT ![c] = new] /\ \A m \in 1..Len(be.fns) : m # n => fns[m] = be.fns[m]
    BY <1>1, <2>1
  <2>5. IsSeq(fns)
    BY <2>3 DEF IsSeq
  <2> HIDE DEF fns
  <2> QED
    BY <1>1, <2>3, <2>4, <2>5
<1> HIDE DEF fns
<1>6. /\ IsBackend(f) /\ f.fns = fns /\ SameTables(be, f)
      /\ f.locals = be.locals /\ f.error = be.error
  <2> HIDE DEF f
  <2> QED
    BY <1>2, <1>3 DEF IsBackend, SameTables
<1> HIDE DEF f
<1>7. Shape(f)
  <2>1. ASSUME NEW m \in 1..Len(f.fns), NEW b \in DOMAIN f.fns[m]
        PROVE  IsSeq(f.fns[m][b])
    <3>1. CASE m = n /\ b = c
      BY <1>4, <1>5, <1>6, <3>1
    <3>2. CASE ~(m = n /\ b = c)
      <4>1. m \in 1..Len(be.fns) /\ b \in DOMAIN be.fns[m] /\ f.fns[m][b] = be.fns[m][b]
        BY <1>5, <1>6, <2>1, <3>2
      <4> QED
        BY <4>1 DEF Shape
    <3> QED
      BY <3>1, <3>2
  <2>2. Known(f)
    BY <1>6 DEF Shape, Known
  <2> QED
    BY <1>5, <1>6, <2>1, <2>2 DEF Shape
<1>8. ASSUME NEW m \in 1..Len(be.fns), NEW b \in DOMAIN be.fns[m]
      PROVE  /\ Len(be.fns[m][b]) <= Len(f.fns[m][b])
             /\ \A k \in 1..Len(be.fns[m][b]) : f.fns[m][b][k] = be.fns[m][b][k]
  <2>1. Len(be.fns[m][b]) \in Nat
    BY DEF Shape, IsSeq
  <2>2. CASE m = n /\ b = c
    <3>1. \A k \in 1..Len(be.fns[n][c]) :
            k \in 1..Len(be.fns[n][c]) + 1 /\ k # Len(be.fns[n][c]) + 1
      BY <1>2
    <3> QED
      BY <1>2, <1>4, <1>5, <1>6, <2>2, <3>1
  <2>3. CASE ~(m = n /\ b = c)
    <3>1. f.fns[m][b] = be.fns[m][b]
      BY <1>5, <1>6, <2>3
    <3> QED
      BY <2>1, <3>1
  <2> QED
    BY <2>2, <2>3
<1>9. \A m \in 1..Len(be.fns) :
        DOMAIN f.fns[m] = DOMAIN be.fns[m] /\ (m # n => f.fns[m] = be.fns[m])
  BY <1>5, <1>6
<1>10. Grew(be, f)
  BY <1>5, <1>6, <1>7, <1>8, <1>9 DEF Grew, n
<1>11. BlockOf(be, at) = be.fns[n][c] /\ BlockOf(f, at) = new /\ at[2] = c
  BY <1>1, <1>5, <1>6 DEF BlockOf
<1>12. Len(new) \in 1..Len(be.fns[n][c]) + 1
  BY <1>2, <1>4
<1> QED
  BY <1>2, <1>4, <1>5, <1>6, <1>10, <1>11, <1>12 DEF Newest, f, i, n

LEMMA Emplaced ==
  ASSUME NEW map, NEW key, NEW value
  PROVE  /\ DOMAIN Emplace(map, key, value) = DOMAIN map \cup {key}
         /\ \A k \in DOMAIN map : Emplace(map, key, value)[k] = map[k]
         /\ key \notin DOMAIN map => Emplace(map, key, value)[key] = value
         /\ \A k \in DOMAIN Emplace(map, key, value) :
              Emplace(map, key, value)[k] = value \/ k \in DOMAIN map
BY DEF Emplace

LEMMA Localizing ==
  ASSUME NEW be, Shape(be), NEW table
  PROVE  LET f == [be EXCEPT !.locals = table]
         IN  Grew(be, f) /\ f.fns = be.fns /\ f.locals = table /\ f.error = be.error
<1> DEFINE f == [be EXCEPT !.locals = table]
<1>1. IsBackend(f) /\ SameTables(be, f) /\ f.fns = be.fns /\ f.locals = table /\ f.error = be.error
  BY DEF Shape, IsBackend, SameTables
<1> HIDE DEF f
<1>2. Shape(f)
  BY <1>1 DEF Shape, Known
<1>3. Grew(be, f)
  BY <1>1, <1>2, GrewItself DEF Grew
<1> QED
  BY <1>1, <1>3 DEF f

LEMMA ErrorsAreErrors ==
  "" \notin Errors /\ "running" \notin Errors
  /\ {"out_of_range", "unsupported", "crash", "bad_variant"} \subseteq Errors
BY DEF Errors

LEMMA Failing ==
  ASSUME NEW be, Shape(be), NEW error \in Errors
  PROVE  LET f == Failed(be, error)
         IN  /\ Grew(be, f) /\ f.fns = be.fns /\ f.locals = be.locals /\ f.error # ""
             /\ be.error = "" => f.error = error
<1> DEFINE f == Failed(be, error)
           err == IF be.error = "" THEN error ELSE be.error
<1>1. IsBackend(f) /\ SameTables(be, f) /\ f.fns = be.fns /\ f.locals = be.locals
      /\ f.error # "" /\ (be.error = "" => f.error = error) /\ f.error \in {error, be.error}
  <2>1. f = [be EXCEPT !.error = err]
    BY DEF Failed
  <2>2. err # "" /\ (be.error = "" => err = error) /\ err \in {error, be.error}
    BY ErrorsAreErrors
  <2>3. f.error = err /\ IsBackend(f) /\ SameTables(be, f) /\ f.fns = be.fns /\ f.locals = be.locals
    <3> HIDE DEF f, err
    <3> QED
      BY <2>1 DEF Shape, IsBackend, SameTables
  <2> HIDE DEF f, err
  <2> QED
    BY <2>2, <2>3
<1> HIDE DEF f
<1>2. Shape(f)
  <2>1. Known(f)
    BY <1>1 DEF Shape, Known
  <2> QED
    BY <1>1, <2>1 DEF Shape
<1>3. Grew(be, f)
  BY <1>1, <1>2, GrewItself DEF Grew
<1> QED
  BY <1>1, <1>3 DEF f

-----------------------------------------------------------------------------
(* A backend that is translating its last function: what the instructions use *)
(* and what the locals stand for is of the function it is in.               *)

Own(v, n) == v.kind = "ins" => v.block[1] = n
OwnUses(i, n) == \A v \in Range(Uses(i)) : Own(v, n)

Owned(be) ==
  \A m \in 1..Len(be.fns) : \A b \in DOMAIN be.fns[m] : \A k \in 1..Len(be.fns[m][b]) :
    OwnUses(be.fns[m][b][k], m)
OwnTable(be) == \A v \in DOMAIN be.locals : Own(be.locals[v], Len(be.fns))

Sane(be) == Shape(be) /\ Owned(be) /\ OwnTable(be)
Ready(be) == Sane(be) /\ Placed(be, be.at)

\* f is what be becomes.
Continues(be, f) == Ready(f) /\ Grew(be, f)

LEMMA ReadyChained ==
  ASSUME NEW be, NEW f, NEW g, Ready(be), Continues(be, f), Continues(f, g)
  PROVE  Continues(be, g)
BY GrewChained DEF Continues, Ready, Sane

LEMMA ReadyItself ==
  ASSUME NEW be, Ready(be)
  PROVE  Continues(be, be)
BY GrewItself DEF Continues, Ready, Sane

LEMMA ReadyFailed ==
  ASSUME NEW be, Ready(be), NEW error \in Errors
  PROVE  Continues(be, Failed(be, error))
<1>1. /\ Grew(be, Failed(be, error)) /\ Failed(be, error).fns = be.fns
      /\ Failed(be, error).locals = be.locals
  BY Failing DEF Ready, Sane
<1> QED
  BY <1>1, PlacedKept DEF Continues, Ready, Sane, Owned, OwnTable, Grew, SameTables

LEMMA SaneLocal ==
  ASSUME NEW be, Sane(be), NEW v, NEW value, Own(value, Len(be.fns))
  PROVE  LET f == [be EXCEPT !.locals = Emplace(@, v, value)]
         IN  Sane(f) /\ Grew(be, f) /\ f.error = be.error
<1> DEFINE table == Emplace(be.locals, v, value)
           f == [be EXCEPT !.locals = table]
<1>1. \A k \in DOMAIN table : Own(table[k], Len(be.fns))
  <2>1. /\ \A k \in DOMAIN be.locals : table[k] = be.locals[k]
        /\ \A k \in DOMAIN table : table[k] = value \/ k \in DOMAIN be.locals
    BY DEF Emplace
  <2> HIDE DEF table
  <2> QED
    BY <2>1 DEF Sane, OwnTable
<1> HIDE DEF table
<1>2. Grew(be, f) /\ f.fns = be.fns /\ f.locals = table /\ f.error = be.error
  BY Localizing DEF Sane
<1> HIDE DEF f
<1>3. Sane(f) /\ f.error = be.error
  BY <1>1, <1>2 DEF Sane, Owned, OwnTable, Grew
<1> QED
  BY <1>2, <1>3 DEF f, table

LEMMA SanePut ==
  ASSUME NEW be, Sane(be), NEW at, Placed(be, at), NEW op, NEW args,
         OwnUses([op |-> op, args |-> args], Len(be.fns))
  PROVE  LET f == PutAt(be, at, op, args)
         IN  /\ Sane(f) /\ Grew(be, f)
             /\ f.error = be.error
             /\ Newest(f, at).kind = "ins" /\ Newest(f, at).block = at
             /\ Newest(f, at).index = Len(BlockOf(be, at)) + 1
             /\ BlockOf(f, at)[Len(BlockOf(be, at)) + 1] = [op |-> op, args |-> args]
             /\ Len(BlockOf(f, at)) = Len(BlockOf(be, at)) + 1
             /\ Len(BlockOf(be, at)) \in Nat
             /\ Own(Newest(f, at), Len(be.fns))
<1> DEFINE f == PutAt(be, at, op, args)
           n == Len(be.fns)
           l == Len(BlockOf(be, at))
<1>1. /\ Grew(be, f) /\ f.locals = be.locals /\ f.error = be.error
      /\ l \in Nat /\ Newest(f, at) = InsAt(at, l + 1) /\ Len(BlockOf(f, at)) = l + 1
      /\ BlockOf(f, at)[l + 1] = [op |-> op, args |-> args]
      /\ \A b \in DOMAIN be.fns[n] : b # at[2] => f.fns[n][b] = be.fns[n][b]
  BY Placing DEF Sane
<1>2. PICK c \in DOMAIN be.fns[n] : at = <<n, c>> /\ n \in 1..Len(be.fns)
  BY DEF Placed
<1> HIDE DEF f
<1>3. BlockOf(f, at) = f.fns[n][c] /\ BlockOf(be, at) = be.fns[n][c]
  BY <1>2 DEF BlockOf
<1>4. ASSUME NEW m \in 1..Len(f.fns), NEW b \in DOMAIN f.fns[m], NEW k \in 1..Len(f.fns[m][b])
      PROVE  OwnUses(f.fns[m][b][k], m)
  <2>1. m \in 1..Len(be.fns) /\ b \in DOMAIN be.fns[m]
    BY <1>1 DEF Grew
  <2>2. CASE m = n /\ b = c /\ k = l + 1
    BY <1>1, <1>3, <2>2 DEF n
  <2>3. CASE k \in 1..Len(be.fns[m][b])
    <3>1. f.fns[m][b][k] = be.fns[m][b][k]
      BY <1>1, <2>1, <2>3 DEF Grew
    <3> QED
      BY <2>1, <2>3, <3>1 DEF Sane, Owned
  <2>4. (m = n /\ b = c /\ k = l + 1) \/ k \in 1..Len(be.fns[m][b])
    <3>1. CASE m = n /\ b = c
      <4>1. k \in 1..l + 1
        BY <1>1, <1>3, <3>1
      <4> QED
        BY <1>1, <1>3, <3>1, <4>1
    <3>2. CASE ~(m = n /\ b = c)
      <4>1. f.fns[m][b] = be.fns[m][b]
        BY <1>1, <1>2, <2>1, <3>2 DEF Grew
      <4> QED
        BY <4>1
    <3> QED
      BY <3>1, <3>2
  <2> QED
    BY <2>2, <2>3, <2>4
<1>5. Sane(f)
  <2>1. OwnTable(f)
    BY <1>1 DEF Sane, OwnTable, Grew
  <2>2. Shape(f)
    BY <1>1 DEF Grew
  <2> QED
    BY <1>4, <2>1, <2>2 DEF Sane, Owned
<1>6. Newest(f, at).kind = "ins" /\ Newest(f, at).block = at /\ Newest(f, at).index = l + 1
      /\ Own(Newest(f, at), n)
  BY <1>1, <1>2 DEF InsAt, Own
<1> QED
  BY <1>1, <1>5, <1>6 DEF f, l, n

LEMMA ReadyLocal ==
  ASSUME NEW be, Ready(be), NEW v, NEW value, Own(value, Len(be.fns))
  PROVE  Continues(be, [be EXCEPT !.locals = Emplace(@, v, value)])
<1> DEFINE f == [be EXCEPT !.locals = Emplace(@, v, value)]
<1>1. Sane(f) /\ Grew(be, f)
  BY SaneLocal DEF Ready
<1> HIDE DEF f
<1>2. Placed(f, f.at)
  BY <1>1, PlacedKept DEF Ready, Grew, SameTables
<1> QED
  BY <1>1, <1>2 DEF Continues, Ready, f

LEMMA ReadyPut ==
  ASSUME NEW be, Ready(be), NEW at, Placed(be, at), NEW op, NEW args,
         OwnUses([op |-> op, args |-> args], Len(be.fns))
  PROVE  LET f == PutAt(be, at, op, args)
         IN  /\ Continues(be, f)
             /\ f.error = be.error
             /\ Newest(f, at).kind = "ins" /\ Newest(f, at).block = at
             /\ Newest(f, at).index = Len(BlockOf(be, at)) + 1
             /\ BlockOf(f, at)[Len(BlockOf(be, at)) + 1] = [op |-> op, args |-> args]
             /\ Len(BlockOf(f, at)) = Len(BlockOf(be, at)) + 1
             /\ Len(BlockOf(be, at)) \in Nat
             /\ Own(Newest(f, at), Len(be.fns))
<1> DEFINE f == PutAt(be, at, op, args)
<1>1. Sane(f) /\ Grew(be, f)
  BY SanePut DEF Ready
<1>2. Placed(f, f.at)
  <2> HIDE DEF f
  <2> QED
    BY <1>1, PlacedKept DEF Ready, Grew, SameTables
<1>3. Continues(be, f)
  BY <1>1, <1>2 DEF Continues, Ready
<1> QED
  BY <1>3, SanePut DEF Ready

-----------------------------------------------------------------------------
(* The loops, turn by turn. *)

\* The turns in which the operands of an instruction are translated.
LEMMA OperandsTurns ==
  ASSUME NEW be, NEW args, Len(args) \in Nat
  PROVE  \E turn : /\ turn[0] = Got(be, <<>>)
                   /\ \A k \in 1..Len(args) :
                        turn[k] = LET got == turn[k - 1] IN Got(Operand(got.be, args[k]).be, got.vals \o Operand(got.be, args[k]).vals)
                   /\ Operands(be, args) = turn[Len(args)]
<1> DEFINE n == Len(args)
           z == Got(be, <<>>)
           Turn(got, k) == Got(Operand(got.be, args[k]).be, got.vals \o Operand(got.be, args[k]).vals)
           Solves(w) == w = [k \in 0..n |-> IF k = 0 THEN z ELSE Turn(w[k - 1], k)]
           T == {m \in 0..n : \E b : b[0] = z /\ \A k \in 1..m : b[k] = Turn(b[k - 1], k)}
           turns == CHOOSE w : Solves(w)
<1>1. Operands(be, args) = turns[n]
  BY DEF Operands, Loop
<1>2. n \in Nat
  OBVIOUS
<1> HIDE DEF n, z, Turn
<1>3. 0 \in T
  <2> DEFINE b == [k \in {0} |-> z]
  <2>1. b[0] = z
    OBVIOUS
  <2> HIDE DEF b
  <2> QED
    BY <1>2, <2>1
<1>4. ASSUME NEW m \in 1..n, m - 1 \in T
      PROVE  m \in T
  <2>1. PICK b : b[0] = z /\ \A k \in 1..m - 1 : b[k] = Turn(b[k - 1], k)
    BY <1>4
  <2> DEFINE c == [k \in 0..m |-> IF k = m THEN Turn(b[m - 1], m) ELSE b[k]]
  <2>2. m \in 0..n /\ m # 0
    BY <1>2
  <2>3. \A k \in 0..m - 1 : k \in 0..m /\ c[k] = b[k]
    BY <1>2
  <2>4. c[m] = Turn(b[m - 1], m)
    BY <1>2
  <2> HIDE DEF c
  <2>5. \A k \in 1..m : c[k] = Turn(c[k - 1], k)
    <3>1. \A k \in 1..m : k - 1 \in 0..m - 1 /\ (k = m \/ (k \in 1..m - 1 /\ k \in 0..m - 1))
      BY <1>2
    <3> QED
      BY <2>1, <2>3, <2>4, <3>1
  <2>6. c[0] = z
    BY <1>2, <2>1, <2>3
  <2> QED
    BY <2>2, <2>5, <2>6
<1>5. PICK b : b[0] = z /\ \A k \in 1..n : b[k] = Turn(b[k - 1], k)
  <2> HIDE DEF T
  <2>1. \A m \in 0..n : m \in T
    BY <1>2, <1>3, <1>4, Upwards
  <2>2. n \in 0..n
    BY <1>2
  <2>3. n \in T
    BY <2>1, <2>2
  <2> QED
    BY <2>3 DEF T
<1> DEFINE w == [k \in 0..n |-> b[k]]
<1>6. \A k \in 0..n : w[k] = IF k = 0 THEN z ELSE Turn(w[k - 1], k)
  <2>1. \A k \in 0..n : k = 0 \/ (k \in 1..n /\ k - 1 \in 0..n)
    BY <1>2
  <2> QED
    BY <1>5, <2>1
<1>7. Solves(w)
  <2>1. w = [k \in 0..n |-> w[k]]
    OBVIOUS
  <2> HIDE DEF w
  <2> QED
    BY <1>6, <2>1
<1>8. Solves(turns)
  <2> HIDE DEF Solves
  <2> QED
    BY <1>7
<1> HIDE DEF turns
<1>9. turns[0] = z /\ \A k \in 1..n : turns[k] = Turn(turns[k - 1], k)
  <2>1. \A k \in 0..n : turns[k] = IF k = 0 THEN z ELSE Turn(turns[k - 1], k)
    BY <1>8
  <2>2. 0 \in 0..n /\ \A k \in 1..n : k \in 0..n /\ k # 0
    BY <1>2
  <2> HIDE DEF Solves
  <2> QED
    BY <2>1, <2>2
<1> HIDE DEF Solves
<1> QED
  BY <1>1, <1>9 DEF n, z, Turn

\* The turns in which the instructions of a block are translated.
LEMMA BlockTurns ==
  ASSUME NEW be, NEW block, NEW at, Len(block) \in Nat
  PROVE  \E turn : /\ turn[0] = [be EXCEPT !.at = at]
                   /\ \A k \in 1..Len(block) :
                        turn[k] = LET acc == turn[k - 1] IN OnInstruction(acc, block[k])
                   /\ OnBlock(be, block, at) = turn[Len(block)]
<1> DEFINE n == Len(block)
           z == [be EXCEPT !.at = at]
           Turn(acc, k) == OnInstruction(acc, block[k])
           Solves(w) == w = [k \in 0..n |-> IF k = 0 THEN z ELSE Turn(w[k - 1], k)]
           T == {m \in 0..n : \E b : b[0] = z /\ \A k \in 1..m : b[k] = Turn(b[k - 1], k)}
           turns == CHOOSE w : Solves(w)
<1>1. OnBlock(be, block, at) = turns[n]
  BY DEF OnBlock, Loop
<1>2. n \in Nat
  OBVIOUS
<1> HIDE DEF n, z, Turn
<1>3. 0 \in T
  <2> DEFINE b == [k \in {0} |-> z]
  <2>1. b[0] = z
    OBVIOUS
  <2> HIDE DEF b
  <2> QED
    BY <1>2, <2>1
<1>4. ASSUME NEW m \in 1..n, m - 1 \in T
      PROVE  m \in T
  <2>1. PICK b : b[0] = z /\ \A k \in 1..m - 1 : b[k] = Turn(b[k - 1], k)
    BY <1>4
  <2> DEFINE c == [k \in 0..m |-> IF k = m THEN Turn(b[m - 1], m) ELSE b[k]]
  <2>2. m \in 0..n /\ m # 0
    BY <1>2
  <2>3. \A k \in 0..m - 1 : k \in 0..m /\ c[k] = b[k]
    BY <1>2
  <2>4. c[m] = Turn(b[m - 1], m)
    BY <1>2
  <2> HIDE DEF c
  <2>5. \A k \in 1..m : c[k] = Turn(c[k - 1], k)
    <3>1. \A k \in 1..m : k - 1 \in 0..m - 1 /\ (k = m \/ (k \in 1..m - 1 /\ k \in 0..m - 1))
      BY <1>2
    <3> QED
      BY <2>1, <2>3, <2>4, <3>1
  <2>6. c[0] = z
    BY <1>2, <2>1, <2>3
  <2> QED
    BY <2>2, <2>5, <2>6
<1>5. PICK b : b[0] = z /\ \A k \in 1..n : b[k] = Turn(b[k - 1], k)
  <2> HIDE DEF T
  <2>1. \A m \in 0..n : m \in T
    BY <1>2, <1>3, <1>4, Upwards
  <2>2. n \in 0..n
    BY <1>2
  <2>3. n \in T
    BY <2>1, <2>2
  <2> QED
    BY <2>3 DEF T
<1> DEFINE w == [k \in 0..n |-> b[k]]
<1>6. \A k \in 0..n : w[k] = IF k = 0 THEN z ELSE Turn(w[k - 1], k)
  <2>1. \A k \in 0..n : k = 0 \/ (k \in 1..n /\ k - 1 \in 0..n)
    BY <1>2
  <2> QED
    BY <1>5, <2>1
<1>7. Solves(w)
  <2>1. w = [k \in 0..n |-> w[k]]
    OBVIOUS
  <2> HIDE DEF w
  <2> QED
    BY <1>6, <2>1
<1>8. Solves(turns)
  <2> HIDE DEF Solves
  <2> QED
    BY <1>7
<1> HIDE DEF turns
<1>9. turns[0] = z /\ \A k \in 1..n : turns[k] = Turn(turns[k - 1], k)
  <2>1. \A k \in 0..n : turns[k] = IF k = 0 THEN z ELSE Turn(turns[k - 1], k)
    BY <1>8
  <2>2. 0 \in 0..n /\ \A k \in 1..n : k \in 0..n /\ k # 0
    BY <1>2
  <2> HIDE DEF Solves
  <2> QED
    BY <2>1, <2>2
<1> HIDE DEF Solves
<1> QED
  BY <1>1, <1>9 DEF n, z, Turn

-----------------------------------------------------------------------------
(* The operands. *)

OwnValues(got, n, l) ==
  IsSeq(got.vals) /\ Len(got.vals) = l /\ \A k \in 1..l : Own(got.vals[k], n)

LEMMA OneValue ==
  ASSUME NEW x
  PROVE  IsSeq(<<x>>) /\ Len(<<x>>) = 1 /\ <<x>>[1] = x /\ DOMAIN <<x>> = 1..1
BY DEF IsSeq

LEMMA OneOwn ==
  ASSUME NEW be, NEW x, NEW n, Own(x, n)
  PROVE  OwnValues(Got(be, <<x>>), n, 1)
BY OneValue DEF OwnValues, Got

LEMMA OwnConcat ==
  ASSUME NEW got, NEW one, NEW n, NEW l \in Nat, OwnValues(got, n, l), OwnValues(one, n, 1),
         NEW be
  PROVE  OwnValues(Got(be, got.vals \o one.vals), n, l + 1)
<1> DEFINE s == got.vals \o one.vals
<1>1. /\ IsSeq(s) /\ Len(s) = l + 1
      /\ \A j \in 1..l : s[j] = got.vals[j]
      /\ \A j \in 1..1 : s[l + j] = one.vals[j]
  <2>1. IsSeq(got.vals) /\ IsSeq(one.vals) /\ Len(got.vals) = l /\ Len(one.vals) = 1
    BY DEF OwnValues
  <2>2. Joined(s, got.vals, one.vals)
    BY <2>1, ConcatShape
  <2> HIDE DEF s
  <2> QED
    BY <2>1, <2>2 DEF Joined
<1> HIDE DEF s
<1>2. \A j \in 1..l + 1 : j \in 1..l \/ j = l + 1
  OBVIOUS
<1>3. s[l + 1] = one.vals[1] /\ Own(one.vals[1], n)
  BY <1>1 DEF OwnValues
<1>4. OwnValues(Got(be, s), n, l + 1)
  BY <1>1, <1>2, <1>3 DEF OwnValues, Got
<1> QED
  BY <1>4 DEF s

LEMMA RawLocalOwn ==
  ASSUME NEW be, Ready(be), NEW v
  PROVE  LET got == RawLocal(be, v)
         IN  Continues(be, got.be) /\ OwnValues(got, Len(be.fns), 1)
<1>1. CASE v \in DOMAIN be.locals
  <2>1. RawLocal(be, v) = Got(be, <<be.locals[v]>>)
    BY <1>1 DEF RawLocal
  <2>2. Own(be.locals[v], Len(be.fns))
    BY <1>1 DEF Ready, Sane, OwnTable
  <2> QED
    BY <2>1, <2>2, OneOwn, ReadyItself DEF Got
<1>2. CASE v \notin DOMAIN be.locals
  <2>1. RawLocal(be, v) = Got(Failed(be, "out_of_range"), <<NoValue>>)
    BY <1>2 DEF RawLocal
  <2>2. Own(NoValue, Len(be.fns))
    BY DEF Own, NoValue
  <2>3. Continues(be, Failed(be, "out_of_range"))
    BY ReadyFailed, ErrorsAreErrors
  <2> QED
    BY <2>1, <2>2, <2>3, OneOwn DEF Got
<1> QED
  BY <1>1, <1>2

\* Operators whose operands are all values that they use.
Plain(op) == op \notin {"alloca", "br", "condbr", "phi"}

LEMMA PlainUses ==
  ASSUME NEW op, Plain(op), NEW got, NEW n, NEW l, OwnValues(got, n, l)
  PROVE  OwnUses([op |-> op, args |-> got.vals], n)
<1>1. Uses([op |-> op, args |-> got.vals]) = got.vals
  BY DEF Uses, Plain
<1>2. DOMAIN got.vals = 1..l
  BY DEF OwnValues, IsSeq
<1> QED
  BY <1>1, <1>2 DEF OwnUses, OwnValues, Range

LEMMA OperandOwn ==
  ASSUME NEW be, Ready(be), NEW arg
  PROVE  LET got == Operand(be, arg)
         IN  Continues(be, got.be) /\ OwnValues(got, Len(be.fns), 1)
<1>1. CASE arg.kind = "literal"
  <2>1. Operand(be, arg) = Got(be, <<Const(0)>>)
    BY <1>1 DEF Operand
  <2>2. Own(Const(0), Len(be.fns))
    BY DEF Own, Const
  <2> QED
    BY <2>1, <2>2, OneOwn, ReadyItself DEF Got
<1>2. CASE arg.kind = "var"
  <2> DEFINE raw == RawLocal(be, arg.id)
             load == Put(be, "load", raw.vals)
  <2>1. Operand(be, arg) = IF IsAlloca(be, raw.vals[1]) THEN Got(load, <<Newest(load, be.at)>>)
                           ELSE raw
    BY <1>2 DEF Operand, Local
  <2>2. Continues(be, raw.be) /\ OwnValues(raw, Len(be.fns), 1)
    BY RawLocalOwn
  <2>3. Continues(be, load) /\ Own(Newest(load, be.at), Len(be.fns))
    <3> HIDE DEF raw
    <3>1. OwnUses([op |-> "load", args |-> raw.vals], Len(be.fns)) /\ Placed(be, be.at)
      BY <2>2, PlainUses DEF Plain, Ready, Sane
    <3> QED
      BY <3>1, ReadyPut DEF Put
  <2> HIDE DEF raw, load
  <2> QED
    BY <2>1, <2>2, <2>3, OneOwn DEF Got
<1>3. CASE arg.kind \notin {"literal", "var"}
  <2>1. Operand(be, arg) = Got(Failed(be, "unsupported"), <<NoValue>>)
    BY <1>3 DEF Operand
  <2>2. Own(NoValue, Len(be.fns))
    BY DEF Own, NoValue
  <2>3. Continues(be, Failed(be, "unsupported"))
    BY ReadyFailed, ErrorsAreErrors
  <2> QED
    BY <2>1, <2>2, <2>3, OneOwn DEF Got
<1> QED
  BY <1>1, <1>2, <1>3

LEMMA OperandsOwn ==
  ASSUME NEW be, Ready(be), NEW args, Len(args) \in Nat
  PROVE  LET got == Operands(be, args)
         IN  Continues(be, got.be) /\ OwnValues(got, Len(be.fns), Len(args))
<1> DEFINE n == Len(args)
           Fine(got, k) == Continues(be, got.be) /\ OwnValues(got, Len(be.fns), k)
<1>1. PICK turn : /\ turn[0] = Got(be, <<>>)
                  /\ \A k \in 1..n : turn[k] = LET got == turn[k - 1] IN
                       Got(Operand(got.be, args[k]).be, got.vals \o Operand(got.be, args[k]).vals)
                  /\ Operands(be, args) = turn[n]
  BY OperandsTurns
<1> DEFINE T == {k \in 0..n : Fine(turn[k], k)}
<1>2. 0 \in T
  <2>1. OwnValues(Got(be, <<>>), Len(be.fns), 0)
    BY DEF OwnValues, Got, IsSeq
  <2> QED
    BY <1>1, <2>1, ReadyItself DEF Got
<1>3. ASSUME NEW k \in 1..n, k - 1 \in T
      PROVE  k \in T
  <2> DEFINE got == turn[k - 1]
             one == Operand(got.be, args[k])
  <2>1. Fine(got, k - 1) /\ Ready(got.be) /\ Len(got.be.fns) = Len(be.fns)
    BY <1>3 DEF Continues, Grew
  <2>2. turn[k] = Got(one.be, got.vals \o one.vals)
    BY <1>1
  <2>3. Continues(got.be, one.be) /\ OwnValues(one, Len(be.fns), 1)
    BY <2>1, OperandOwn
  <2> HIDE DEF one, got
  <2>4. Continues(be, one.be)
    BY <2>1, <2>3, ReadyChained
  <2>5. OwnValues(Got(one.be, got.vals \o one.vals), Len(be.fns), k)
    <3>1. k - 1 \in Nat /\ k - 1 + 1 = k
      BY <1>3
    <3> QED
      BY <2>1, <2>3, <3>1, OwnConcat
  <2> QED
    BY <2>2, <2>4, <2>5 DEF Got
<1> HIDE DEF T
<1>4. \A k \in 0..n : k \in T
  BY <1>2, <1>3, Upwards
<1>5. n \in T
  BY <1>4
<1> QED
  BY <1>1, <1>5 DEF T

-----------------------------------------------------------------------------
(* The instructions. *)

LEMMA ResultOwn ==
  ASSUME NEW got, Ready(got.be), NEW l, OwnValues(got, Len(got.be.fns), l),
         NEW op, Plain(op), NEW res
  PROVE  Continues(got.be, Result(got, op, res))
<1> DEFINE put == Put(got.be, op, got.vals)
<1>1. CASE got.be.error # ""
  BY <1>1, ReadyItself DEF Result
<1>2. CASE got.be.error = ""
  <2>1. Result(got, op, res) = [put EXCEPT !.locals = Emplace(@, res, Newest(put, put.at))]
    BY <1>2 DEF Result
  <2>2. OwnUses([op |-> op, args |-> got.vals], Len(got.be.fns)) /\ Placed(got.be, got.be.at)
    BY PlainUses DEF Ready, Sane
  <2>3. Continues(got.be, put) /\ Own(Newest(put, got.be.at), Len(got.be.fns))
    BY <2>2, ReadyPut DEF Put
  <2> HIDE DEF put
  <2>4. Ready(put) /\ put.at = got.be.at /\ Len(put.fns) = Len(got.be.fns)
    BY <2>3 DEF Continues, Grew, SameTables
  <2>5. Continues(put, [put EXCEPT !.locals = Emplace(@, res, Newest(put, put.at))])
    BY <2>3, <2>4, ReadyLocal
  <2> QED
    BY <2>1, <2>3, <2>5, ReadyChained
<1> QED
  BY <1>1, <1>2

LEMMA NamesOwn ==
  ASSUME NEW be, NEW got, Ready(got.be), OwnValues(got, Len(got.be.fns), 1), NEW res
  PROVE  Continues(got.be, Names(be, res, got))
<1>1. Own(got.vals[1], Len(got.be.fns))
  BY DEF OwnValues
<1> QED
  BY <1>1, ReadyItself, ReadyLocal DEF Names

\* An instruction without a result.
LEMMA PutOwn ==
  ASSUME NEW be, Ready(be), NEW op, NEW args, OwnUses([op |-> op, args |-> args], Len(be.fns))
  PROVE  Continues(be, Put(be, op, args))
<1>1. Placed(be, be.at)
  BY DEF Ready, Sane
<1> QED
  BY <1>1, ReadyPut DEF Put

LEMMA LaterOwn ==
  ASSUME NEW be, NEW got, Continues(be, got.be)
  PROVE  Ready(got.be) /\ Len(got.be.fns) = Len(be.fns)
BY DEF Continues, Grew

LEMMA OnBinaryOwn ==
  ASSUME NEW be, Ready(be), NEW i, i.op \in DOMAIN LlvmOp, Len(i.args) \in Nat
  PROVE  Continues(be, OnBinary(be, i))
<1>1. CASE i.res = 0
  BY <1>1, ReadyFailed, ErrorsAreErrors DEF OnBinary
<1>2. CASE i.res # 0
  <2> DEFINE got == Operands(be, i.args)
  <2>1. Continues(be, got.be) /\ OwnValues(got, Len(be.fns), Len(i.args))
    BY OperandsOwn
  <2>2. Plain(LlvmOp[i.op])
    BY DEF LlvmOp, Plain
  <2>3. OnBinary(be, i) = Result(got, LlvmOp[i.op], i.res)
    BY <1>2 DEF OnBinary
  <2> HIDE DEF got
  <2>4. Ready(got.be) /\ Len(got.be.fns) = Len(be.fns)
    BY <2>1, LaterOwn
  <2>5. Continues(got.be, Result(got, LlvmOp[i.op], i.res))
    BY <2>1, <2>2, <2>4, ResultOwn
  <2> QED
    BY <2>1, <2>3, <2>5, ReadyChained
<1> QED
  BY <1>1, <1>2

LEMMA OnGreaterEqualOwn ==
  ASSUME NEW be, Ready(be), NEW i
  PROVE  Continues(be, OnGreaterEqual(be, i))
<1> DEFINE left == RawLocal(be, i.args[1].id)
           right == RawLocal(left.be, i.args[2].id)
           both == Got(right.be, left.vals \o right.vals)
<1>1. Continues(be, left.be) /\ OwnValues(left, Len(be.fns), 1)
  BY RawLocalOwn
<1>2. OnGreaterEqual(be, i) = Result(both, "sge", i.res)
  BY DEF OnGreaterEqual
<1> HIDE DEF left
<1>3. Ready(left.be) /\ Len(left.be.fns) = Len(be.fns)
  BY <1>1, LaterOwn
<1>4. Continues(left.be, right.be) /\ OwnValues(right, Len(be.fns), 1)
  BY <1>3, RawLocalOwn
<1> HIDE DEF right
<1>5. both.be = right.be /\ OwnValues(both, Len(be.fns), 1 + 1)
  BY <1>1, <1>4, OwnConcat DEF Got
<1> HIDE DEF both
<1>6. Continues(be, both.be)
  BY <1>1, <1>4, <1>5, ReadyChained
<1>7. Ready(both.be) /\ Len(both.be.fns) = Len(be.fns)
  BY <1>6, LaterOwn
<1>8. Continues(both.be, Result(both, "sge", i.res))
  BY <1>5, <1>7, ResultOwn DEF Plain
<1> QED
  BY <1>2, <1>6, <1>8, ReadyChained

LEMMA OnConstOwn ==
  ASSUME NEW be, Ready(be), NEW i
  PROVE  Continues(be, OnConst(be, i))
<1>1. Own(Const(i.res), Len(be.fns))
  BY DEF Own, Const
<1>2. OwnValues(Got(be, <<Const(i.res)>>), Len(be.fns), 1) /\ Got(be, <<Const(i.res)>>).be = be
  BY <1>1, OneOwn DEF Got
<1> QED
  BY <1>2, NamesOwn DEF OnConst

LEMMA OnBindOwn ==
  ASSUME NEW be, Ready(be), NEW i
  PROVE  Continues(be, OnBind(be, i))
<1> DEFINE val == Operand(be, i.args[1])
           place == RawLocal(val.be, i.res)
           both == Got(place.be, val.vals \o place.vals)
<1>1. Continues(be, val.be) /\ OwnValues(val, Len(be.fns), 1)
  BY OperandOwn
<1>2. OnBind(be, i) = IF place.be.error # "" THEN place.be
                      ELSE Put(place.be, "store", both.vals)
  BY DEF OnBind, Got
<1> HIDE DEF val
<1>3. Ready(val.be) /\ Len(val.be.fns) = Len(be.fns)
  BY <1>1, LaterOwn
<1>4. Continues(val.be, place.be) /\ OwnValues(place, Len(be.fns), 1)
  BY <1>3, RawLocalOwn
<1> HIDE DEF place
<1>5. OwnValues(both, Len(be.fns), 1 + 1)
  BY <1>1, <1>4, OwnConcat
<1> HIDE DEF both
<1>6. Continues(be, place.be)
  BY <1>1, <1>4, ReadyChained
<1>7. Ready(place.be) /\ Len(place.be.fns) = Len(be.fns)
  BY <1>6, LaterOwn
<1>8. OwnUses([op |-> "store", args |-> both.vals], Len(be.fns))
  BY <1>5, PlainUses DEF Plain
<1>9. Continues(place.be, Put(place.be, "store", both.vals))
  BY <1>7, <1>8, PutOwn
<1> QED
  BY <1>2, <1>6, <1>9, ReadyChained

LEMMA OnUpdateOwn ==
  ASSUME NEW be, Ready(be), NEW i
  PROVE  Continues(be, OnUpdate(be, i))
<1> DEFINE got == RawLocal(be, i.args[1].id)
<1>1. Continues(be, got.be) /\ OwnValues(got, Len(be.fns), 1)
  BY RawLocalOwn
<1>2. OnUpdate(be, i) = Names(be, i.res, got)
  BY DEF OnUpdate
<1> HIDE DEF got
<1>3. Ready(got.be) /\ Len(got.be.fns) = Len(be.fns)
  BY <1>1, LaterOwn
<1>4. Continues(got.be, Names(be, i.res, got))
  BY <1>1, <1>3, NamesOwn
<1> QED
  BY <1>1, <1>2, <1>4, ReadyChained

LEMMA OnJumpOwn ==
  ASSUME NEW be, Ready(be), NEW i
  PROVE  Continues(be, OnJump(be, i))
<1>1. OwnUses([op |-> "br", args |-> <<Target(be, i.args[1])>>], Len(be.fns))
  BY DEF OwnUses, Uses, Range
<1> QED
  BY <1>1, PutOwn DEF OnJump

LEMMA OnCondJumpOwn ==
  ASSUME NEW be, Ready(be), NEW i
  PROVE  Continues(be, OnCondJump(be, i))
<1> DEFINE cond == RawLocal(be, i.args[1].id)
           args == cond.vals \o <<Target(be, i.args[2]), Target(be, i.args[3])>>
<1>1. Continues(be, cond.be) /\ OwnValues(cond, Len(be.fns), 1)
  BY RawLocalOwn
<1>2. OnCondJump(be, i) = IF cond.be.error # "" THEN cond.be
                          ELSE IF Len(i.args) < 3 THEN Failed(be, "out_of_range")
                          ELSE Put(be, "condbr", args)
  BY DEF OnCondJump
<1> HIDE DEF cond
<1>4. OwnUses([op |-> "condbr", args |-> args], Len(be.fns))
  <2>1. IsSeq(<<Target(be, i.args[2]), Target(be, i.args[3])>>)
    BY DEF IsSeq
  <2>2. args[1] = cond.vals[1] /\ Own(cond.vals[1], Len(be.fns))
    <3>1. IsSeq(cond.vals) /\ Len(cond.vals) = 1
      BY <1>1 DEF OwnValues
    <3>2. Joined(args, cond.vals, <<Target(be, i.args[2]), Target(be, i.args[3])>>)
      BY <2>1, <3>1, ConcatShape
    <3> HIDE DEF args
    <3> QED
      BY <1>1, <3>1, <3>2 DEF OwnValues, Joined
  <2>3. Uses([op |-> "condbr", args |-> args]) = <<args[1]>>
    BY DEF Uses
  <2> HIDE DEF args
  <2> QED
    BY <2>2, <2>3, OneValue DEF OwnUses, Range
<1> HIDE DEF args
<1>5. Continues(be, Put(be, "condbr", args))
  BY <1>4, PutOwn
<1>6. Continues(be, Failed(be, "out_of_range"))
  BY ReadyFailed, ErrorsAreErrors
<1> QED
  BY <1>1, <1>2, <1>5, <1>6

LEMMA OnReturnOwn ==
  ASSUME NEW be, Ready(be), NEW i, Len(i.args) \in Nat
  PROVE  Continues(be, OnReturn(be, i))
<1> DEFINE got == Operands(be, i.args)
<1>1. Continues(be, got.be) /\ OwnValues(got, Len(be.fns), Len(i.args))
  BY OperandsOwn
<1>2. OnReturn(be, i) = IF i.args = <<>> THEN Failed(be, "out_of_range")
                        ELSE IF got.be.error # "" THEN got.be
                        ELSE Put(got.be, "ret", got.vals)
  BY DEF OnReturn
<1> HIDE DEF got
<1>3. Ready(got.be) /\ Len(got.be.fns) = Len(be.fns)
  BY <1>1, LaterOwn
<1>4. OwnUses([op |-> "ret", args |-> got.vals], Len(be.fns))
  BY <1>1, PlainUses DEF Plain
<1>5. Continues(got.be, Put(got.be, "ret", got.vals))
  BY <1>3, <1>4, PutOwn
<1>6. Continues(be, Failed(be, "out_of_range"))
  BY ReadyFailed, ErrorsAreErrors
<1> QED
  BY <1>1, <1>2, <1>5, <1>6, ReadyChained

\* The arguments of an instruction are replaced.
Rewritten(be, f, at, i, args, table) ==
  /\ Shape(f) /\ SameTables(be, f) /\ f.locals = table /\ f.error = be.error
  /\ Len(f.fns) = Len(be.fns)
  /\ \A m \in 1..Len(be.fns) : DOMAIN f.fns[m] = DOMAIN be.fns[m]
  /\ \A m \in 1..Len(be.fns) : m # Len(be.fns) => f.fns[m] = be.fns[m]
  /\ \A b \in DOMAIN be.fns[Len(be.fns)] :
       b # at[2] => f.fns[Len(be.fns)][b] = be.fns[Len(be.fns)][b]
  /\ Len(BlockOf(f, at)) = Len(BlockOf(be, at))
  /\ \A k \in 1..Len(BlockOf(be, at)) :
       BlockOf(f, at)[k] = IF k = i THEN [BlockOf(be, at)[i] EXCEPT !.args = args]
                           ELSE BlockOf(be, at)[k]

LEMMA Rewriting ==
  ASSUME NEW be, Shape(be), NEW at, Placed(be, at), NEW i, i \in 1..Len(BlockOf(be, at)),
         NEW args, NEW table
  PROVE  Rewritten(be, [be EXCEPT !.fns[at[1]][at[2]][i].args = args, !.locals = table],
                   at, i, args, table)
<1> DEFINE n == Len(be.fns)
<1>1. PICK c \in DOMAIN be.fns[n] : at = <<n, c>> /\ n \in 1..Len(be.fns)
  BY DEF Placed
<1> DEFINE ins == [be.fns[n][c][i] EXCEPT !.args = args]
           new == [be.fns[n][c] EXCEPT ![i] = ins]
           fn == [be.fns[n] EXCEPT ![c] = new]
           fns == [be.fns EXCEPT ![n] = fn]
           f == [be EXCEPT !.fns = fns, !.locals = table]
<1>2. [be EXCEPT !.fns[at[1]][at[2]][i].args = args, !.locals = table] = f
  BY <1>1
<1>3. IsSeq(be.fns) /\ IsSeq(be.fns[n][c]) /\ i \in 1..Len(be.fns[n][c]) /\ IsBackend(be)
  BY <1>1 DEF Shape, BlockOf
<1> HIDE DEF ins, n
<1>4. /\ IsSeq(new) /\ Len(new) = Len(be.fns[n][c])
      /\ \A k \in 1..Len(be.fns[n][c]) : new[k] = IF k = i THEN ins ELSE be.fns[n][c][k]
  BY <1>3, ReplacedShape
<1> HIDE DEF new
<1>5. DOMAIN fn = DOMAIN be.fns[n] /\ \A b \in DOMAIN be.fns[n] : fn[b] = IF b = c THEN new ELSE be.fns[n][b]
  OBVIOUS
<1> HIDE DEF fn
<1>6. /\ IsSeq(fns) /\ Len(fns) = Len(be.fns)
      /\ \A k \in 1..Len(be.fns) : fns[k] = IF k = n THEN fn ELSE be.fns[k]
  BY <1>1, <1>3, ReplacedShape
<1> HIDE DEF fns
<1>7. IsBackend(f) /\ f.fns = fns /\ SameTables(be, f) /\ f.locals = table /\ f.error = be.error
  <2> DEFINE g == [be EXCEPT !.fns = fns]
  <2>1. IsBackend(g) /\ g.fns = fns /\ SameTables(be, g) /\ g.error = be.error
    BY <1>3 DEF IsBackend, SameTables
  <2>2. f = [g EXCEPT !.locals = table]
    BY <1>3 DEF IsBackend
  <2> HIDE DEF f, g
  <2> QED
    BY <2>1, <2>2 DEF IsBackend, SameTables
<1> HIDE DEF f
<1>8. Shape(f)
  <2>1. ASSUME NEW m \in 1..Len(f.fns), NEW b \in DOMAIN f.fns[m]
        PROVE  IsSeq(f.fns[m][b])
    BY <1>4, <1>5, <1>6, <1>7, <2>1 DEF Shape
  <2>2. Known(f)
    BY <1>7 DEF Shape, Known
  <2> QED
    BY <1>6, <1>7, <2>1, <2>2 DEF Shape
<1>9. \A m \in 1..Len(be.fns) :
        DOMAIN f.fns[m] = DOMAIN be.fns[m] /\ (m # n => f.fns[m] = be.fns[m])
  BY <1>5, <1>6, <1>7
<1>10. /\ f.fns[n][c] = new
       /\ \A b \in DOMAIN be.fns[n] : b # c => f.fns[n][b] = be.fns[n][b]
  BY <1>1, <1>5, <1>6, <1>7
<1>11. BlockOf(f, at) = new /\ BlockOf(be, at) = be.fns[n][c] /\ at[2] = c
  BY <1>1, <1>10 DEF BlockOf
<1> QED
  BY <1>2, <1>4, <1>6, <1>7, <1>8, <1>9, <1>10, <1>11 DEF ins, n, Rewritten

LEMMA OnPhiOwn ==
  ASSUME NEW be, Ready(be), NEW i, IsSeq(i.args)
  PROVE  Continues(be, OnPhi(be, i))
<1> DEFINE phi == Put(be, "phi", <<>>)
           place == Newest(phi, phi.at)
           args == [k \in DOMAIN i.args |-> V(i.args[k].id)]
           got == Operands(phi, args)
           incoming == [k \in DOMAIN i.args |-> <<Target(be, [id |-> i.args[k].block]), got.vals[k]>>]
           g == [got.be EXCEPT !.fns[be.at[1]][be.at[2]][place.index].args = incoming,
                               !.locals = Emplace(@, i.res, place)]
           table == Emplace(got.be.locals, i.res, place)
           n == Len(be.fns)
<1>1. OnPhi(be, i) = IF \E k \in DOMAIN i.args : i.args[k].kind # "phi"
                     THEN Failed(be, "bad_variant")
                     ELSE IF got.be.error # "" THEN got.be ELSE g
  BY DEF OnPhi
<1>2. PICK c \in DOMAIN be.fns[n] : be.at = <<n, c>> /\ n \in 1..Len(be.fns)
  BY DEF Placed, Ready, Sane
<1> DEFINE l == Len(BlockOf(be, be.at))
<1>3. /\ Continues(be, phi) /\ place = InsAt(be.at, l + 1) /\ l \in Nat
      /\ BlockOf(phi, be.at)[l + 1] = [op |-> "phi", args |-> <<>>]
      /\ Len(BlockOf(phi, be.at)) = l + 1
      /\ Own(place, n)
  <2>1. Uses([op |-> "phi", args |-> <<>>]) = [k \in {} |-> <<>>[k][2]]
    BY DEF Uses
  <2>2. OwnUses([op |-> "phi", args |-> <<>>], n)
    BY <2>1 DEF OwnUses, Range
  <2>3. Placed(be, be.at)
    BY DEF Ready, Sane
  <2>4. /\ Continues(be, phi) /\ l \in Nat
        /\ BlockOf(phi, be.at)[l + 1] = [op |-> "phi", args |-> <<>>]
        /\ Len(BlockOf(phi, be.at)) = l + 1
        /\ Own(Newest(phi, be.at), n)
    BY <2>2, <2>3, ReadyPut DEF Put
  <2>5. phi.at = be.at
    BY <2>4 DEF Continues, Grew, SameTables
  <2> HIDE DEF phi, l
  <2> QED
    BY <2>4, <2>5 DEF Newest
<1> HIDE DEF phi, place, l
<1>4. Len(args) = Len(i.args) /\ Len(i.args) \in Nat /\ DOMAIN i.args = 1..Len(i.args)
  BY DEF IsSeq
<1>5. Ready(phi) /\ Len(phi.fns) = n
  BY <1>3 DEF Continues, Grew
<1> HIDE DEF args
<1>6. Continues(phi, got.be) /\ OwnValues(got, n, Len(i.args))
  BY <1>4, <1>5, OperandsOwn
<1> HIDE DEF got
<1>7. Continues(be, got.be)
  BY <1>3, <1>6, ReadyChained
<1>8. Ready(got.be) /\ Len(got.be.fns) = n /\ Placed(got.be, be.at)
  BY <1>7, PlacedKept DEF Continues, Grew, Ready, Sane
<1>9. /\ BlockOf(got.be, be.at)[l + 1] = [op |-> "phi", args |-> <<>>]
      /\ l + 1 \in 1..Len(BlockOf(got.be, be.at)) /\ Len(BlockOf(got.be, be.at)) \in Nat
  <2>1. BlockOf(phi, be.at) = phi.fns[n][c] /\ BlockOf(got.be, be.at) = got.be.fns[n][c]
    BY <1>2 DEF BlockOf
  <2>2. n \in 1..Len(phi.fns) /\ c \in DOMAIN phi.fns[n] /\ c \in DOMAIN got.be.fns[n]
    BY <1>2, <1>3, <1>5, <1>7 DEF Continues, Grew
  <2>3. /\ Len(phi.fns[n][c]) <= Len(got.be.fns[n][c])
        /\ \A k \in 1..Len(phi.fns[n][c]) : got.be.fns[n][c][k] = phi.fns[n][c][k]
    BY <1>6, <2>2 DEF Continues, Grew
  <2>4. Len(got.be.fns[n][c]) \in Nat
    BY <1>2, <1>8, <2>2 DEF Ready, Sane, Shape, IsSeq
  <2>5. l + 1 \in 1..l + 1
    BY <1>3
  <2>6. l + 1 \in 1..Len(got.be.fns[n][c])
    BY <1>3, <2>1, <2>3, <2>4
  <2> QED
    BY <1>3, <2>1, <2>3, <2>4, <2>5, <2>6
<1>10. place.index = l + 1
  BY <1>3 DEF InsAt
<1>11. /\ Shape(g) /\ SameTables(got.be, g) /\ g.locals = table
       /\ Len(g.fns) = n
       /\ \A m \in 1..n : DOMAIN g.fns[m] = DOMAIN got.be.fns[m]
       /\ \A m \in 1..n : m # n => g.fns[m] = got.be.fns[m]
       /\ \A b \in DOMAIN got.be.fns[n] : b # c => g.fns[n][b] = got.be.fns[n][b]
       /\ Len(BlockOf(g, be.at)) = Len(BlockOf(got.be, be.at))
       /\ \A k \in 1..Len(BlockOf(got.be, be.at)) :
            BlockOf(g, be.at)[k] = IF k = l + 1
                                   THEN [BlockOf(got.be, be.at)[l + 1] EXCEPT !.args = incoming]
                                   ELSE BlockOf(got.be, be.at)[k]
  <2>1. g = [got.be EXCEPT !.fns[be.at[1]][be.at[2]][l + 1].args = incoming, !.locals = table]
    BY <1>10
  <2>2. Shape(got.be) /\ be.at[2] = c
    BY <1>2, <1>8 DEF Ready, Sane
  <2> HIDE DEF g, table, incoming
  <2>3. Rewritten(got.be, g, be.at, l + 1, incoming, table)
    BY <1>8, <1>9, <2>1, <2>2, Rewriting
  <2> QED
    BY <1>8, <2>2, <2>3 DEF Rewritten
<1> HIDE DEF g
<1>12. OwnTable(g)
  <2>1. OwnTable(got.be)
    BY <1>8 DEF Ready, Sane
  <2>2. /\ \A k \in DOMAIN got.be.locals : table[k] = got.be.locals[k]
        /\ \A k \in DOMAIN table : table[k] = place \/ k \in DOMAIN got.be.locals
    BY DEF Emplace
  <2> HIDE DEF table
  <2> QED
    BY <1>3, <1>8, <1>11, <2>1, <2>2 DEF OwnTable
<1> HIDE DEF table
<1> DEFINE ins == [op |-> "phi", args |-> incoming]
<1>13. OwnUses(ins, n)
  <2>1. Uses(ins) = [k \in DOMAIN incoming |-> incoming[k][2]]
    BY DEF Uses
  <2>2. \A k \in DOMAIN incoming : k \in 1..Len(i.args) /\ incoming[k][2] = got.vals[k]
    BY <1>4
  <2> HIDE DEF ins, incoming
  <2> QED
    BY <1>6, <2>1, <2>2 DEF OwnUses, OwnValues, Range
<1>14. [BlockOf(got.be, be.at)[l + 1] EXCEPT !.args = incoming] = ins
  <2> DEFINE old == BlockOf(got.be, be.at)[l + 1]
  <2>1. old = [op |-> "phi", args |-> <<>>]
    BY <1>9
  <2> HIDE DEF old, incoming
  <2>2. [old EXCEPT !.args = incoming] = ins
    BY <2>1
  <2> QED
    BY <2>2 DEF old
<1> HIDE DEF ins, incoming
<1>15. BlockOf(g, be.at) = g.fns[n][c] /\ BlockOf(got.be, be.at) = got.be.fns[n][c]
  BY <1>2 DEF BlockOf
<1>16. Owned(g)
  <2> SUFFICES ASSUME NEW m \in 1..Len(g.fns), NEW b \in DOMAIN g.fns[m],
                      NEW k \in 1..Len(g.fns[m][b])
               PROVE  OwnUses(g.fns[m][b][k], m)
    BY DEF Owned
  <2>1. m \in 1..n /\ b \in DOMAIN got.be.fns[m]
    BY <1>11
  <2>2. CASE m = n /\ b = c /\ k = l + 1
    BY <1>9, <1>11, <1>13, <1>14, <1>15, <2>2
  <2>3. CASE ~(m = n /\ b = c /\ k = l + 1)
    <3>1. k \in 1..Len(got.be.fns[m][b]) /\ g.fns[m][b][k] = got.be.fns[m][b][k]
      BY <1>11, <1>15, <2>1, <2>3
    <3> QED
      BY <1>8, <2>1, <3>1 DEF Ready, Sane, Owned
  <2> QED
    BY <2>2, <2>3
<1>17. Grew(be, g)
  <2>1. ASSUME NEW m \in 1..Len(be.fns), NEW b \in DOMAIN be.fns[m]
        PROVE  /\ Len(be.fns[m][b]) <= Len(g.fns[m][b])
               /\ \A k \in 1..Len(be.fns[m][b]) : g.fns[m][b][k] = be.fns[m][b][k]
    <3>1. /\ Len(be.fns[m][b]) <= Len(got.be.fns[m][b]) /\ b \in DOMAIN got.be.fns[m]
          /\ \A k \in 1..Len(be.fns[m][b]) : got.be.fns[m][b][k] = be.fns[m][b][k]
      BY <1>7 DEF Continues, Grew
    <3>2. CASE m = n /\ b = c
      <4>1. Len(be.fns[m][b]) = l /\ Len(g.fns[m][b]) = Len(got.be.fns[m][b])
        <5>1. BlockOf(be, be.at) = be.fns[n][c]
          BY <1>2 DEF BlockOf
        <5> QED
          BY <1>11, <1>15, <3>2, <5>1 DEF l
      <4>2. \A k \in 1..l : k # l + 1 /\ k \in 1..Len(got.be.fns[m][b])
        BY <1>3, <1>9, <1>15, <3>1, <3>2, <4>1
      <4> QED
        BY <1>11, <1>15, <3>1, <3>2, <4>1, <4>2
    <3>3. CASE ~(m = n /\ b = c)
      <4>1. g.fns[m][b] = got.be.fns[m][b]
        BY <1>11, <3>1, <3>3
      <4> QED
        BY <3>1, <4>1
    <3> QED
      BY <3>2, <3>3
  <2>2. SameTables(be, g)
    BY <1>7, <1>11 DEF SameTables, Continues, Grew
  <2>3. \A m \in 1..Len(be.fns) :
          DOMAIN g.fns[m] = DOMAIN be.fns[m] /\ (m # Len(be.fns) => g.fns[m] = be.fns[m])
    BY <1>7, <1>11 DEF Continues, Grew
  <2> QED
    BY <1>11, <2>1, <2>2, <2>3 DEF Grew
<1>18. Continues(be, g)
  <2>1. Placed(g, g.at)
    BY <1>17, PlacedKept DEF Ready, Sane, Grew, SameTables
  <2> QED
    BY <1>11, <1>12, <1>16, <1>17, <2>1 DEF Continues, Ready, Sane
<1>19. Continues(be, Failed(be, "bad_variant"))
  BY ReadyFailed, ErrorsAreErrors
<1> QED
  BY <1>1, <1>7, <1>18, <1>19

LEMMA OnInstructionOwn ==
  ASSUME NEW be, Ready(be), NEW i, IsSeq(i.args)
  PROVE  Continues(be, OnInstruction(be, i))
<1>1. Len(i.args) \in Nat
  BY DEF IsSeq
<1>2. Continues(be, be)
  BY ReadyItself
<1>3. CASE i.op \in DOMAIN LlvmOp
  <2>1. OnInstruction(be, i) \in {be, OnBinary(be, i)}
    BY <1>3 DEF OnInstruction, LlvmOp
  <2> QED
    BY <1>1, <1>2, <1>3, <2>1, OnBinaryOwn
<1>4. CASE i.op \notin DOMAIN LlvmOp
  <2>1. OnInstruction(be, i) \in
          {be, OnConst(be, i), OnGreaterEqual(be, i), OnBind(be, i), OnUpdate(be, i),
           OnCondJump(be, i), OnJump(be, i), OnReturn(be, i), OnPhi(be, i)}
    <3> HIDE DEF LlvmOp
    <3> QED
      BY <1>4 DEF OnInstruction
  <2> QED
    BY <1>1, <1>2, <2>1, OnConstOwn, OnGreaterEqualOwn, OnBindOwn, OnUpdateOwn,
       OnCondJumpOwn, OnJumpOwn, OnReturnOwn, OnPhiOwn
<1> QED
  BY <1>3, <1>4

LEMMA OnBlockOwn ==
  ASSUME NEW be, Sane(be), NEW at, Placed(be, at),
         NEW block, IsSeq(block), \A k \in 1..Len(block) : IsSeq(block[k].args)
  PROVE  LET f == OnBlock(be, block, at)
         IN  Ready(f) /\ Grew([be EXCEPT !.at = at], f)
<1> DEFINE z == [be EXCEPT !.at = at]
           n == Len(block)
<1>1. n \in Nat
  BY DEF IsSeq
<1>2. PICK turn : /\ turn[0] = z
                  /\ \A k \in 1..n : turn[k] = LET acc == turn[k - 1] IN OnInstruction(acc, block[k])
                  /\ OnBlock(be, block, at) = turn[n]
  BY <1>1, BlockTurns
<1>3. Ready(z)
  <2>1. IsBackend(z) /\ z.fns = be.fns /\ z.locals = be.locals /\ z.at = at /\ z.error = be.error
    BY DEF Sane, Shape, IsBackend
  <2> HIDE DEF z
  <2>2. Known(z)
    BY <2>1 DEF Sane, Shape, Known
  <2>3. Sane(z)
    BY <2>1, <2>2 DEF Sane, Shape, Owned, OwnTable
  <2> QED
    BY <2>1, <2>3 DEF Ready, Placed
<1> DEFINE T == {k \in 0..n : Continues(z, turn[k])}
<1> HIDE DEF z
<1>4. 0 \in T
  BY <1>1, <1>2, <1>3, ReadyItself
<1>5. ASSUME NEW k \in 1..n, k - 1 \in T
      PROVE  k \in T
  <2>1. Continues(z, turn[k - 1]) /\ Ready(turn[k - 1]) /\ k \in 0..n
    BY <1>1, <1>5 DEF Continues
  <2>2. turn[k] = OnInstruction(turn[k - 1], block[k]) /\ IsSeq(block[k].args)
    BY <1>2
  <2>3. Continues(turn[k - 1], turn[k])
    BY <2>1, <2>2, OnInstructionOwn
  <2>4. Continues(z, turn[k])
    BY <1>3, <2>1, <2>3, ReadyChained
  <2> QED
    BY <2>1, <2>4
<1> HIDE DEF T, n
<1>6. \A k \in 0..n : k \in T
  BY <1>1, <1>4, <1>5, Upwards
<1>7. Continues(z, turn[n])
  BY <1>1, <1>6 DEF T
<1> QED
  BY <1>2, <1>7 DEF Continues, z

\* The locals that are allocated, and how; and the blocks of function j.
AllocatedOf(f) == {k \in LocalsOf(f) : \A j \in ForeignLocals(f) : k < j}
AddAlloca(be, f, k) ==
  LET res == Instructions(f)[k].res
      put == PutAt(be, be.entry, "alloca", <<TypesOf(f)[res]>>)
  IN  [put EXCEPT !.locals = Emplace(@, res, Newest(put, put.entry))]
BodyOf(be, f, j) ==
  Loop(LAMBDA acc, b : OnBlock(acc, f.blocks[b], acc.bblocks[<<j, b>>]), Len(f.blocks), be)

\* The turns in which the code of the blocks is put together,
LEMMA InstructionsTurns ==
  ASSUME NEW f, Len(f.blocks) \in Nat
  PROVE  \E turn : /\ turn[0] = <<>>
                   /\ \A k \in 1..Len(f.blocks) :
                        turn[k] = LET all == turn[k - 1] IN all \o f.blocks[k]
                   /\ Instructions(f) = turn[Len(f.blocks)]
<1> DEFINE n == Len(f.blocks)
           z == <<>>
           Turn(all, k) == all \o f.blocks[k]
           Solves(w) == w = [k \in 0..n |-> IF k = 0 THEN z ELSE Turn(w[k - 1], k)]
           T == {m \in 0..n : \E b : b[0] = z /\ \A k \in 1..m : b[k] = Turn(b[k - 1], k)}
           turns == CHOOSE w : Solves(w)
<1>1. Instructions(f) = turns[n]
  BY DEF Instructions, Loop
<1>2. n \in Nat
  OBVIOUS
<1> HIDE DEF n, z, Turn
<1>3. 0 \in T
  <2> DEFINE b == [k \in {0} |-> z]
  <2>1. b[0] = z
    OBVIOUS
  <2> HIDE DEF b
  <2> QED
    BY <1>2, <2>1
<1>4. ASSUME NEW m \in 1..n, m - 1 \in T
      PROVE  m \in T
  <2>1. PICK b : b[0] = z /\ \A k \in 1..m - 1 : b[k] = Turn(b[k - 1], k)
    BY <1>4
  <2> DEFINE c == [k \in 0..m |-> IF k = m THEN Turn(b[m - 1], m) ELSE b[k]]
  <2>2. m \in 0..n /\ m # 0
    BY <1>2
  <2>3. \A k \in 0..m - 1 : k \in 0..m /\ c[k] = b[k]
    BY <1>2
  <2>4. c[m] = Turn(b[m - 1], m)
    BY <1>2
  <2> HIDE DEF c
  <2>5. \A k \in 1..m : c[k] = Turn(c[k - 1], k)
    <3>1. \A k \in 1..m : k - 1 \in 0..m - 1 /\ (k = m \/ (k \in 1..m - 1 /\ k \in 0..m - 1))
      BY <1>2
    <3> QED
      BY <2>1, <2>3, <2>4, <3>1
  <2>6. c[0] = z
    BY <1>2, <2>1, <2>3
  <2> QED
    BY <2>2, <2>5, <2>6
<1>5. PICK b : b[0] = z /\ \A k \in 1..n : b[k] = Turn(b[k - 1], k)
  <2> HIDE DEF T
  <2>1. \A m \in 0..n : m \in T
    BY <1>2, <1>3, <1>4, Upwards
  <2>2. n \in 0..n
    BY <1>2
  <2>3. n \in T
    BY <2>1, <2>2
  <2> QED
    BY <2>3 DEF T
<1> DEFINE w == [k \in 0..n |-> b[k]]
<1>6. \A k \in 0..n : w[k] = IF k = 0 THEN z ELSE Turn(w[k - 1], k)
  <2>1. \A k \in 0..n : k = 0 \/ (k \in 1..n /\ k - 1 \in 0..n)
    BY <1>2
  <2> QED
    BY <1>5, <2>1
<1>7. Solves(w)
  <2>1. w = [k \in 0..n |-> w[k]]
    OBVIOUS
  <2> HIDE DEF w
  <2> QED
    BY <1>6, <2>1
<1>8. Solves(turns)
  <2> HIDE DEF Solves
  <2> QED
    BY <1>7
<1> HIDE DEF turns
<1>9. turns[0] = z /\ \A k \in 1..n : turns[k] = Turn(turns[k - 1], k)
  <2>1. \A k \in 0..n : turns[k] = IF k = 0 THEN z ELSE Turn(turns[k - 1], k)
    BY <1>8
  <2>2. 0 \in 0..n /\ \A k \in 1..n : k \in 0..n /\ k # 0
    BY <1>2
  <2> HIDE DEF Solves
  <2> QED
    BY <2>1, <2>2
<1> HIDE DEF Solves
<1> QED
  BY <1>1, <1>9 DEF n, z, Turn

\* memory is allocated,
LEMMA AllocateTurns ==
  ASSUME NEW be, NEW f, Len(Instructions(f)) \in Nat
  PROVE  \E turn : /\ turn[0] = be
                   /\ \A k \in 1..Len(Instructions(f)) :
                        turn[k] = LET acc == turn[k - 1] IN IF k \in AllocatedOf(f) THEN AddAlloca(acc, f, k) ELSE acc
                   /\ Allocate(be, f) = turn[Len(Instructions(f))]
<1> DEFINE n == Len(Instructions(f))
           z == be
           Turn(acc, k) == IF k \in AllocatedOf(f) THEN AddAlloca(acc, f, k) ELSE acc
           Solves(w) == w = [k \in 0..n |-> IF k = 0 THEN z ELSE Turn(w[k - 1], k)]
           T == {m \in 0..n : \E b : b[0] = z /\ \A k \in 1..m : b[k] = Turn(b[k - 1], k)}
           turns == CHOOSE w : Solves(w)
<1>1. Allocate(be, f) = turns[n]
  BY DEF Allocate, Loop, AddAlloca, AllocatedOf
<1>2. n \in Nat
  OBVIOUS
<1> HIDE DEF n, z, Turn
<1>3. 0 \in T
  <2> DEFINE b == [k \in {0} |-> z]
  <2>1. b[0] = z
    OBVIOUS
  <2> HIDE DEF b
  <2> QED
    BY <1>2, <2>1
<1>4. ASSUME NEW m \in 1..n, m - 1 \in T
      PROVE  m \in T
  <2>1. PICK b : b[0] = z /\ \A k \in 1..m - 1 : b[k] = Turn(b[k - 1], k)
    BY <1>4
  <2> DEFINE c == [k \in 0..m |-> IF k = m THEN Turn(b[m - 1], m) ELSE b[k]]
  <2>2. m \in 0..n /\ m # 0
    BY <1>2
  <2>3. \A k \in 0..m - 1 : k \in 0..m /\ c[k] = b[k]
    BY <1>2
  <2>4. c[m] = Turn(b[m - 1], m)
    BY <1>2
  <2> HIDE DEF c
  <2>5. \A k \in 1..m : c[k] = Turn(c[k - 1], k)
    <3>1. \A k \in 1..m : k - 1 \in 0..m - 1 /\ (k = m \/ (k \in 1..m - 1 /\ k \in 0..m - 1))
      BY <1>2
    <3> QED
      BY <2>1, <2>3, <2>4, <3>1
  <2>6. c[0] = z
    BY <1>2, <2>1, <2>3
  <2> QED
    BY <2>2, <2>5, <2>6
<1>5. PICK b : b[0] = z /\ \A k \in 1..n : b[k] = Turn(b[k - 1], k)
  <2> HIDE DEF T
  <2>1. \A m \in 0..n : m \in T
    BY <1>2, <1>3, <1>4, Upwards
  <2>2. n \in 0..n
    BY <1>2
  <2>3. n \in T
    BY <2>1, <2>2
  <2> QED
    BY <2>3 DEF T
<1> DEFINE w == [k \in 0..n |-> b[k]]
<1>6. \A k \in 0..n : w[k] = IF k = 0 THEN z ELSE Turn(w[k - 1], k)
  <2>1. \A k \in 0..n : k = 0 \/ (k \in 1..n /\ k - 1 \in 0..n)
    BY <1>2
  <2> QED
    BY <1>5, <2>1
<1>7. Solves(w)
  <2>1. w = [k \in 0..n |-> w[k]]
    OBVIOUS
  <2> HIDE DEF w
  <2> QED
    BY <1>6, <2>1
<1>8. Solves(turns)
  <2> HIDE DEF Solves
  <2> QED
    BY <1>7
<1> HIDE DEF turns
<1>9. turns[0] = z /\ \A k \in 1..n : turns[k] = Turn(turns[k - 1], k)
  <2>1. \A k \in 0..n : turns[k] = IF k = 0 THEN z ELSE Turn(turns[k - 1], k)
    BY <1>8
  <2>2. 0 \in 0..n /\ \A k \in 1..n : k \in 0..n /\ k # 0
    BY <1>2
  <2> HIDE DEF Solves
  <2> QED
    BY <2>1, <2>2
<1> HIDE DEF Solves
<1> QED
  BY <1>1, <1>9 DEF n, z, Turn

\* and the blocks of a function are translated.
LEMMA BodyTurns ==
  ASSUME NEW be, NEW f, NEW j, Len(f.blocks) \in Nat
  PROVE  \E turn : /\ turn[0] = be
                   /\ \A k \in 1..Len(f.blocks) :
                        turn[k] = LET acc == turn[k - 1] IN OnBlock(acc, f.blocks[k], acc.bblocks[<<j, k>>])
                   /\ BodyOf(be, f, j) = turn[Len(f.blocks)]
<1> DEFINE n == Len(f.blocks)
           z == be
           Turn(acc, k) == OnBlock(acc, f.blocks[k], acc.bblocks[<<j, k>>])
           Solves(w) == w = [k \in 0..n |-> IF k = 0 THEN z ELSE Turn(w[k - 1], k)]
           T == {m \in 0..n : \E b : b[0] = z /\ \A k \in 1..m : b[k] = Turn(b[k - 1], k)}
           turns == CHOOSE w : Solves(w)
<1>1. BodyOf(be, f, j) = turns[n]
  BY DEF BodyOf, Loop
<1>2. n \in Nat
  OBVIOUS
<1> HIDE DEF n, z, Turn
<1>3. 0 \in T
  <2> DEFINE b == [k \in {0} |-> z]
  <2>1. b[0] = z
    OBVIOUS
  <2> HIDE DEF b
  <2> QED
    BY <1>2, <2>1
<1>4. ASSUME NEW m \in 1..n, m - 1 \in T
      PROVE  m \in T
  <2>1. PICK b : b[0] = z /\ \A k \in 1..m - 1 : b[k] = Turn(b[k - 1], k)
    BY <1>4
  <2> DEFINE c == [k \in 0..m |-> IF k = m THEN Turn(b[m - 1], m) ELSE b[k]]
  <2>2. m \in 0..n /\ m # 0
    BY <1>2
  <2>3. \A k \in 0..m - 1 : k \in 0..m /\ c[k] = b[k]
    BY <1>2
  <2>4. c[m] = Turn(b[m - 1], m)
    BY <1>2
  <2> HIDE DEF c
  <2>5. \A k \in 1..m : c[k] = Turn(c[k - 1], k)
    <3>1. \A k \in 1..m : k - 1 \in 0..m - 1 /\ (k = m \/ (k \in 1..m - 1 /\ k \in 0..m - 1))
      BY <1>2
    <3> QED
      BY <2>1, <2>3, <2>4, <3>1
  <2>6. c[0] = z
    BY <1>2, <2>1, <2>3
  <2> QED
    BY <2>2, <2>5, <2>6
<1>5. PICK b : b[0] = z /\ \A k \in 1..n : b[k] = Turn(b[k - 1], k)
  <2> HIDE DEF T
  <2>1. \A m \in 0..n : m \in T
    BY <1>2, <1>3, <1>4, Upwards
  <2>2. n \in 0..n
    BY <1>2
  <2>3. n \in T
    BY <2>1, <2>2
  <2> QED
    BY <2>3 DEF T
<1> DEFINE w == [k \in 0..n |-> b[k]]
<1>6. \A k \in 0..n : w[k] = IF k = 0 THEN z ELSE Turn(w[k - 1], k)
  <2>1. \A k \in 0..n : k = 0 \/ (k \in 1..n /\ k - 1 \in 0..n)
    BY <1>2
  <2> QED
    BY <1>5, <2>1
<1>7. Solves(w)
  <2>1. w = [k \in 0..n |-> w[k]]
    OBVIOUS
  <2> HIDE DEF w
  <2> QED
    BY <1>6, <2>1
<1>8. Solves(turns)
  <2> HIDE DEF Solves
  <2> QED
    BY <1>7
<1> HIDE DEF turns
<1>9. turns[0] = z /\ \A k \in 1..n : turns[k] = Turn(turns[k - 1], k)
  <2>1. \A k \in 0..n : turns[k] = IF k = 0 THEN z ELSE Turn(turns[k - 1], k)
    BY <1>8
  <2>2. 0 \in 0..n /\ \A k \in 1..n : k \in 0..n /\ k # 0
    BY <1>2
  <2> HIDE DEF Solves
  <2> QED
    BY <2>1, <2>2
<1> HIDE DEF Solves
<1> QED
  BY <1>1, <1>9 DEF n, z, Turn

-----------------------------------------------------------------------------
(* Functions.  A complete function has the code of a factory that is sound.  *)

CodeOf(f) ==
  \E m, x : Sound(m, x) /\ 1 <= Len(m.blocks) /\ f.blocks = m.blocks /\ f.params = m.params

LEMMA CodeShape ==
  ASSUME NEW f, CodeOf(f)
  PROVE  /\ f.blocks \in Seq(Seq(Instruction)) /\ f.params \in SUBSET Nat
         /\ IsSeq(f.blocks) /\ 1 <= Len(f.blocks) /\ Len(f.blocks) \in Nat
         /\ DOMAIN f.blocks = 1..Len(f.blocks)
         /\ \A b \in 1..Len(f.blocks) :
              /\ f.blocks[b] \in Seq(Instruction) /\ IsSeq(f.blocks[b])
              /\ \A k \in 1..Len(f.blocks[b]) : IsSeq(f.blocks[b][k].args)
<1>1. f.blocks \in Seq(Seq(Instruction)) /\ f.params \in SUBSET Nat /\ 1 <= Len(f.blocks)
  BY DEF CodeOf, Sound, Factory
<1>2. IsSeq(f.blocks) /\ Len(f.blocks) \in Nat /\ DOMAIN f.blocks = 1..Len(f.blocks)
  BY <1>1 DEF IsSeq
<1>3. ASSUME NEW b \in 1..Len(f.blocks)
      PROVE  /\ f.blocks[b] \in Seq(Instruction) /\ IsSeq(f.blocks[b])
             /\ \A k \in 1..Len(f.blocks[b]) : IsSeq(f.blocks[b][k].args)
  <2>1. f.blocks[b] \in Seq(Instruction)
    BY <1>1
  <2>2. IsSeq(f.blocks[b])
    BY <2>1 DEF IsSeq
  <2>3. ASSUME NEW k \in 1..Len(f.blocks[b])
        PROVE  IsSeq(f.blocks[b][k].args)
    <3>1. f.blocks[b][k] \in Instruction
      BY <2>1
    <3>2. f.blocks[b][k].args \in Seq(Argument)
      BY <3>1 DEF Instruction
    <3> QED
      BY <3>2 DEF IsSeq
  <2> QED
    BY <2>1, <2>2, <2>3
<1> QED
  BY <1>1, <1>2, <1>3

LEMMA InstructionsShape ==
  ASSUME NEW f, CodeOf(f)
  PROVE  IsSeq(Instructions(f))
<1> DEFINE n == Len(f.blocks)
<1>1. n \in Nat /\ \A b \in 1..n : IsSeq(f.blocks[b])
  BY CodeShape
<1>2. PICK turn : /\ turn[0] = <<>>
                  /\ \A k \in 1..n : turn[k] = LET all == turn[k - 1] IN all \o f.blocks[k]
                  /\ Instructions(f) = turn[n]
  BY <1>1, InstructionsTurns
<1> DEFINE T == {k \in 0..n : IsSeq(turn[k])}
<1>3. 0 \in T
  BY <1>1, <1>2 DEF IsSeq
<1>4. ASSUME NEW k \in 1..n, k - 1 \in T
      PROVE  k \in T
  <2>1. IsSeq(turn[k - 1]) /\ IsSeq(f.blocks[k]) /\ k \in 0..n
    BY <1>1, <1>4
  <2>2. Joined(turn[k], turn[k - 1], f.blocks[k])
    BY <1>2, <2>1, ConcatShape
  <2> QED
    BY <2>1, <2>2 DEF Joined
<1> HIDE DEF T, n
<1>5. \A k \in 0..n : k \in T
  BY <1>1, <1>3, <1>4, Upwards
<1>6. n \in 0..n
  BY <1>1
<1> QED
  BY <1>2, <1>5, <1>6 DEF T

\* The backend between two functions.
Rest(be) ==
  /\ Shape(be) /\ Owned(be)
  /\ be.locals = <<>> /\ be.bblocks = <<>> /\ be.entry = None /\ be.error = ""

\* A function that has been created is empty, and the next one.
Begun(be, g, f, j) ==
  LET n == Len(be.fns) + 1
  IN  /\ Sane(g) /\ g.error = "" /\ g.locals = <<>> /\ Placed(g, g.entry)
      /\ g.names = Append(be.names, j) /\ g.entry = <<n, 1>>
      /\ Len(g.fns) = n
      /\ g.fns[n] = [b \in 1..Len(f.blocks) |-> <<>>]
      /\ \A m \in 1..Len(be.fns) : g.fns[m] = be.fns[m]
      /\ \A b \in 1..Len(f.blocks) : g.bblocks[<<j, b>>] = <<n, b>>

LEMMA EmptySequence ==
  ASSUME NEW s, s = <<>>
  PROVE  DOMAIN s = {} /\ IsSeq(s) /\ Len(s) = 0 /\ 1..Len(s) = {}
BY DEF IsSeq

LEMMA Beginning ==
  ASSUME NEW be, Rest(be), NEW f, CodeOf(f), NEW j
  PROVE  Begun(be, CreateFunction(be, f, j), f, j)
<1> DEFINE n == Len(be.fns) + 1
           fn == [b \in DOMAIN f.blocks |-> <<>>]
           labels == {j} \X DOMAIN f.blocks
           fns == Append(be.fns, fn)
           names == Append(be.names, j)
           bb == [l \in DOMAIN be.bblocks \cup labels |->
                    IF l \in DOMAIN be.bblocks THEN be.bblocks[l] ELSE <<n, l[2]>>]
           entry == IF be.entry = None THEN <<n, 1>> ELSE be.entry
           g == [be EXCEPT !.fns = fns, !.names = names, !.bblocks = bb, !.entry = entry]
<1>1. CreateFunction(be, f, j) = g
  BY DEF CreateFunction
<1>2. /\ DOMAIN f.blocks = 1..Len(f.blocks) /\ Len(f.blocks) \in Nat /\ 1 <= Len(f.blocks)
  BY CodeShape
<1>3. IsSeq(be.fns) /\ IsBackend(be) /\ Len(be.fns) \in Nat
  BY DEF Rest, Shape, IsSeq
<1>4. /\ IsSeq(fns) /\ Len(fns) = n
      /\ \A i \in 1..n : fns[i] = IF i = n THEN fn ELSE be.fns[i]
  BY <1>3, AppendShape
<1>5. entry = <<n, 1>>
  BY DEF Rest
<1>6. \A b \in 1..Len(f.blocks) : bb[<<j, b>>] = <<n, b>>
  <2>1. DOMAIN be.bblocks = {}
    BY EmptySequence DEF Rest
  <2>2. ASSUME NEW b \in 1..Len(f.blocks)
        PROVE  bb[<<j, b>>] = <<n, b>>
    <3>1. <<j, b>> \in labels /\ <<j, b>>[2] = b
      BY <1>2
    <3> HIDE DEF labels, n
    <3> QED
      BY <2>1, <3>1
  <2> QED
    BY <2>2
<1> HIDE DEF bb, entry, names, fns, n
<1>7. /\ g.fns = fns /\ g.names = names /\ g.locals = be.locals /\ g.bblocks = bb
      /\ g.entry = entry /\ g.at = be.at /\ g.error = be.error /\ IsBackend(g)
  <2> DEFINE g1 == [be EXCEPT !.fns = fns]
             g2 == [g1 EXCEPT !.names = names]
             g3 == [g2 EXCEPT !.bblocks = bb]
  <2>1. g = [g3 EXCEPT !.entry = entry]
    BY <1>3 DEF IsBackend
  <2> HIDE DEF g
  <2>2. g1.names = be.names /\ IsBackend(g1) /\ g1.fns = fns /\ g1.locals = be.locals
        /\ g1.at = be.at /\ g1.error = be.error
    BY <1>3 DEF IsBackend
  <2> HIDE DEF g1
  <2>3. g2.names = names /\ IsBackend(g2) /\ g2.fns = fns /\ g2.locals = be.locals
        /\ g2.at = be.at /\ g2.error = be.error
    BY <2>2 DEF IsBackend
  <2> HIDE DEF g2
  <2>4. g3.names = names /\ IsBackend(g3) /\ g3.fns = fns /\ g3.locals = be.locals
        /\ g3.bblocks = bb /\ g3.at = be.at /\ g3.error = be.error
    BY <2>3 DEF IsBackend
  <2> HIDE DEF g3
  <2> QED
    BY <2>1, <2>4 DEF IsBackend
<1> HIDE DEF g
<1>8. \A i \in 1..n : (i = n \/ i \in 1..Len(be.fns)) /\ n \in 1..n
  BY <1>3 DEF n
<1>9. \A i \in 1..Len(be.fns) : i # n /\ i \in 1..n
  BY <1>3 DEF n
<1>10. IsSeq(<<>>) /\ Len(<<>>) = 0
  BY DEF IsSeq
<1>11. Shape(g)
  <2>1. ASSUME NEW m \in 1..n, NEW b \in DOMAIN fns[m]
        PROVE  IsSeq(fns[m][b])
    <3>1. CASE m = n
      BY <1>4, <1>10, <3>1
    <3>2. CASE m # n
      BY <1>4, <1>8, <3>2 DEF Rest, Shape
    <3> QED
      BY <3>1, <3>2
  <2>2. Known(g)
    BY <1>7 DEF Rest, Shape, Known
  <2> QED
    BY <1>4, <1>7, <2>1, <2>2 DEF Shape
<1>12. Owned(g)
  <2>1. ASSUME NEW m \in 1..n, NEW b \in DOMAIN fns[m], NEW k \in 1..Len(fns[m][b])
        PROVE  OwnUses(fns[m][b][k], m)
    <3>1. CASE m = n
      BY <1>4, <1>10, <2>1, <3>1
    <3>2. CASE m # n
      BY <1>4, <1>8, <3>2 DEF Rest, Owned
    <3> QED
      BY <3>1, <3>2
  <2> QED
    BY <1>4, <1>7, <2>1 DEF Owned
<1>13. g.locals = <<>> /\ OwnTable(g)
  <2>1. g.locals = <<>> /\ DOMAIN g.locals = {}
    BY <1>7, EmptySequence DEF Rest
  <2> QED
    BY <2>1 DEF OwnTable
<1>14. fns[n] = [b \in 1..Len(f.blocks) |-> <<>>] /\ \A m \in 1..Len(be.fns) : fns[m] = be.fns[m]
  <2>1. fn = [b \in 1..Len(f.blocks) |-> <<>>]
    BY <1>2
  <2>2. n \in 1..n
    BY <1>3 DEF n
  <2> HIDE DEF fn
  <2> QED
    BY <1>4, <1>9, <2>1, <2>2
<1>15. Placed(g, g.entry)
  <2>1. 1 \in DOMAIN fns[n]
    BY <1>2, <1>14
  <2>2. n \in 1..n
    BY <1>3 DEF n
  <2>3. g.entry = <<n, 1>> /\ g.fns = fns /\ Len(fns) = n
    BY <1>4, <1>5, <1>7
  <2> QED
    BY <2>1, <2>2, <2>3 DEF Placed
<1>16. g.error = ""
  BY <1>7 DEF Rest
<1> HIDE DEF fn
<1>17. Begun(be, g, f, j)
  BY <1>4, <1>5, <1>6, <1>7, <1>11, <1>12, <1>13, <1>14, <1>15, <1>16
  DEF Begun, Sane, n, names
<1> QED
  BY <1>1, <1>17

LEMMA AddAllocaOwn ==
  ASSUME NEW be, Sane(be), Placed(be, be.entry), NEW f, NEW k
  PROVE  LET g == AddAlloca(be, f, k)
         IN  Sane(g) /\ Grew(be, g) /\ g.error = be.error
<1> DEFINE res == Instructions(f)[k].res
           args == <<TypesOf(f)[res]>>
           put == PutAt(be, be.entry, "alloca", args)
           g == [put EXCEPT !.locals = Emplace(@, res, Newest(put, put.entry))]
<1>1. AddAlloca(be, f, k) = g
  BY DEF AddAlloca
<1> HIDE DEF args, res
<1>2. OwnUses([op |-> "alloca", args |-> args], Len(be.fns))
  BY DEF OwnUses, Uses, Range
<1>3. /\ Sane(put) /\ Grew(be, put) /\ put.error = be.error
      /\ Own(Newest(put, be.entry), Len(be.fns))
  BY <1>2, SanePut
<1> HIDE DEF put
<1>4. put.entry = be.entry /\ Len(put.fns) = Len(be.fns)
  BY <1>3 DEF Grew, SameTables
<1>5. Sane(g) /\ Grew(put, g) /\ g.error = put.error
  BY <1>3, <1>4, SaneLocal
<1> HIDE DEF g
<1>6. Grew(be, g)
  BY <1>3, <1>5, GrewChained DEF Sane
<1> QED
  BY <1>1, <1>3, <1>5, <1>6

LEMMA AllocateOwn ==
  ASSUME NEW be, Sane(be), Placed(be, be.entry), NEW f, CodeOf(f)
  PROVE  LET g == Allocate(be, f)
         IN  Sane(g) /\ Grew(be, g) /\ g.error = be.error
<1> DEFINE n == Len(Instructions(f))
           Fine(g) == Sane(g) /\ Grew(be, g) /\ g.error = be.error
<1>1. n \in Nat
  BY InstructionsShape DEF IsSeq
<1>2. PICK turn : /\ turn[0] = be
                  /\ \A k \in 1..n : turn[k] = LET acc == turn[k - 1] IN
                       IF k \in AllocatedOf(f) THEN AddAlloca(acc, f, k) ELSE acc
                  /\ Allocate(be, f) = turn[n]
  BY <1>1, AllocateTurns
<1> DEFINE T == {k \in 0..n : Fine(turn[k])}
<1> HIDE DEF n
<1>3. 0 \in T
  BY <1>1, <1>2, GrewItself DEF Sane
<1>4. ASSUME NEW k \in 1..n, k - 1 \in T
      PROVE  k \in T
  <2>1. Fine(turn[k - 1]) /\ k \in 0..n
    BY <1>1, <1>4
  <2>2. turn[k] = IF k \in AllocatedOf(f) THEN AddAlloca(turn[k - 1], f, k) ELSE turn[k - 1]
    BY <1>2
  <2>3. Placed(turn[k - 1], turn[k - 1].entry)
    BY <2>1, PlacedKept DEF Grew, SameTables
  <2> DEFINE h == AddAlloca(turn[k - 1], f, k)
  <2>4. Sane(h) /\ Grew(turn[k - 1], h) /\ h.error = turn[k - 1].error
    BY <2>1, <2>3, AddAllocaOwn
  <2> HIDE DEF h
  <2>5. Grew(be, h)
    BY <2>1, <2>4, GrewChained DEF Sane
  <2>6. Fine(h)
    BY <2>1, <2>4, <2>5
  <2> QED
    BY <2>1, <2>2, <2>6 DEF h
<1> HIDE DEF T
<1>5. \A k \in 0..n : k \in T
  BY <1>1, <1>3, <1>4, Upwards
<1>6. n \in 0..n
  BY <1>1
<1>7. Fine(turn[n])
  BY <1>5, <1>6 DEF T
<1> QED
  BY <1>2, <1>7

\* What translating blocks leaves as it is.
SameFrame(be, g) ==
  /\ g.bblocks = be.bblocks /\ g.names = be.names /\ Len(g.fns) = Len(be.fns)
  /\ \A m \in 1..Len(be.fns) : DOMAIN g.fns[m] = DOMAIN be.fns[m]

LEMMA OnBlockFrame ==
  ASSUME NEW be, Sane(be), NEW at, Placed(be, at),
         NEW block, IsSeq(block), \A k \in 1..Len(block) : IsSeq(block[k].args)
  PROVE  LET f == OnBlock(be, block, at)
         IN  Sane(f) /\ SameFrame(be, f)
<1> DEFINE f == OnBlock(be, block, at)
           z == [be EXCEPT !.at = at]
<1>1. Ready(f) /\ Grew(z, f)
  BY OnBlockOwn
<1>2. z.fns = be.fns /\ z.names = be.names /\ z.bblocks = be.bblocks
  BY DEF Sane, Shape, IsBackend
<1> HIDE DEF f, z
<1>3. SameFrame(be, f)
  BY <1>1, <1>2 DEF Grew, SameTables, SameFrame
<1> QED
  BY <1>1, <1>3 DEF Ready, f

LEMMA BodyOwn ==
  ASSUME NEW be, Sane(be), NEW f, CodeOf(f), NEW j,
         \A b \in 1..Len(f.blocks) : Placed(be, be.bblocks[<<j, b>>])
  PROVE  LET g == BodyOf(be, f, j)
         IN  Sane(g) /\ SameFrame(be, g)
<1> DEFINE n == Len(f.blocks)
           Fine(g) == Sane(g) /\ SameFrame(be, g)
<1>1. n \in Nat
  BY CodeShape
<1>2. PICK turn : /\ turn[0] = be
                  /\ \A k \in 1..n : turn[k] = LET acc == turn[k - 1] IN
                       OnBlock(acc, f.blocks[k], acc.bblocks[<<j, k>>])
                  /\ BodyOf(be, f, j) = turn[n]
  BY <1>1, BodyTurns
<1> DEFINE T == {k \in 0..n : Fine(turn[k])}
<1>3. 0 \in T
  BY <1>1, <1>2 DEF SameFrame
<1>4. ASSUME NEW k \in 1..n, k - 1 \in T
      PROVE  k \in T
  <2> DEFINE acc == turn[k - 1]
             at == acc.bblocks[<<j, k>>]
  <2>1. Sane(acc) /\ SameFrame(be, acc) /\ k \in 0..n
    BY <1>1, <1>4
  <2>2. turn[k] = OnBlock(acc, f.blocks[k], at)
    BY <1>2
  <2> HIDE DEF acc
  <2>3. Placed(acc, at)
    <3>1. at = be.bblocks[<<j, k>>]
      BY <2>1 DEF SameFrame
    <3>2. Placed(be, at)
      BY <3>1
    <3> QED
      BY <2>1, <3>2 DEF SameFrame, Placed
  <2> HIDE DEF at
  <2>4. IsSeq(f.blocks[k]) /\ \A i \in 1..Len(f.blocks[k]) : IsSeq(f.blocks[k][i].args)
    BY CodeShape
  <2>5. Sane(turn[k]) /\ SameFrame(acc, turn[k])
    BY <2>1, <2>2, <2>3, <2>4, OnBlockFrame
  <2>6. SameFrame(be, turn[k])
    BY <2>1, <2>5 DEF SameFrame
  <2> QED
    BY <2>1, <2>5, <2>6
<1> HIDE DEF T, n
<1>5. \A k \in 0..n : k \in T
  BY <1>1, <1>3, <1>4, Upwards
<1>6. n \in 0..n
  BY <1>1
<1> QED
  BY <1>2, <1>5, <1>6 DEF T

LEMMA Cleaned ==
  ASSUME NEW be, Sane(be)
  PROVE  LET g == CleanUp(be) IN (be.error = "" => Rest(g)) /\ g.fns = be.fns /\ g.names = be.names
<1> DEFINE nothing == <<>>
           g1 == [be EXCEPT !.locals = nothing]
           g2 == [g1 EXCEPT !.bblocks = nothing]
           g == CleanUp(be)
<1>1. g = [g2 EXCEPT !.entry = None]
  BY DEF CleanUp, Sane, Shape, IsBackend
<1> HIDE DEF g, nothing
<1>2. /\ IsBackend(g1) /\ g1.fns = be.fns /\ g1.names = be.names /\ g1.locals = nothing
      /\ g1.error = be.error
  BY DEF Sane, Shape, IsBackend
<1> HIDE DEF g1
<1>3. /\ IsBackend(g2) /\ g2.fns = be.fns /\ g2.names = be.names /\ g2.locals = nothing
      /\ g2.bblocks = nothing /\ g2.error = be.error
  BY <1>2 DEF IsBackend
<1> HIDE DEF g2
<1>4. /\ IsBackend(g) /\ g.fns = be.fns /\ g.names = be.names /\ g.locals = nothing
      /\ g.bblocks = nothing /\ g.entry = None /\ g.error = be.error
  BY <1>1, <1>3 DEF IsBackend
<1>5. Known(g)
  BY <1>4 DEF Sane, Shape, Known
<1>6. Shape(g) /\ Owned(g)
  BY <1>4, <1>5 DEF Sane, Shape, Owned
<1> QED
  BY <1>4, <1>6 DEF g, nothing, Rest

\* on_function for a function that is not given up.
LEMMA OnFunctionOwn ==
  ASSUME NEW be, Rest(be), NEW f, CodeOf(f), NEW j, f.native => ~Cancelled(f)
  PROVE  LET g == OnFunction(be, f, j)
         IN  Shape(g) /\ Owned(g) /\ (g.error = "" => Rest(g))
<1> DEFINE new == CreateFunction(be, f, j)
           ready == Allocate(new, f)
           body == BodyOf(ready, f, j)
<1>1. OnFunction(be, f, j) = IF ~f.native THEN be
                             ELSE IF Cancelled(f) THEN ready
                             ELSE IF body.error # "" THEN body
                             ELSE CleanUp(body)
  BY DEF OnFunction, BodyOf
<1>2. Begun(be, new, f, j)
  BY Beginning
<1> HIDE DEF new
<1>3. Sane(ready) /\ Grew(new, ready)
  BY <1>2, AllocateOwn DEF Begun
<1> HIDE DEF ready
<1>4. \A b \in 1..Len(f.blocks) : Placed(ready, ready.bblocks[<<j, b>>])
  <2> SUFFICES ASSUME NEW b \in 1..Len(f.blocks)
               PROVE  Placed(ready, ready.bblocks[<<j, b>>])
    OBVIOUS
  <2>1. ready.bblocks[<<j, b>>] = <<Len(be.fns) + 1, b>> /\ Len(new.fns) = Len(be.fns) + 1
    BY <1>2, <1>3 DEF Begun, Grew, SameTables
  <2>2. b \in DOMAIN new.fns[Len(new.fns)]
    BY <1>2 DEF Begun
  <2>3. Len(new.fns) \in 1..Len(new.fns)
    BY <1>2 DEF Begun, Placed
  <2>4. Placed(new, ready.bblocks[<<j, b>>])
    BY <2>1, <2>2, <2>3 DEF Placed
  <2> QED
    BY <1>3, <2>4, PlacedKept
<1>5. Sane(body)
  BY <1>3, <1>4, BodyOwn
<1> HIDE DEF body
<1>6. body.error = "" => Rest(CleanUp(body))
  BY <1>5, Cleaned
<1> QED
  BY <1>1, <1>5, <1>6 DEF Rest, Sane

-----------------------------------------------------------------------------
(* The phases.  The builder goes on as it does by itself.                   *)

\* The backend takes no step of the builder: whatever it does to the functions that
\* are complete, the module is built as MirBuilder says.
THEOREM BuildsAsBuilder == LlvmSpec => Spec
<1>1. LlvmInit => Init
  BY DEF LlvmInit
<1>2. [LlvmNext]_allVars => [Next]_vars
  BY DEF LlvmNext, Build, Visit, Verify, allVars, llvmVars
<1> QED
  BY <1>1, <1>2, PTL DEF LlvmSpec, Spec

NoneGivenUp(n) == \A k \in 1..n : functions[k].native => ~Cancelled(functions[k])

\* Functions are sound code, and the backend is at rest between two of them unless one
\* was given up.
LlvmInv ==
  /\ IsSeq(functions) /\ \A k \in 1..Len(functions) : CodeOf(functions[k])
  /\ done \in 0..Len(functions)
  /\ NoneGivenUp(done) => /\ Shape(llvm) /\ Owned(llvm)
                          /\ outcome = "running" => Rest(llvm)

LEMMA LlvmStart ==
  ASSUME LlvmInit
  PROVE  LlvmInv
<1>1. IsSeq(<<>>) /\ Len(<<>>) = 0
  BY DEF IsSeq
<1>2. functions = <<>> /\ done = 0
  BY DEF LlvmInit
<1>3. Rest(llvm)
  <2>1. /\ llvm.fns = <<>> /\ llvm.locals = <<>> /\ llvm.bblocks = <<>> /\ llvm.entry = None
        /\ llvm.error = "" /\ IsBackend(llvm)
    BY DEF LlvmInit, NoBackend, IsBackend
  <2>2. Known(llvm)
    BY <2>1 DEF Known
  <2>3. IsSeq(llvm.fns) /\ 1..Len(llvm.fns) = {}
    BY <2>1, EmptySequence
  <2>4. Shape(llvm) /\ Owned(llvm)
    BY <2>1, <2>2, <2>3 DEF Shape, Owned
  <2> QED
    BY <2>1, <2>4 DEF Rest
<1>4. IsSeq(functions) /\ 1..Len(functions) = {} /\ done \in 0..Len(functions)
  BY <1>1, <1>2
<1> QED
  BY <1>3, <1>4 DEF LlvmInv, Rest

LEMMA BuildKeeps ==
  ASSUME LlvmInv, MirInv, Build
  PROVE  LlvmInv'
<1>1. done' = done /\ llvm' = llvm /\ outcome' = outcome
  BY DEF Build
<1>2. CASE functions' = functions
  BY <1>1, <1>2 DEF LlvmInv, NoneGivenUp
<1>3. CASE functions' # functions
  <2>1. PICK native, returns :
          EndsFunction /\ functions' = Append(functions, Built(native, returns))
    BY <1>3 DEF Build
  <2> DEFINE n == Len(functions)
             new == Built(native, returns)
  <2>2. CodeOf(new)
    <3>1. \E base : Building(mir, base, globals, Loose, frames, visible)
      BY <2>1 DEF MirInv, EndsFunction
    <3>2. \E x : Sound(mir, x) /\ 1 <= Len(mir.blocks)
      BY <3>1 DEF Building, Work
    <3>3. new.blocks = mir.blocks /\ new.params = mir.params
      BY DEF Built
    <3> HIDE DEF new
    <3> QED
      BY <3>2, <3>3 DEF CodeOf
  <2>3. n \in Nat /\ IsSeq(functions)
    BY DEF LlvmInv, IsSeq
  <2> HIDE DEF new
  <2>4. /\ IsSeq(functions') /\ Len(functions') = n + 1
        /\ \A k \in 1..n + 1 : functions'[k] = IF k = n + 1 THEN new ELSE functions[k]
    <3>1. functions' = Append(functions, new)
      BY <2>1 DEF new
    <3> QED
      BY <2>3, <3>1, AppendShape
  <2> HIDE DEF n
  <2>5. \A k \in 1..n + 1 : k = n + 1 \/ k \in 1..n
    BY <2>3
  <2>6. \A k \in 1..Len(functions') : CodeOf(functions'[k])
    BY <2>2, <2>4, <2>5 DEF LlvmInv, n
  <2>7. done \in 0..n /\ done \in 0..n + 1
    BY <2>3 DEF LlvmInv, n
  <2>8. \A k \in 1..done : functions'[k] = functions[k]
    BY <2>3, <2>4, <2>7
  <2>9. NoneGivenUp(done)' <=> NoneGivenUp(done)
    BY <1>1, <2>8 DEF NoneGivenUp
  <2> QED
    BY <1>1, <2>4, <2>6, <2>7, <2>9 DEF LlvmInv
<1> QED
  BY <1>2, <1>3

LEMMA VisitKeeps ==
  ASSUME LlvmInv, Visit
  PROVE  LlvmInv'
<1> DEFINE n == done + 1
           f == functions[n]
<1>1. /\ outcome = "running" /\ done < Len(functions) /\ functions' = functions
      /\ llvm' = OnFunction(llvm, f, n) /\ done' = n
      /\ outcome' = IF llvm'.error # "" THEN llvm'.error ELSE "running"
  BY DEF Visit, Backend
<1>2. Len(functions) \in Nat /\ done \in 0..Len(functions)
  BY DEF LlvmInv, IsSeq
<1>3. n \in 1..Len(functions) /\ n \in 0..Len(functions) /\ n \in 1..n /\ \A k \in 1..done : k \in 1..n
  <2> DEFINE l == Len(functions)
  <2>1. l \in Nat /\ done \in 0..l /\ done < l
    BY <1>1, <1>2
  <2> HIDE DEF l
  <2>2. n \in 1..l /\ n \in 0..l /\ n \in 1..n /\ \A k \in 1..done : k \in 1..n
    BY <2>1
  <2> QED
    BY <2>2 DEF l
<1>4. CodeOf(f)
  BY <1>3 DEF LlvmInv
<1> HIDE DEF n, f
<1>5. ASSUME NoneGivenUp(n)
      PROVE  /\ Shape(llvm') /\ Owned(llvm')
             /\ outcome' = "running" => Rest(llvm')
  <2>1. NoneGivenUp(done) /\ (f.native => ~Cancelled(f))
    BY <1>3, <1>5 DEF NoneGivenUp, f
  <2>2. Rest(llvm)
    BY <1>1, <2>1 DEF LlvmInv
  <2>3. Shape(llvm') /\ Owned(llvm') /\ (llvm'.error = "" => Rest(llvm'))
    BY <1>1, <1>4, <2>1, <2>2, OnFunctionOwn
  <2>4. llvm'.error # "running"
    BY <2>3, ErrorsAreErrors DEF Shape, Known
  <2> QED
    BY <1>1, <2>3, <2>4
<1>6. NoneGivenUp(done)' <=> NoneGivenUp(n)
  BY <1>1 DEF NoneGivenUp
<1> QED
  BY <1>1, <1>3, <1>5, <1>6 DEF LlvmInv

LEMMA LlvmStep ==
  ASSUME LlvmInv, MirInv, [LlvmNext]_allVars
  PROVE  LlvmInv'
<1>1. CASE Verify
  BY <1>1 DEF Verify, Backend, LlvmInv, NoneGivenUp
<1>2. CASE UNCHANGED allVars
  BY <1>2 DEF allVars, llvmVars, LlvmInv, NoneGivenUp
<1> QED
  BY <1>1, <1>2, BuildKeeps, VisitKeeps DEF LlvmNext

\* However many functions a module has and in whatever order they fail, each is handed to
\* the backend as sound code and finds its tables empty, unless one was given up.
THEOREM LlvmInvariance == LlvmSpec => []LlvmInv
<1>1. LlvmInit => LlvmInv
  BY LlvmStart
<1>2. LlvmInv /\ MirInv /\ [LlvmNext]_allVars => LlvmInv'
  BY LlvmStep
<1>3. LlvmSpec => []MirInv
  BY BuildsAsBuilder, Invariance, PTL
<1> QED
  BY <1>1, <1>2, <1>3, PTL DEF LlvmSpec

\* An LLVM instruction uses values and memory of its own function: neither m_locals nor
\* m_entry_bblock brings one of another function along, in modules of any size.
THEOREM FunctionsKeepToThemselves == LlvmSpec => []ValuesAreOwn
<1>1. ASSUME LlvmInv
      PROVE  ValuesAreOwn
  <2>1. SUFFICES ASSUME NoneGivenUp(done)
                 PROVE  \A n \in DOMAIN llvm.fns : \A b \in DOMAIN llvm.fns[n] :
                          \A k \in DOMAIN llvm.fns[n][b] :
                            \A v \in Range(Uses(llvm.fns[n][b][k])) : v.kind = "ins" => v.block[1] = n
    BY DEF ValuesAreOwn, NoneGivenUp
  <2>2. Shape(llvm) /\ Owned(llvm)
    BY <1>1, <2>1 DEF LlvmInv
  <2>3. DOMAIN llvm.fns = 1..Len(llvm.fns)
    BY <2>2 DEF Shape, IsSeq
  <2>4. \A n \in 1..Len(llvm.fns) : \A b \in DOMAIN llvm.fns[n] :
          DOMAIN llvm.fns[n][b] = 1..Len(llvm.fns[n][b])
    BY <2>2 DEF Shape, IsSeq
  <2> QED
    BY <2>2, <2>3, <2>4 DEF Owned, OwnUses, Own
<1> QED
  BY <1>1, LlvmInvariance, PTL
=============================================================================
