--------------------------- MODULE SemanticProofs ---------------------------
(***************************************************************************)
(* Proofs about the semantic checker, for every set of names and types and  *)
(* every nesting depth: the scopes, what they and the active attributes and *)
(* the active struct have to do with the handlers that are suspended, that  *)
(* all of it implements ScopedTable, and what the checker may rely on when  *)
(* it asks the type promoter for the type of an operation.                  *)
(***************************************************************************)
EXTENDS SemanticScope, TypePromoter, SequenceTheorems, FiniteSetTheorems, TLAPS

-----------------------------------------------------------------------------
(* Environments without shadowing, and what the operators do to them.       *)

Unshadowed(e) ==
  \A n \in Name : \A i, j \in Env!Holders(e, n) : i = j

GoodEnv(e) ==
  /\ e \in Seq(Env!Scope)
  /\ Len(e) >= 1
  /\ Unshadowed(e)

\* Without shadowing find() returns the one entry there is, whatever the order
\* in which it looks at the scopes.
LEMMA FindUnique ==
  ASSUME NEW e, GoodEnv(e), NEW n \in Name, Env!Contains(e, n)
  PROVE  /\ Env!FindScope(e, n) \in 1..Len(e)
         /\ Env!Holders(e, n) = {Env!FindScope(e, n)}
         /\ Env!Find(e, n) = e[Env!FindScope(e, n)][n]
         /\ Env!Find(e, n) \in Symbol
<1>1. PICK i \in Env!Holders(e, n) : TRUE
  BY DEF Env!Contains
<1>2. Env!Holders(e, n) = {i}
  BY <1>1 DEF GoodEnv, Unshadowed
<1>3. i \in 1..Len(e) /\ e[i][n] # None
  BY <1>1 DEF GoodEnv, Env!Holders
<1>4. i \in Nat
  BY <1>3
<1>5. Env!FindScope(e, n) = i
  BY <1>2, <1>4 DEF Env!FindScope
<1>6. e[i] \in Env!Scope
  BY <1>3 DEF GoodEnv
<1>7. e[i][n] \in Symbol
  BY <1>3, <1>6 DEF Env!Scope
<1> QED
  BY <1>2, <1>3, <1>5, <1>7 DEF Env!Find

\* insert() of a name that is bound nowhere keeps the stack unshadowed.
LEMMA InsertGood ==
  ASSUME NEW e, GoodEnv(e), NEW n \in Name, NEW s \in Symbol,
         ~Env!Contains(e, n)
  PROVE  /\ GoodEnv(Env!Insert(e, n, s))
         /\ Len(Env!Insert(e, n, s)) = Len(e)
         /\ \A i \in 1..Len(e), m \in Name :
              Env!Insert(e, n, s)[i][m] =
                IF i = Len(e) /\ m = n THEN s ELSE e[i][m]
<1> DEFINE top == [e[Len(e)] EXCEPT ![n] = s]
           f == [e EXCEPT ![Len(e)] = top]
<1>1. Len(e) \in 1..Len(e) /\ e[Len(e)] \in Env!Scope
  BY DEF GoodEnv
<1>2. e[Len(e)][n] = None
  BY <1>1 DEF Env!Contains, Env!Holders, GoodEnv
<1>3. Env!Insert(e, n, s) = f
  BY <1>2 DEF Env!Insert, Env!InCurrent
<1>4. top \in Env!Scope
  BY <1>1 DEF Env!Scope
<1>5. /\ f \in Seq(Env!Scope)
      /\ Len(f) = Len(e)
      /\ \A i \in 1..Len(e) : f[i] = IF i = Len(e) THEN top ELSE e[i]
  BY <1>1, <1>4, ExceptSeq DEF GoodEnv
<1>6. \A i \in 1..Len(e), m \in Name :
        f[i][m] = IF i = Len(e) /\ m = n THEN s ELSE e[i][m]
  BY <1>1, <1>5 DEF Env!Scope
<1>7. Unshadowed(f)
  BY <1>5, <1>6 DEF Unshadowed, Env!Holders, Env!Contains, GoodEnv
<1> QED
  BY <1>3, <1>5, <1>6, <1>7 DEF GoodEnv

\* Assigning to the entry that find() returned binds no new name.
LEMMA AssignGood ==
  ASSUME ScopeAssumption,
         NEW e, GoodEnv(e), NEW n \in Name, NEW s \in Symbol,
         Env!Contains(e, n)
  PROVE  /\ GoodEnv(Env!Assign(e, n, s))
         /\ Len(Env!Assign(e, n, s)) = Len(e)
         /\ \A i \in 1..Len(e), m \in Name :
              Env!Assign(e, n, s)[i][m] =
                IF i = Env!FindScope(e, n) /\ m = n THEN s ELSE e[i][m]
<1> DEFINE k == Env!FindScope(e, n)
           sc == [e[k] EXCEPT ![n] = s]
           f == [e EXCEPT ![k] = sc]
<1>1. k \in 1..Len(e) /\ e[k] \in Env!Scope /\ e[k][n] # None
  BY FindUnique DEF GoodEnv, Env!Holders
<1>2. sc \in Env!Scope
  BY <1>1 DEF Env!Scope
<1>3. /\ f \in Seq(Env!Scope)
      /\ Len(f) = Len(e)
      /\ \A i \in 1..Len(e) : f[i] = IF i = k THEN sc ELSE e[i]
  BY <1>1, <1>2, ExceptSeq DEF GoodEnv
<1>4. \A i \in 1..Len(e), m \in Name :
        f[i][m] = IF i = k /\ m = n THEN s ELSE e[i][m]
  BY <1>1, <1>3 DEF Env!Scope
<1>5. \A m \in Name : Env!Holders(f, m) = Env!Holders(e, m)
  BY <1>1, <1>3, <1>4 DEF Env!Holders, GoodEnv, ScopeAssumption
<1>6. Env!Assign(e, n, s) = f
  BY DEF Env!Assign
<1> QED
  BY <1>3, <1>4, <1>5, <1>6 DEF GoodEnv, Unshadowed

\* What the entries of e have become in f: still bound, to the same data, and
\* still defined if they were.
Continues(e, f) ==
  \A i \in 1..Len(e), n \in Name :
    e[i][n] # None =>
      /\ f[i][n] # None
      /\ f[i][n].data = e[i][n].data
      /\ e[i][n].status = "defined" => f[i][n].status = "defined"

\* add_symbol_definition: nothing is lost, nothing is shadowed.
LEMMA DefineGood ==
  ASSUME ScopeAssumption,
         NEW e, GoodEnv(e), NEW n \in Name, NEW d \in Data
  PROVE  /\ GoodEnv(Define(e, n, d))
         /\ Len(Define(e, n, d)) = Len(e)
         /\ Continues(e, Define(e, n, d))
<1>1. CASE Env!Contains(e, n)
  <2> DEFINE s == Sym("defined", Env!Find(e, n).data)
  <2>1. Env!Find(e, n) \in Symbol
    BY <1>1, FindUnique
  <2>2. s \in Symbol
    BY <2>1 DEF Sym, Symbol
  <2>3. Define(e, n, d) = Env!Assign(e, n, s)
    BY <1>1 DEF Define
  <2> HIDE DEF s
  <2>4. /\ GoodEnv(Env!Assign(e, n, s))
        /\ Len(Env!Assign(e, n, s)) = Len(e)
        /\ \A i \in 1..Len(e), m \in Name :
             Env!Assign(e, n, s)[i][m] =
               IF i = Env!FindScope(e, n) /\ m = n THEN s ELSE e[i][m]
    BY <1>1, <2>2, AssignGood
  <2>5. s.data = e[Env!FindScope(e, n)][n].data /\ s.status = "defined"
    BY <1>1, FindUnique DEF Sym, s
  <2>6. s # None
    BY <2>2 DEF ScopeAssumption
  <2>7. Continues(e, Env!Assign(e, n, s))
    BY <2>4, <2>5, <2>6 DEF Continues
  <2> QED
    BY <2>3, <2>4, <2>7
<1>2. CASE ~Env!Contains(e, n)
  <2> DEFINE s == Sym("defined", d)
  <2>1. s \in Symbol
    BY DEF Sym, Symbol
  <2>2. Define(e, n, d) = Env!Insert(e, n, s)
    BY <1>2 DEF Define
  <2> HIDE DEF s
  <2>3. /\ GoodEnv(Env!Insert(e, n, s))
        /\ Len(Env!Insert(e, n, s)) = Len(e)
        /\ \A i \in 1..Len(e), m \in Name :
             Env!Insert(e, n, s)[i][m] =
               IF i = Len(e) /\ m = n THEN s ELSE e[i][m]
    BY <1>2, <2>1, InsertGood
  <2>4. \A i \in 1..Len(e) : e[i][n] = None
    BY <1>2 DEF Env!Contains, Env!Holders, GoodEnv
  <2>5. Continues(e, Env!Insert(e, n, s))
    BY <2>3, <2>4 DEF Continues
  <2> QED
    BY <2>2, <2>3, <2>5
<1> QED
  BY <1>1, <1>2

\* add_symbol_declaration.
LEMMA DeclareGood ==
  ASSUME ScopeAssumption,
         NEW e, GoodEnv(e), NEW n \in Name, NEW d \in Data
  PROVE  /\ GoodEnv(Declare(e, n, d))
         /\ Len(Declare(e, n, d)) = Len(e)
         /\ Continues(e, Declare(e, n, d))
<1>1. CASE Env!Contains(e, n)
  BY <1>1 DEF Declare, Continues
<1>2. CASE ~Env!Contains(e, n)
  <2> DEFINE s == Sym("declared", d)
  <2>1. s \in Symbol
    BY DEF Sym, Symbol
  <2>2. Declare(e, n, d) = Env!Insert(e, n, s)
    BY <1>2 DEF Declare
  <2> HIDE DEF s
  <2>3. /\ GoodEnv(Env!Insert(e, n, s))
        /\ Len(Env!Insert(e, n, s)) = Len(e)
        /\ \A i \in 1..Len(e), m \in Name :
             Env!Insert(e, n, s)[i][m] =
               IF i = Len(e) /\ m = n THEN s ELSE e[i][m]
    BY <1>2, <2>1, InsertGood
  <2>4. \A i \in 1..Len(e) : e[i][n] = None
    BY <1>2 DEF Env!Contains, Env!Holders, GoodEnv
  <2>5. Continues(e, Env!Insert(e, n, s))
    BY <2>3, <2>4 DEF Continues
  <2> QED
    BY <2>2, <2>3, <2>5
<1> QED
  BY <1>1, <1>2

\* A stack continues itself.
LEMMA ContinuesRefl ==
  ASSUME NEW e
  PROVE  Continues(e, e)
BY DEF Continues

\* Two steps that lose nothing lose nothing together.
LEMMA ContinuesTrans ==
  ASSUME NEW e, NEW f, NEW g, Len(f) = Len(e),
         Continues(e, f), Continues(f, g)
  PROVE  Continues(e, g)
BY DEF Continues

\* The optional binding of an if or a loop.
LEMMA BindGood ==
  ASSUME ScopeAssumption,
         NEW e, GoodEnv(e), NEW b \in Binding
  PROVE  /\ GoodEnv(Bind(e, b))
         /\ Len(Bind(e, b)) = Len(e)
         /\ Continues(e, Bind(e, b))
<1>1. CASE b = None
  BY <1>1, ContinuesRefl DEF Bind
<1>2. CASE b # None
  <2>1. b[1] \in Name /\ b[2] \in Data
    BY <1>2 DEF Binding, Data
  <2>2. Bind(e, b) = Define(e, b[1], b[2])
    BY <1>2 DEF Bind
  <2> QED
    BY <2>1, <2>2, DefineGood
<1> QED
  BY <1>1, <1>2

\* push_env opens an empty scope.
LEMMA PushGood ==
  ASSUME NEW e, GoodEnv(e)
  PROVE  /\ GoodEnv(Env!PushEnv(e))
         /\ Len(Env!PushEnv(e)) = Len(e) + 1
         /\ \A i \in 1..Len(e) : Env!PushEnv(e)[i] = e[i]
         /\ Env!PushEnv(e)[Len(e) + 1] = Env!EmptyScope
         /\ Continues(e, Env!PushEnv(e))
<1> DEFINE f == Env!PushEnv(e)
<1>1. Env!EmptyScope \in Env!Scope
  BY DEF Env!EmptyScope, Env!Scope
<1>2. /\ f \in Seq(Env!Scope)
      /\ Len(f) = Len(e) + 1
      /\ \A i \in 1..Len(e) : f[i] = e[i]
      /\ f[Len(e) + 1] = Env!EmptyScope
  BY <1>1 DEF GoodEnv, Env!PushEnv
<1>3. \A n \in Name : Env!Holders(f, n) = Env!Holders(e, n)
  BY <1>2 DEF Env!Holders, Env!EmptyScope, GoodEnv
<1>4. GoodEnv(f)
  BY <1>2, <1>3 DEF GoodEnv, Unshadowed
<1> QED
  BY <1>2, <1>4 DEF Continues

\* IsToplevel() is the only way to have less than two scopes.
LEMMA AboveOne ==
  ASSUME NEW x \in Nat, x >= 1, x # 1
  PROVE  x > 1
OBVIOUS

\* pop_env drops the innermost scope and nothing else.
LEMMA PopGood ==
  ASSUME NEW e, GoodEnv(e), ~Env!IsToplevel(e)
  PROVE  /\ GoodEnv(Env!PopEnv(e))
         /\ Len(Env!PopEnv(e)) = Len(e) - 1
         /\ \A i \in 1..Len(e) - 1 : Env!PopEnv(e)[i] = e[i]
<1> DEFINE f == Env!PopEnv(e)
<1>1. Len(e) \in Nat /\ Len(e) > 1
  <2>1. e \in Seq(Env!Scope) /\ Len(e) >= 1
    BY DEF GoodEnv
  <2>2. Len(e) \in Nat
    BY <2>1, LenProperties
  <2>3. Len(e) # 1
    BY DEF Env!IsToplevel
  <2> QED
    BY <2>1, <2>2, <2>3, AboveOne
<1>2. /\ f \in Seq(Env!Scope)
      /\ Len(f) = Len(e) - 1
      /\ \A i \in 1..Len(e) - 1 : f[i] = e[i]
  <2>1. \A i \in 1..Len(e) - 1 : e[i] \in Env!Scope
    BY <1>1 DEF GoodEnv
  <2> QED
    BY <1>1, <2>1, SubSeqProperties DEF Env!PopEnv
<1>3. \A n \in Name : Env!Holders(f, n) \subseteq Env!Holders(e, n)
  BY <1>1, <1>2 DEF Env!Holders, GoodEnv
<1> QED
  BY <1>1, <1>2, <1>3 DEF GoodEnv, Unshadowed

\* The parameter loop: what was bound outside stays bound outside, and the
\* scope of the body gets the rest.
LEMMA BindParamsGood ==
  ASSUME ScopeAssumption,
         NEW e, GoodEnv(e), NEW D \in SUBSET Data, NEW ps \in ParamList(D)
  PROVE  /\ GoodEnv(BindParams(e, ps))
         /\ Len(BindParams(e, ps)) = Len(e) + 1
         /\ Continues(e, BindParams(e, ps))
<1> DEFINE Bound(n) == \E i \in DOMAIN ps : ps[i][1] = n
           DataOf(n) == ps[CHOOSE i \in DOMAIN ps : ps[i][1] = n][2]
           Outer(i) == [n \in Name |->
                          IF Bound(n) /\ e[i][n] # None
                          THEN Sym("defined", e[i][n].data)
                          ELSE e[i][n]]
           Inner == [n \in Name |->
                       IF Bound(n) /\ ~Env!Contains(e, n)
                       THEN Sym("defined", DataOf(n))
                       ELSE None]
           g == [i \in 1..Len(e) |-> Outer(i)]
           f == Append(g, Inner)
<1>1. BindParams(e, ps) = f
  BY DEF BindParams
<1>2. \A n \in Name : Bound(n) => DataOf(n) \in Data
  <2>1. PICK k \in 0..MaxParams : ps \in [1..k -> Name \X D]
    BY DEF ParamList
  <2> QED
    BY <2>1
<1>3. Inner \in Env!Scope
  BY <1>2 DEF Env!Scope, Sym, Symbol
<1>4. \A i \in 1..Len(e) : e[i] \in Env!Scope
  BY DEF GoodEnv
<1>5. \A i \in 1..Len(e) : Outer(i) \in Env!Scope
  BY <1>4 DEF Env!Scope, Sym, Symbol
<1>6. Len(e) \in Nat
  BY DEF GoodEnv
<1>7. g \in Seq(Env!Scope) /\ Len(g) = Len(e)
  BY <1>5, <1>6, IsASeq
<1>8. /\ f \in Seq(Env!Scope)
      /\ Len(f) = Len(e) + 1
      /\ \A i \in 1..Len(e) : f[i] = Outer(i)
      /\ f[Len(e) + 1] = Inner
  BY <1>3, <1>6, <1>7
<1>9. \A i \in 1..Len(e), n \in Name : f[i][n] # None <=> e[i][n] # None
  BY <1>4, <1>8 DEF Sym, Symbol, ScopeAssumption, Env!Scope
<1>10. \A n \in Name : f[Len(e) + 1][n] # None => ~Env!Contains(e, n)
  BY <1>8
<1>11. Unshadowed(f)
  <2> SUFFICES ASSUME NEW n \in Name,
                      NEW i \in Env!Holders(f, n), NEW j \in Env!Holders(f, n)
               PROVE  i = j
    BY DEF Unshadowed
  <2>1. i \in 1..Len(e)+1 /\ j \in 1..Len(e)+1 /\ f[i][n] # None /\ f[j][n] # None
    BY <1>8 DEF Env!Holders
  <2>2. \A k \in 1..Len(e) : f[k][n] # None => k \in Env!Holders(e, n)
    BY <1>9 DEF Env!Holders, GoodEnv
  <2>3. CASE i \in 1..Len(e) /\ j \in 1..Len(e)
    BY <2>1, <2>2, <2>3 DEF GoodEnv, Unshadowed
  <2>4. CASE i = Len(e) + 1 \/ j = Len(e) + 1
    BY <1>6, <1>10, <2>1, <2>2, <2>4 DEF Env!Contains
  <2> QED
    BY <1>6, <2>1, <2>3, <2>4
<1>12. Continues(e, f)
  BY <1>8, <1>9 DEF Continues, Sym
<1> QED
  BY <1>1, <1>6, <1>8, <1>11, <1>12 DEF GoodEnv

-----------------------------------------------------------------------------
(* Type correctness and the absence of shadowing.  Neither is inductive on  *)
(* its own: the type of a symbol that a definition completes is the type of *)
(* what find() returns, and find() is only known to return an entry of the  *)
(* stack when that entry is the only one.                                   *)

ScopeInv == TypeOK /\ GoodEnv(envs)

\* The frames stay a sequence of frames.
LEMMA PushTyped ==
  ASSUME frames \in Seq(Frame), NEW k \in FrameKind, NEW a \in BOOLEAN,
         Push(k, a)
  PROVE  frames' \in Seq(Frame)
BY DEF Push, Frame

\* The positions of the scopes that stay are positions of the old stack.
LEMMA OneBased ==
  ASSUME NEW n \in Nat
  PROVE  /\ n - 1 + 1 = n
         /\ (IF 1 <= n THEN n - 1 + 1 ELSE 0) = n
         /\ \A i \in 1..n : 1 + i - 1 = i
OBVIOUS

\* A sequence without its last element.
LEMMA FrontTyped ==
  ASSUME NEW S, NEW s \in Seq(S), s # <<>>
  PROVE  /\ SubSeq(s, 1, Len(s) - 1) \in Seq(S)
         /\ Len(SubSeq(s, 1, Len(s) - 1)) = Len(s) - 1
         /\ \A i \in 1..Len(s) - 1 : SubSeq(s, 1, Len(s) - 1)[i] = s[i]
<1>1. Len(s) \in Nat /\ Len(s) >= 1
  BY EmptySeq, LenProperties
<1>2. \A i \in 1..Len(s) - 1 : s[i] \in S
  BY <1>1
<1> DEFINE n == Len(s) - 1
           t == SubSeq(s, 1, n)
<1>3. n \in Nat
  BY <1>1
<1>4. /\ t \in Seq(S)
      /\ Len(t) = IF 1 <= n THEN n - 1 + 1 ELSE 0
      /\ \A i \in 1..n - 1 + 1 : t[i] = s[1 + i - 1]
  BY <1>2, <1>3, SubSeqProperties
<1> HIDE DEF t, n
<1>5. Len(t) = n /\ \A i \in 1..n : t[i] = s[i]
  <2>1. /\ n - 1 + 1 = n
        /\ (IF 1 <= n THEN n - 1 + 1 ELSE 0) = n
        /\ \A i \in 1..n : 1 + i - 1 = i
    BY <1>3, OneBased
  <2>2. Len(t) = n
    BY <1>4, <2>1
  <2> QED
    BY <1>4, <2>1, <2>2
<1> QED
  BY <1>4, <1>5 DEF t, n

\* Resuming a handler keeps the frames a sequence of frames.
LEMMA PopTyped ==
  ASSUME frames \in Seq(Frame), frames # <<>>, Pop
  PROVE  frames' \in Seq(Frame)
BY FrontTyped DEF Pop

\* An exception leaves the state of the checker as it was.
LEMMA ThrowInv ==
  ASSUME ScopeInv, NEW s \in {"type_error", "stl_error"}, Throw(s)
  PROVE  ScopeInv' /\ SymbolsStay
BY DEF ScopeInv, TypeOK, Throw, GoodEnv, Unshadowed, Env!Holders, SymbolsStay

\* A step that replaces the stack by e, and keeps every entry of the old one.
LEMMA GrowInv ==
  ASSUME ScopeInv, NEW e, envs' = e, GoodEnv(e), Continues(envs, e),
         frames' \in Seq(Frame), activeAttrs' \in Seq(Attr),
         activeStruct' \in StructData \cup {None}, status' = status
  PROVE  ScopeInv' /\ SymbolsStay
<1>1. ScopeInv'
  BY DEF ScopeInv, TypeOK, GoodEnv, Unshadowed, Env!Holders
<1>2. DOMAIN envs = 1..Len(envs)
  BY DEF ScopeInv, GoodEnv
<1>3. SymbolsStay
  BY <1>2 DEF SymbolsStay, Continues
<1> QED
  BY <1>1, <1>3

\* A step that resumes a handler and drops or replaces the innermost scope.
LEMMA ShrinkInv ==
  ASSUME ScopeInv, NEW e, envs' = e, GoodEnv(e), frames # <<>>,
         \A i \in 1..Len(envs) - 1 : e[i] = envs[i],
         frames' \in Seq(Frame), frames' # frames, Len(frames') <= Len(frames),
         activeAttrs' \in Seq(Attr),
         activeStruct' \in StructData \cup {None}, status' = status
  PROVE  ScopeInv' /\ SymbolsStay
<1>1. ScopeInv'
  BY DEF ScopeInv, TypeOK, GoodEnv, Unshadowed, Env!Holders
<1>2. /\ DOMAIN envs = 1..Len(envs)
      /\ Len(envs) \in Nat
      /\ Len(frames) \in Nat
      /\ Len(frames') \in Nat
  BY DEF ScopeInv, TypeOK, GoodEnv
<1>3. SymbolsStay
  BY <1>2 DEF SymbolsStay
<1> QED
  BY <1>1, <1>3

\* The invariant is inductive: one case for each node kind.
LEMMA ScopeInvStep ==
  ASSUME ScopeAssumption, ScopeInv, [Next]_vars
  PROVE  ScopeInv' /\ (SymbolsStay \/ UNCHANGED vars)
<1>0. /\ GoodEnv(envs)
      /\ frames \in Seq(Frame)
      /\ activeAttrs \in Seq(Attr)
      /\ activeStruct \in StructData \cup {None}
  BY DEF ScopeInv, TypeOK
<1>1. ASSUME NEW n \in Name, NEW d \in LetData \cup VarData,
             NEW u \in Use, NEW t \in Use, VisitBinding(n, d, u, t)
      PROVE  ScopeInv' /\ SymbolsStay
  <2>1. CASE Throw("type_error")
    BY <2>1, ThrowInv
  <2>2. CASE ~Throw("type_error")
    BY <1>0, <1>1, <2>2, DefineGood, GrowInv DEF VisitBinding, Data
  <2> QED
    BY <2>1, <2>2
<1>2. ASSUME NEW n \in Name, NEW d \in Data \ EnumData, NEW t \in Use,
             VisitDeclaration(n, d, t)
      PROVE  ScopeInv' /\ SymbolsStay
  <2>1. CASE Throw("type_error")
    BY <2>1, ThrowInv
  <2>2. CASE ~Throw("type_error")
    BY <1>0, <1>2, <2>2, DeclareGood, GrowInv DEF VisitDeclaration
  <2> QED
    BY <2>1, <2>2
<1>3. ASSUME NEW n \in Name, NEW d \in StructData \cup EnumData, NEW t \in Use,
             VisitTypeDefinition(n, d, t)
      PROVE  ScopeInv' /\ SymbolsStay
  <2>1. CASE Throw("type_error")
    BY <2>1, ThrowInv
  <2>2. CASE ~Throw("type_error")
    BY <1>0, <1>3, <2>2, DefineGood, GrowInv DEF VisitTypeDefinition, Data
  <2> QED
    BY <2>1, <2>2
<1>4. ASSUME NEW n \in Name, VisitIdentifier(n) \/ VisitCall(n)
      PROVE  ScopeInv' /\ SymbolsStay
  BY <1>4, ThrowInv DEF VisitIdentifier, VisitCall
<1>5. ASSUME VisitSelf
      PROVE  ScopeInv' /\ SymbolsStay
  BY <1>5, ThrowInv DEF VisitSelf
<1>6. ASSUME NEW n \in Name, NEW d \in FnData, NEW ps \in ParamList(LetData),
             NEW t \in Use, EnterFunction(n, d, ps, t)
      PROVE  ScopeInv' /\ SymbolsStay
  <2> DEFINE e == Define(envs, n, d)
             f == BindParams(e, ps)
  <2>1. CASE Throw("type_error")
    BY <2>1, ThrowInv
  <2>2. CASE ~Throw("type_error")
    <3>1. /\ envs' = f
          /\ Push("function", FALSE)
          /\ UNCHANGED <<activeAttrs, activeStruct, status>>
      BY <1>6, <2>2 DEF EnterFunction
    <3>2. GoodEnv(e) /\ Len(e) = Len(envs) /\ Continues(envs, e)
      BY <1>0, DefineGood DEF Data
    <3> HIDE DEF e
    <3>3. GoodEnv(f) /\ Continues(e, f)
      BY <3>2, BindParamsGood DEF Data
    <3> HIDE DEF f
    <3>4. Continues(envs, f)
      BY <3>2, <3>3, ContinuesTrans
    <3>5. frames' \in Seq(Frame)
      BY <1>0, <3>1, PushTyped DEF FrameKind, ScopeKind
    <3> QED
      BY <1>0, <3>1, <3>3, <3>4, <3>5, GrowInv
  <2> QED
    BY <2>1, <2>2
<1>7. ASSUME NEW r \in Name, NEW ps \in ParamList(VarData), EnterMethod(r, ps)
      PROVE  ScopeInv' /\ SymbolsStay
  <2> DEFINE f == BindParams(envs, ps)
  <2>1. CASE Throw("type_error")
    BY <2>1, ThrowInv
  <2>2. CASE ~Throw("type_error")
    <3>1. /\ envs' = f
          /\ Push("method", FALSE)
          /\ activeStruct' \in StructData
          /\ UNCHANGED <<activeAttrs, status>>
      BY <1>7, <2>2 DEF EnterMethod
    <3>2. GoodEnv(f) /\ Continues(envs, f)
      BY <1>0, BindParamsGood DEF Data
    <3> HIDE DEF f
    <3>3. frames' \in Seq(Frame)
      BY <1>0, <3>1, PushTyped DEF FrameKind, ScopeKind
    <3> QED
      BY <1>0, <3>1, <3>2, <3>3, GrowInv
  <2> QED
    BY <2>1, <2>2
<1>8. ASSUME NEW b \in Binding, NEW u \in Use, NEW alt \in BOOLEAN,
             EnterIf(b, u, alt) \/ EnterLoop(b, u)
      PROVE  ScopeInv' /\ SymbolsStay
  <2> DEFINE e == Bind(envs, b)
             f == Env!PushEnv(e)
  <2>1. CASE Throw("type_error")
    BY <2>1, ThrowInv
  <2>2. CASE ~Throw("type_error")
    <3>1. /\ envs' = f
          /\ Push("then", alt) \/ Push("loop", FALSE)
          /\ UNCHANGED <<activeAttrs, activeStruct, status>>
      BY <1>8, <2>2 DEF EnterIf, EnterLoop
    <3>2. GoodEnv(e) /\ Len(e) = Len(envs) /\ Continues(envs, e)
      BY <1>0, BindGood
    <3> HIDE DEF e
    <3>3. GoodEnv(f) /\ Continues(e, f)
      BY <3>2, PushGood
    <3> HIDE DEF f
    <3>4. Continues(envs, f)
      BY <3>2, <3>3, ContinuesTrans
    <3>5. frames' \in Seq(Frame)
      BY <1>0, <3>1, PushTyped DEF FrameKind, ScopeKind
    <3> QED
      BY <1>0, <3>1, <3>3, <3>4, <3>5, GrowInv
  <2> QED
    BY <2>1, <2>2
<1>9. ASSUME NEW u \in Use, EnterSwitch(u)
      PROVE  ScopeInv' /\ SymbolsStay
  <2>1. CASE Throw("type_error")
    BY <2>1, ThrowInv
  <2>2. CASE ~Throw("type_error")
    <3>1. Push("switch", FALSE) /\ UNCHANGED <<envs, activeAttrs, activeStruct, status>>
      BY <1>9, <2>2 DEF EnterSwitch
    <3>2. frames' \in Seq(Frame)
      BY <1>0, <3>1, PushTyped DEF FrameKind
    <3> QED
      BY <1>0, <3>1, <3>2, ContinuesRefl, GrowInv
  <2> QED
    BY <2>1, <2>2
<1>10. ASSUME EnterCase
       PROVE  ScopeInv' /\ SymbolsStay
  <2>1. frames' \in Seq(Frame)
    BY <1>0, <1>10, PushTyped DEF EnterCase, FrameKind, ScopeKind
  <2> QED
    BY <1>0, <1>10, <2>1, PushGood, GrowInv DEF EnterCase
<1>11. ASSUME NEW a \in Attr \cup {None}, EnterAttribute(a)
       PROVE  ScopeInv' /\ SymbolsStay
  <2>1. CASE Throw("type_error")
    BY <2>1, ThrowInv
  <2>2. CASE ~Throw("type_error")
    <3>1. /\ a \in Attr
          /\ activeAttrs' = Append(activeAttrs, a)
          /\ Push("attribute", FALSE)
          /\ UNCHANGED <<envs, activeStruct, status>>
      BY <1>11, <2>2 DEF EnterAttribute
    <3>2. frames' \in Seq(Frame)
      BY <1>0, <3>1, PushTyped DEF FrameKind
    <3>3. activeAttrs' \in Seq(Attr)
      BY <1>0, <3>1
    <3> QED
      BY <1>0, <3>1, <3>2, <3>3, ContinuesRefl, GrowInv
  <2> QED
    BY <2>1, <2>2
<1>12. ASSUME frames # <<>>, ~Env!IsToplevel(envs), envs' = Env!PopEnv(envs), Pop,
              activeStruct' \in StructData \cup {None},
              UNCHANGED <<activeAttrs, status>>
       PROVE  ScopeInv' /\ SymbolsStay
  <2>1. /\ frames' \in Seq(Frame)
        /\ Len(frames') = Len(frames) - 1
    BY <1>0, <1>12, FrontTyped DEF Pop
  <2>2. Len(frames) \in Nat
    BY <1>0
  <2>3. frames' # frames /\ Len(frames') <= Len(frames)
    BY <2>1, <2>2
  <2> QED
    BY <1>0, <1>12, <2>1, <2>3, PopGood, ShrinkInv
<1>13. ASSUME NEW u \in Use, LeaveBody \/ LeaveLoop(u) \/ LeaveMethod
       PROVE  ScopeInv' /\ SymbolsStay
  <2>1. CASE Throw("type_error") \/ Throw("stl_error")
    BY <2>1, ThrowInv
  <2>2. CASE ~(Throw("type_error") \/ Throw("stl_error"))
    BY <1>0, <1>12, <1>13, <2>2
    DEF LeaveBody, LeaveLoop, LeaveMethod, LeaveScope, InKind
  <2> QED
    BY <2>1, <2>2
<1>14. ASSUME LeaveThen
       PROVE  ScopeInv' /\ SymbolsStay
  <2>0. frames # <<>> /\ Top.kind = "then"
    BY <1>14 DEF LeaveThen, InKind
  <2>1. CASE Throw("stl_error")
    BY <2>1, ThrowInv
  <2>2. CASE ~Throw("stl_error") /\ ~Top.alt
    BY <1>0, <1>12, <1>14, <2>0, <2>2 DEF LeaveThen
  <2>3. CASE ~Throw("stl_error") /\ Top.alt
    <3> DEFINE e == Env!PopEnv(envs)
               f == Env!PushEnv(e)
               el == [kind |-> "else", alt |-> FALSE]
    <3>1. /\ ~Env!IsToplevel(envs)
          /\ envs' = f
          /\ frames' = [frames EXCEPT ![Len(frames)] = el]
          /\ UNCHANGED <<activeAttrs, activeStruct, status>>
      BY <1>14, <2>3 DEF LeaveThen
    <3>2. /\ GoodEnv(e)
          /\ Len(e) = Len(envs) - 1
          /\ \A i \in 1..Len(envs) - 1 : e[i] = envs[i]
      BY <1>0, <3>1, PopGood
    <3> HIDE DEF e
    <3>3. GoodEnv(f) /\ \A i \in 1..Len(e) : f[i] = e[i]
      BY <3>2, PushGood
    <3> HIDE DEF f
    <3>4. Len(frames) \in 1..Len(frames)
      BY <1>0, <2>0, EmptySeq
    <3>5. el \in Frame
      BY DEF Frame, FrameKind, ScopeKind
    <3> HIDE DEF el
    <3>6. /\ frames' \in Seq(Frame)
          /\ Len(frames') = Len(frames)
          /\ frames'[Len(frames)] = el
      BY <1>0, <3>1, <3>4, <3>5, ExceptSeq
    <3>7. frames' # frames
      BY <2>0, <3>6 DEF Top, el
    <3> QED
      BY <1>0, <2>0, <3>1, <3>2, <3>3, <3>6, <3>7, ShrinkInv
  <2> QED
    BY <2>1, <2>2, <2>3
<1>15. ASSUME LeaveSwitch
       PROVE  ScopeInv' /\ SymbolsStay
  <2>1. frames' \in Seq(Frame)
    BY <1>0, <1>15, PopTyped DEF LeaveSwitch, InKind
  <2> QED
    BY <1>0, <1>15, <2>1, ContinuesRefl, GrowInv DEF LeaveSwitch
<1>16. ASSUME LeaveAttribute
       PROVE  ScopeInv' /\ SymbolsStay
  <2>1. frames' \in Seq(Frame)
    BY <1>0, <1>16, PopTyped DEF LeaveAttribute, InKind
  <2>2. activeAttrs' \in Seq(Attr)
    BY <1>0, <1>16, SubSeqProperties DEF LeaveAttribute
  <2> QED
    BY <1>0, <1>16, <2>1, <2>2, ContinuesRefl, GrowInv DEF LeaveAttribute
<1>17. ASSUME Finish
       PROVE  ScopeInv' /\ SymbolsStay
  <2>1. GoodEnv(Env!Cleared)
    BY DEF GoodEnv, Unshadowed, Env!Cleared, Env!EmptyScope, Env!Scope, Env!Holders
  <2> QED
    BY <1>0, <1>17, <2>1
    DEF Finish, ScopeInv, TypeOK, GoodEnv, Unshadowed, Env!Holders, SymbolsStay
<1>18. CASE UNCHANGED vars
  BY <1>18 DEF vars, ScopeInv, TypeOK, GoodEnv, Unshadowed, Env!Holders
<1> QED
  BY <1>1, <1>2, <1>3, <1>4, <1>5, <1>6, <1>7, <1>8, <1>9, <1>10, <1>11,
     <1>13, <1>14, <1>15, <1>16, <1>17, <1>18
  DEF Next, Binding, Use

\* The constructor's environment is one empty scope.
LEMMA ScopeInvInit ==
  ASSUME Init
  PROVE  ScopeInv
<1>1. Env!EmptyScope \in Env!Scope
  BY DEF Env!EmptyScope, Env!Scope
<1>2. GoodEnv(Env!Cleared)
  BY <1>1 DEF GoodEnv, Unshadowed, Env!Cleared, Env!EmptyScope, Env!Holders
<1> QED
  BY <1>2 DEF Init, ScopeInv, TypeOK, GoodEnv, Unshadowed, Env!Holders

\* The strengthening holds of every program: types, and a stack without
\* shadowing.
THEOREM ScopeInvHolds == Spec => []ScopeInv
<1>1. Init => ScopeInv
  BY ScopeInvInit
<1>2. ScopeInv /\ [Next]_vars => ScopeInv'
  BY ScopeInvStep, ScopeAssumption
<1> QED
  BY <1>1, <1>2, PTL DEF Spec

\* The checker's state stays well formed, for programs over any set of names
\* and types, of any nesting depth: in particular every environment is a
\* stack of maps from names to symbols with a status and a type.
THEOREM TypeCorrect == Spec => []TypeOK
<1>1. ScopeInv => TypeOK
  BY DEF ScopeInv
<1> QED
  BY <1>1, ScopeInvHolds, PTL

\* No name is ever bound in two scopes of the stack, whatever the program: so
\* the scope in which find() looks first never decides what a name means.
THEOREM NoShadowingHolds == Spec => []NoShadowing
<1>1. ScopeInv => NoShadowing
  BY DEF ScopeInv, GoodEnv, Unshadowed, NoShadowing
<1> QED
  BY <1>1, ScopeInvHolds, PTL

\* While the scope that holds it is open, no step of the checker forgets a
\* symbol, changes its type or turns a definition back into a declaration.
THEOREM SymbolsPermanent == Spec => SymbolsArePermanent
<1>1. ScopeInv /\ [Next]_vars => [SymbolsStay]_vars
  BY ScopeInvStep, ScopeAssumption
<1> QED
  BY <1>1, ScopeInvHolds, PTL DEF Spec, SymbolsArePermanent

-----------------------------------------------------------------------------
(* Counting the suspended handlers of some kinds.                           *)

FramesIn(f, K) == {i \in DOMAIN f : f[i].kind \in K}
Count(f, K) == Cardinality(FramesIn(f, K))
Weight(k, K) == IF k \in K THEN 1 ELSE 0

\* There are finitely many of them.
LEMMA CountFinite ==
  ASSUME NEW f \in Seq(Frame), NEW K
  PROVE  IsFiniteSet(FramesIn(f, K)) /\ Count(f, K) \in Nat
<1>1. Len(f) \in Nat /\ DOMAIN f = 1..Len(f)
  OBVIOUS
<1>2. IsFiniteSet(1..Len(f))
  BY <1>1, FS_Interval
<1>3. FramesIn(f, K) \subseteq 1..Len(f)
  BY <1>1 DEF FramesIn
<1>4. IsFiniteSet(FramesIn(f, K))
  BY <1>2, <1>3, FS_Subset
<1> QED
  BY <1>4, FS_CardinalityType DEF Count

\* Suspending a handler of kind k.
LEMMA CountPush ==
  ASSUME NEW f \in Seq(Frame), NEW x \in Frame, NEW K
  PROVE  Count(Append(f, x), K) = Count(f, K) + Weight(x.kind, K)
<1> DEFINE g == Append(f, x)
           n == Len(f) + 1
<1>1. /\ Len(f) \in Nat
      /\ DOMAIN f = 1..Len(f)
      /\ DOMAIN g = 1..n
      /\ g[n] = x
      /\ \A i \in 1..Len(f) : g[i] = f[i]
  BY AppendProperties
<1> HIDE DEF g
<1>2. n \notin FramesIn(f, K)
  BY <1>1 DEF FramesIn
<1>3. CASE x.kind \in K
  <2>1. FramesIn(g, K) = FramesIn(f, K) \cup {n}
    BY <1>1, <1>3 DEF FramesIn
  <2> QED
    BY <1>2, <1>3, <2>1, CountFinite, FS_AddElement DEF Count, Weight, g
<1>4. CASE x.kind \notin K
  <2>1. FramesIn(g, K) = FramesIn(f, K)
    BY <1>1, <1>4 DEF FramesIn
  <2> QED
    BY <1>4, <2>1, CountFinite DEF Count, Weight, g
<1> QED
  BY <1>3, <1>4

\* Resuming the innermost handler.
LEMMA CountPop ==
  ASSUME NEW f \in Seq(Frame), f # <<>>, NEW K
  PROVE  Count(SubSeq(f, 1, Len(f) - 1), K) = Count(f, K) - Weight(f[Len(f)].kind, K)
<1> DEFINE g == SubSeq(f, 1, Len(f) - 1)
           n == Len(f)
<1>1. n \in Nat /\ n >= 1 /\ DOMAIN f = 1..n
  BY EmptySeq, LenProperties
<1>2. g \in Seq(Frame) /\ Len(g) = n - 1 /\ \A i \in 1..n - 1 : g[i] = f[i]
  BY FrontTyped
<1>3. DOMAIN g = 1..n - 1
  BY <1>2
<1> HIDE DEF g
<1>4. CASE f[n].kind \in K
  <2>1. FramesIn(g, K) = FramesIn(f, K) \ {n} /\ n \in FramesIn(f, K)
    BY <1>1, <1>2, <1>3, <1>4 DEF FramesIn
  <2> QED
    BY <1>4, <2>1, CountFinite, FS_RemoveElement DEF Count, Weight, g
<1>5. CASE f[n].kind \notin K
  <2>1. FramesIn(g, K) = FramesIn(f, K)
    BY <1>1, <1>2, <1>3, <1>5 DEF FramesIn
  <2> QED
    BY <1>5, <2>1, CountFinite DEF Count, Weight, g
<1> QED
  BY <1>4, <1>5

-----------------------------------------------------------------------------
(* The inductive invariant.  A method is closed by resetting                *)
(* m_active_struct, which is only right when no other method is open:       *)
(* functions and methods are items, and below an item there are attributes. *)

ItemsBelowAttributes ==
  \A i, j \in DOMAIN frames :
    j < i /\ frames[i].kind \in {"function", "method", "attribute"} =>
      frames[j].kind = "attribute"

FrameInv ==
  /\ ScopesMatchFrames
  /\ AttributesMatchFrames
  /\ SelfOnlyInMethod
  /\ ItemsBelowAttributes

\* The invariants in terms of Count.
LEMMA Counted ==
  /\ ScopesMatchFrames <=> Len(envs) = Count(frames, ScopeKind) + 1
  /\ AttributesMatchFrames <=> Len(activeAttrs) = Count(frames, {"attribute"})
<1>1. ScopeFrames = FramesIn(frames, ScopeKind)
  BY DEF ScopeFrames, FramesIn
<1>2. {i \in DOMAIN frames : frames[i].kind = "attribute"} = FramesIn(frames, {"attribute"})
  BY DEF FramesIn
<1> QED
  BY <1>1, <1>2 DEF ScopesMatchFrames, AttributesMatchFrames, Count

\* The same in the next state.
LEMMA CountedNext ==
  /\ ScopesMatchFrames' <=> Len(envs') = Count(frames', ScopeKind) + 1
  /\ AttributesMatchFrames' <=> Len(activeAttrs') = Count(frames', {"attribute"})
<1>1. ScopeFrames' = FramesIn(frames', ScopeKind)
  BY DEF ScopeFrames, FramesIn
<1>2. {i \in DOMAIN frames' : frames'[i].kind = "attribute"} = FramesIn(frames', {"attribute"})
  BY DEF FramesIn
<1> QED
  BY <1>1, <1>2 DEF ScopesMatchFrames, AttributesMatchFrames, Count

\* An exception leaves everything but the status as it was.
LEMMA ThrowFrames ==
  ASSUME FrameInv, NEW s \in {"type_error", "stl_error"}, Throw(s)
  PROVE  FrameInv'
BY DEF Throw, FrameInv, ScopesMatchFrames, ScopeFrames, AttributesMatchFrames,
       SelfOnlyInMethod, ItemsBelowAttributes

\* A step that suspends and resumes no handler.
LEMMA KeepFrames ==
  ASSUME FrameInv, status = "checking", Len(envs') = Len(envs),
         UNCHANGED <<frames, activeAttrs, activeStruct>>
  PROVE  FrameInv'
BY DEF FrameInv, ScopesMatchFrames, ScopeFrames, AttributesMatchFrames,
       SelfOnlyInMethod, ItemsBelowAttributes

\* A step that suspends a handler of kind k.
LEMMA PushFrames ==
  ASSUME ScopeInv, FrameInv, status = "checking",
         NEW k \in FrameKind, NEW a \in BOOLEAN, Push(k, a),
         k \in {"function", "method", "attribute"} => AtItem,
         Len(envs') = Len(envs) + Weight(k, ScopeKind),
         Len(activeAttrs') = Len(activeAttrs) + Weight(k, {"attribute"}),
         activeStruct' # None <=> activeStruct # None \/ k = "method"
  PROVE  FrameInv'
<1> DEFINE x == [kind |-> k, alt |-> a]
           n == Len(frames) + 1
<1>1. frames \in Seq(Frame) /\ x \in Frame /\ x.kind = k
  BY DEF ScopeInv, TypeOK, Frame
<1>2. frames' = Append(frames, x)
  BY DEF Push
<1>3. /\ Len(frames) \in Nat
      /\ DOMAIN frames = 1..Len(frames)
      /\ DOMAIN frames' = 1..n
      /\ frames'[n] = x
      /\ \A i \in 1..Len(frames) : frames'[i] = frames[i]
  BY <1>1, <1>2, AppendProperties
<1>4. Len(envs) \in Nat /\ Len(activeAttrs) \in Nat
  BY DEF ScopeInv, TypeOK
<1>5. \A K : Count(frames', K) = Count(frames, K) + Weight(k, K) /\ Count(frames, K) \in Nat
  BY <1>1, <1>2, CountPush, CountFinite
<1>6. \A K : Weight(k, K) \in Nat
  BY DEF Weight
<1>7. ScopesMatchFrames'
  <2>1. Len(envs) = Count(frames, ScopeKind) + 1
    BY Counted DEF FrameInv
  <2>2. Len(envs') = Count(frames', ScopeKind) + 1
    BY <1>4, <1>5, <1>6, <2>1
  <2> QED
    BY <2>2, CountedNext
<1>8. AttributesMatchFrames'
  <2>1. Len(activeAttrs) = Count(frames, {"attribute"})
    BY Counted DEF FrameInv
  <2>2. Len(activeAttrs') = Count(frames', {"attribute"})
    BY <1>5, <2>1
  <2> QED
    BY <2>2, CountedNext
<1> HIDE DEF x
<1>9. SelfOnlyInMethod'
  <2>1. (\E i \in DOMAIN frames' : frames'[i].kind = "method")
          <=> (\E i \in DOMAIN frames : frames[i].kind = "method") \/ k = "method"
    BY <1>1, <1>3
  <2> QED
    BY <2>1 DEF FrameInv, SelfOnlyInMethod
<1>10. ItemsBelowAttributes'
  <2> SUFFICES ASSUME NEW i \in DOMAIN frames', NEW j \in DOMAIN frames', j < i,
                      frames'[i].kind \in {"function", "method", "attribute"}
               PROVE  frames'[j].kind = "attribute"
    BY DEF ItemsBelowAttributes
  <2>1. i \in 1..n /\ j \in 1..Len(frames) /\ frames'[j] = frames[j]
    BY <1>3
  <2>2. CASE i # n
    BY <1>3, <2>1, <2>2 DEF FrameInv, ItemsBelowAttributes
  <2>3. CASE i = n
    <3>1. frames # <<>> /\ frames[Len(frames)].kind = "attribute"
      BY <1>1, <1>3, <2>1, <2>3 DEF AtItem, InKind, Top
    <3> QED
      BY <1>3, <2>1, <3>1 DEF FrameInv, ItemsBelowAttributes
  <2> QED
    BY <2>2, <2>3
<1> QED
  BY <1>7, <1>8, <1>9, <1>10 DEF FrameInv

\* A step that resumes the innermost handler.
LEMMA PopFrames ==
  ASSUME ScopeInv, FrameInv, status = "checking", frames # <<>>, Pop,
         Len(envs') = Len(envs) - Weight(Top.kind, ScopeKind),
         Len(activeAttrs') = Len(activeAttrs) - Weight(Top.kind, {"attribute"}),
         activeStruct' # None <=> activeStruct # None /\ Top.kind # "method"
  PROVE  FrameInv'
<1> DEFINE n == Len(frames)
           k == Top.kind
<1>1. frames \in Seq(Frame)
  BY DEF ScopeInv, TypeOK
<1>2. n \in Nat /\ n >= 1 /\ DOMAIN frames = 1..n
  BY <1>1, EmptySeq, LenProperties
<1>3. frames' = SubSeq(frames, 1, n - 1) /\ frames[n].kind = k
  BY DEF Pop, Top
<1>4. /\ frames' \in Seq(Frame)
      /\ Len(frames') = n - 1
      /\ \A i \in 1..n - 1 : frames'[i] = frames[i]
  BY <1>1, <1>3, FrontTyped
<1>5. DOMAIN frames' = 1..n - 1
  BY <1>4
<1>6. Len(envs) \in Nat /\ Len(activeAttrs) \in Nat
  BY DEF ScopeInv, TypeOK
<1>7. \A K : /\ Count(frames', K) = Count(frames, K) - Weight(k, K)
             /\ Count(frames, K) \in Nat
             /\ Weight(k, K) \in Nat
  BY <1>1, <1>3, CountPop, CountFinite DEF Weight
<1>8. ScopesMatchFrames'
  <2>1. Len(envs) = Count(frames, ScopeKind) + 1
    BY Counted DEF FrameInv
  <2>2. Len(envs') = Count(frames', ScopeKind) + 1
    BY <1>6, <1>7, <2>1
  <2> QED
    BY <2>2, CountedNext
<1>9. AttributesMatchFrames'
  <2>1. Len(activeAttrs) = Count(frames, {"attribute"})
    BY Counted DEF FrameInv
  <2>2. Len(activeAttrs') = Count(frames', {"attribute"})
    BY <1>7, <2>1
  <2> QED
    BY <2>2, CountedNext
<1> HIDE DEF k
<1>10. SelfOnlyInMethod'
  <2>1. CASE k = "method"
    <3>1. activeStruct' = None
      BY <2>1 DEF k
    <3>2. \A i \in DOMAIN frames' : frames'[i].kind = "attribute"
      BY <1>2, <1>3, <1>4, <1>5, <2>1 DEF FrameInv, ItemsBelowAttributes
    <3> QED
      BY <3>1, <3>2 DEF SelfOnlyInMethod
  <2>2. CASE k # "method"
    <3>1. activeStruct' # None <=> activeStruct # None
      BY <2>2 DEF k
    <3>2. (\E i \in DOMAIN frames' : frames'[i].kind = "method")
            <=> (\E i \in DOMAIN frames : frames[i].kind = "method")
      <4>1. \A i \in DOMAIN frames' : i \in DOMAIN frames /\ frames'[i] = frames[i]
        BY <1>2, <1>4, <1>5
      <4>2. \A i \in DOMAIN frames : frames[i].kind = "method" => i # n
        BY <1>3, <2>2
      <4>3. \A i \in DOMAIN frames : i # n => i \in DOMAIN frames'
        BY <1>2, <1>5
      <4> QED
        BY <4>1, <4>2, <4>3, Zenon
    <3> QED
      BY <3>1, <3>2 DEF FrameInv, SelfOnlyInMethod
  <2> QED
    BY <2>1, <2>2
<1>11. ItemsBelowAttributes'
  BY <1>2, <1>4, <1>5 DEF FrameInv, ItemsBelowAttributes
<1> QED
  BY <1>8, <1>9, <1>10, <1>11 DEF FrameInv

\* The else branch takes the place of the then branch: both own a scope.
LEMMA ElseFrames ==
  ASSUME ScopeInv, FrameInv, status = "checking", InKind({"then"}),
         frames' = [frames EXCEPT ![Len(frames)] = [kind |-> "else", alt |-> FALSE]],
         Len(envs') = Len(envs), UNCHANGED <<activeAttrs, activeStruct>>
  PROVE  FrameInv'
<1> DEFINE n == Len(frames)
           el == [kind |-> "else", alt |-> FALSE]
<1>1. frames \in Seq(Frame) /\ frames # <<>> /\ frames[n].kind = "then"
  BY DEF ScopeInv, TypeOK, InKind, Top
<1>2. n \in 1..n /\ DOMAIN frames = 1..n
  BY <1>1, EmptySeq, LenProperties
<1>3. el \in Frame /\ el.kind = "else"
  BY DEF Frame, FrameKind, ScopeKind
<1> HIDE DEF el
<1>4. DOMAIN frames' = DOMAIN frames
  BY DEF el
<1>5. frames'[n].kind = "else" /\ \A i \in DOMAIN frames \ {n} : frames'[i] = frames[i]
  BY <1>2, <1>3 DEF el
<1>6. FramesIn(frames', ScopeKind) = FramesIn(frames, ScopeKind)
  BY <1>1, <1>4, <1>5 DEF FramesIn, ScopeKind
<1>7. FramesIn(frames', {"attribute"}) = FramesIn(frames, {"attribute"})
  BY <1>1, <1>4, <1>5 DEF FramesIn
<1>8. ScopesMatchFrames' /\ AttributesMatchFrames'
  BY <1>6, <1>7, Counted, CountedNext DEF FrameInv, Count
<1>9. SelfOnlyInMethod'
  <2>1. (\E i \in DOMAIN frames' : frames'[i].kind = "method")
          <=> (\E i \in DOMAIN frames : frames[i].kind = "method")
    BY <1>1, <1>4, <1>5
  <2> QED
    BY <2>1 DEF FrameInv, SelfOnlyInMethod
<1>10. ItemsBelowAttributes'
  <2> SUFFICES ASSUME NEW i \in DOMAIN frames', NEW j \in DOMAIN frames', j < i,
                      frames'[i].kind \in {"function", "method", "attribute"}
               PROVE  frames'[j].kind = "attribute"
    BY DEF ItemsBelowAttributes
  <2>1. i # n /\ j # n
    BY <1>2, <1>4, <1>5
  <2> QED
    BY <1>4, <1>5, <2>1 DEF FrameInv, ItemsBelowAttributes
<1> QED
  BY <1>8, <1>9, <1>10 DEF FrameInv

-----------------------------------------------------------------------------
(* The invariant is inductive: one case for each node kind.                 *)

LEMMA FrameInvInit ==
  ASSUME Init
  PROVE  FrameInv
<1>1. DOMAIN frames = {} /\ Len(envs) = 1 /\ Len(activeAttrs) = 0
  BY DEF Init, Env!Cleared
<1>2. Count(frames, ScopeKind) = 0 /\ Count(frames, {"attribute"}) = 0
  BY <1>1, FS_EmptySet DEF Count, FramesIn
<1>3. ScopesMatchFrames /\ AttributesMatchFrames
  BY <1>1, <1>2, Counted
<1> QED
  BY <1>1, <1>3 DEF Init, FrameInv, SelfOnlyInMethod, ItemsBelowAttributes

LEMMA FrameInvStep ==
  ASSUME ScopeAssumption, ScopeInv, FrameInv, [Next]_vars
  PROVE  FrameInv'
<1>0. /\ GoodEnv(envs)
      /\ Len(envs) \in Nat
      /\ activeAttrs \in Seq(Attr)
      /\ Len(activeAttrs) \in Nat
  BY DEF ScopeInv, TypeOK
<1>k. /\ Weight("function", ScopeKind) = 1 /\ Weight("method", ScopeKind) = 1
      /\ Weight("then", ScopeKind) = 1 /\ Weight("else", ScopeKind) = 1
      /\ Weight("loop", ScopeKind) = 1 /\ Weight("case", ScopeKind) = 1
      /\ Weight("switch", ScopeKind) = 0 /\ Weight("attribute", ScopeKind) = 0
      /\ \A k \in FrameKind \ {"attribute"} : Weight(k, {"attribute"}) = 0
      /\ Weight("attribute", {"attribute"}) = 1
  BY DEF Weight, ScopeKind
<1>1. ASSUME NEW n \in Name, NEW d \in LetData \cup VarData,
             NEW u \in Use, NEW t \in Use, VisitBinding(n, d, u, t)
      PROVE  FrameInv'
  <2>1. CASE Throw("type_error")
    BY <2>1, ThrowFrames
  <2>2. CASE ~Throw("type_error")
    BY <1>0, <1>1, <2>2, DefineGood, KeepFrames DEF VisitBinding, Data
  <2> QED
    BY <2>1, <2>2
<1>2. ASSUME NEW n \in Name, NEW d \in Data \ EnumData, NEW t \in Use,
             VisitDeclaration(n, d, t)
      PROVE  FrameInv'
  <2>1. CASE Throw("type_error")
    BY <2>1, ThrowFrames
  <2>2. CASE ~Throw("type_error")
    BY <1>0, <1>2, <2>2, DeclareGood, KeepFrames DEF VisitDeclaration
  <2> QED
    BY <2>1, <2>2
<1>3. ASSUME NEW n \in Name, NEW d \in StructData \cup EnumData, NEW t \in Use,
             VisitTypeDefinition(n, d, t)
      PROVE  FrameInv'
  <2>1. CASE Throw("type_error")
    BY <2>1, ThrowFrames
  <2>2. CASE ~Throw("type_error")
    BY <1>0, <1>3, <2>2, DefineGood, KeepFrames DEF VisitTypeDefinition, Data
  <2> QED
    BY <2>1, <2>2
<1>4. ASSUME NEW n \in Name, VisitIdentifier(n) \/ VisitCall(n)
      PROVE  FrameInv'
  BY <1>4, ThrowFrames DEF VisitIdentifier, VisitCall
<1>5. ASSUME VisitSelf
      PROVE  FrameInv'
  BY <1>5, ThrowFrames DEF VisitSelf
<1>6. ASSUME NEW n \in Name, NEW d \in FnData, NEW ps \in ParamList(LetData),
             NEW t \in Use, EnterFunction(n, d, ps, t)
      PROVE  FrameInv'
  <2> DEFINE e == Define(envs, n, d)
             f == BindParams(e, ps)
  <2>1. CASE Throw("type_error")
    BY <2>1, ThrowFrames
  <2>2. CASE ~Throw("type_error")
    <3>1. /\ envs' = f
          /\ Push("function", FALSE)
          /\ AtItem
          /\ status = "checking"
          /\ UNCHANGED <<activeAttrs, activeStruct>>
      BY <1>6, <2>2 DEF EnterFunction
    <3>2. GoodEnv(e) /\ Len(e) = Len(envs)
      BY <1>0, DefineGood DEF Data
    <3> HIDE DEF e
    <3>3. Len(f) = Len(e) + 1
      BY <3>2, BindParamsGood DEF Data
    <3> HIDE DEF f
    <3>4. "function" \in FrameKind \ {"attribute"}
      BY DEF FrameKind, ScopeKind
    <3>5. /\ Len(envs') = Len(envs) + Weight("function", ScopeKind)
          /\ Len(activeAttrs') = Len(activeAttrs) + Weight("function", {"attribute"})
      BY <1>0, <1>k, <3>1, <3>2, <3>3, <3>4
    <3> QED
      BY <3>1, <3>4, <3>5, PushFrames
  <2> QED
    BY <2>1, <2>2
<1>7. ASSUME NEW r \in Name, NEW ps \in ParamList(VarData), EnterMethod(r, ps)
      PROVE  FrameInv'
  <2> DEFINE f == BindParams(envs, ps)
  <2>1. CASE Throw("type_error")
    BY <2>1, ThrowFrames
  <2>2. CASE ~Throw("type_error")
    <3>1. /\ envs' = f
          /\ Push("method", FALSE)
          /\ AtItem
          /\ status = "checking"
          /\ activeStruct' \in StructData
          /\ UNCHANGED activeAttrs
      BY <1>7, <2>2 DEF EnterMethod
    <3>2. Len(f) = Len(envs) + 1
      BY <1>0, BindParamsGood DEF Data
    <3> HIDE DEF f
    <3>3. "method" \in FrameKind \ {"attribute"}
      BY DEF FrameKind, ScopeKind
    <3>4. /\ Len(envs') = Len(envs) + Weight("method", ScopeKind)
          /\ Len(activeAttrs') = Len(activeAttrs) + Weight("method", {"attribute"})
      BY <1>0, <1>k, <3>1, <3>2, <3>3
    <3>5. activeStruct' # None
      BY <3>1 DEF ScopeAssumption, Data
    <3> QED
      BY <3>1, <3>3, <3>4, <3>5, PushFrames
  <2> QED
    BY <2>1, <2>2
<1>8. ASSUME NEW b \in Binding, NEW u \in Use, NEW alt \in BOOLEAN,
             EnterIf(b, u, alt) \/ EnterLoop(b, u)
      PROVE  FrameInv'
  <2> DEFINE e == Bind(envs, b)
             f == Env!PushEnv(e)
  <2>1. CASE Throw("type_error")
    BY <2>1, ThrowFrames
  <2>2. CASE ~Throw("type_error")
    <3>1. PICK k \in {"then", "loop"}, a \in BOOLEAN :
            /\ envs' = f
            /\ Push(k, a)
            /\ status = "checking"
            /\ UNCHANGED <<activeAttrs, activeStruct>>
      BY <1>8, <2>2 DEF EnterIf, EnterLoop
    <3>2. GoodEnv(e) /\ Len(e) = Len(envs)
      BY <1>0, BindGood
    <3> HIDE DEF e
    <3>3. Len(f) = Len(e) + 1
      BY <3>2, PushGood
    <3> HIDE DEF f
    <3>4. k \in FrameKind \ {"attribute"} /\ k \notin {"function", "method", "attribute"}
      BY DEF FrameKind, ScopeKind
    <3>5. /\ Len(envs') = Len(envs) + Weight(k, ScopeKind)
          /\ Len(activeAttrs') = Len(activeAttrs) + Weight(k, {"attribute"})
      BY <1>0, <1>k, <3>1, <3>2, <3>3, <3>4
    <3> QED
      BY <3>1, <3>4, <3>5, PushFrames
  <2> QED
    BY <2>1, <2>2
<1>9. ASSUME NEW u \in Use, EnterSwitch(u)
      PROVE  FrameInv'
  <2>1. CASE Throw("type_error")
    BY <2>1, ThrowFrames
  <2>2. CASE ~Throw("type_error")
    <3>1. /\ Push("switch", FALSE)
          /\ status = "checking"
          /\ UNCHANGED <<envs, activeAttrs, activeStruct>>
      BY <1>9, <2>2 DEF EnterSwitch
    <3>2. "switch" \in FrameKind \ {"attribute"}
      BY DEF FrameKind
    <3>3. /\ Len(envs') = Len(envs) + Weight("switch", ScopeKind)
          /\ Len(activeAttrs') = Len(activeAttrs) + Weight("switch", {"attribute"})
      BY <1>0, <1>k, <3>1, <3>2
    <3> QED
      BY <3>1, <3>2, <3>3, PushFrames
  <2> QED
    BY <2>1, <2>2
<1>10. ASSUME EnterCase
       PROVE  FrameInv'
  <2>1. /\ Len(envs') = Len(envs) + 1
        /\ Push("case", FALSE)
        /\ status = "checking"
        /\ UNCHANGED <<activeAttrs, activeStruct>>
    BY <1>0, <1>10, PushGood DEF EnterCase
  <2>2. "case" \in FrameKind \ {"attribute"}
    BY DEF FrameKind, ScopeKind
  <2>3. /\ Len(envs') = Len(envs) + Weight("case", ScopeKind)
        /\ Len(activeAttrs') = Len(activeAttrs) + Weight("case", {"attribute"})
    BY <1>0, <1>k, <2>1, <2>2
  <2> QED
    BY <2>1, <2>2, <2>3, PushFrames
<1>11. ASSUME NEW a \in Attr \cup {None}, EnterAttribute(a)
       PROVE  FrameInv'
  <2>1. CASE Throw("type_error")
    BY <2>1, ThrowFrames
  <2>2. CASE ~Throw("type_error")
    <3>1. /\ a \in Attr
          /\ activeAttrs' = Append(activeAttrs, a)
          /\ Push("attribute", FALSE)
          /\ AtItem
          /\ status = "checking"
          /\ UNCHANGED <<envs, activeStruct>>
      BY <1>11, <2>2 DEF EnterAttribute
    <3>2. "attribute" \in FrameKind
      BY DEF FrameKind
    <3>3. Len(activeAttrs') = Len(activeAttrs) + 1
      BY <1>0, <3>1
    <3>4. /\ Len(envs') = Len(envs) + Weight("attribute", ScopeKind)
          /\ Len(activeAttrs') = Len(activeAttrs) + Weight("attribute", {"attribute"})
      BY <1>0, <1>k, <3>1, <3>3
    <3> QED
      BY <3>1, <3>2, <3>4, PushFrames
  <2> QED
    BY <2>1, <2>2
<1>12. ASSUME status = "checking", NEW k \in ScopeKind, InKind({k}),
              ~Env!IsToplevel(envs), envs' = Env!PopEnv(envs), Pop,
              activeStruct' # None <=> activeStruct # None /\ k # "method",
              UNCHANGED activeAttrs
       PROVE  FrameInv'
  <2>1. Len(envs') = Len(envs) - 1
    BY <1>0, <1>12, PopGood
  <2>2. frames # <<>> /\ Top.kind = k
    BY <1>12 DEF InKind
  <2>3. Weight(k, ScopeKind) = 1 /\ Weight(k, {"attribute"}) = 0
    BY DEF Weight, ScopeKind
  <2>4. /\ Len(envs') = Len(envs) - Weight(Top.kind, ScopeKind)
        /\ Len(activeAttrs') = Len(activeAttrs) - Weight(Top.kind, {"attribute"})
    BY <1>0, <1>12, <2>1, <2>2, <2>3
  <2> QED
    BY <1>12, <2>2, <2>4, PopFrames
<1>13. ASSUME NEW u \in Use, LeaveBody \/ LeaveLoop(u)
       PROVE  FrameInv'
  <2>1. CASE Throw("type_error") \/ Throw("stl_error")
    BY <2>1, ThrowFrames
  <2>2. CASE ~(Throw("type_error") \/ Throw("stl_error"))
    <3>1. PICK k \in {"function", "else", "case", "loop"} :
            /\ status = "checking"
            /\ InKind({k})
            /\ ~Env!IsToplevel(envs)
            /\ envs' = Env!PopEnv(envs)
            /\ Pop
            /\ UNCHANGED <<activeAttrs, activeStruct>>
      BY <1>13, <2>2 DEF LeaveBody, LeaveLoop, LeaveScope, InKind
    <3>2. k \in ScopeKind /\ k # "method"
      BY DEF ScopeKind
    <3> QED
      BY <1>12, <3>1, <3>2
  <2> QED
    BY <2>1, <2>2
<1>14. ASSUME LeaveMethod
       PROVE  FrameInv'
  <2>1. CASE Throw("stl_error")
    BY <2>1, ThrowFrames
  <2>2. CASE ~Throw("stl_error")
    BY <1>12, <1>14, <2>2 DEF LeaveMethod, LeaveScope, ScopeKind
  <2> QED
    BY <2>1, <2>2
<1>15. ASSUME LeaveThen
       PROVE  FrameInv'
  <2>1. CASE Throw("stl_error")
    BY <2>1, ThrowFrames
  <2>2. CASE ~Throw("stl_error") /\ ~Top.alt
    BY <1>12, <1>15, <2>2 DEF LeaveThen, ScopeKind
  <2>3. CASE ~Throw("stl_error") /\ Top.alt
    <3>1. /\ status = "checking"
          /\ InKind({"then"})
          /\ ~Env!IsToplevel(envs)
          /\ envs' = Env!PushEnv(Env!PopEnv(envs))
          /\ frames' = [frames EXCEPT ![Len(frames)] =
                          [kind |-> "else", alt |-> FALSE]]
          /\ UNCHANGED <<activeAttrs, activeStruct>>
      BY <1>15, <2>3 DEF LeaveThen
    <3>2. Len(envs') = Len(envs) - 1 + 1
      BY <1>0, <3>1, PopGood, PushGood
    <3>3. Len(envs') = Len(envs)
      BY <1>0, <3>2
    <3> QED
      BY <3>1, <3>3, ElseFrames
  <2> QED
    BY <2>1, <2>2, <2>3
<1>16. ASSUME LeaveSwitch
       PROVE  FrameInv'
  <2>1. /\ status = "checking"
        /\ frames # <<>> /\ Top.kind = "switch"
        /\ Pop
        /\ UNCHANGED <<envs, activeAttrs, activeStruct>>
    BY <1>16 DEF LeaveSwitch, InKind
  <2>2. "switch" \in FrameKind \ {"attribute"}
    BY DEF FrameKind
  <2>3. /\ Len(envs') = Len(envs) - Weight(Top.kind, ScopeKind)
        /\ Len(activeAttrs') = Len(activeAttrs) - Weight(Top.kind, {"attribute"})
    BY <1>0, <1>k, <2>1, <2>2
  <2> QED
    BY <2>1, <2>3, PopFrames
<1>17. ASSUME LeaveAttribute
       PROVE  FrameInv'
  <2>1. /\ status = "checking"
        /\ frames # <<>> /\ Top.kind = "attribute"
        /\ Pop
        /\ activeAttrs' = SubSeq(activeAttrs, 1, Len(activeAttrs) - 1)
        /\ UNCHANGED <<envs, activeStruct>>
    BY <1>17 DEF LeaveAttribute, InKind
  <2>2. Count(frames, {"attribute"}) >= 1
    <3>1. frames \in Seq(Frame)
      BY DEF ScopeInv, TypeOK
    <3>2. Len(frames) \in FramesIn(frames, {"attribute"})
      BY <2>1, <3>1, EmptySeq DEF FramesIn, Top
    <3>3. FramesIn(frames, {"attribute"}) # {}
      BY <3>2
    <3> QED
      BY <3>1, <3>3, CountFinite, FS_EmptySet DEF Count
  <2>3. activeAttrs # <<>>
    BY <2>2, Counted DEF FrameInv
  <2>4. Len(activeAttrs') = Len(activeAttrs) - 1
    BY <1>0, <2>1, <2>3, FrontTyped
  <2>5. /\ Len(envs') = Len(envs) - Weight(Top.kind, ScopeKind)
        /\ Len(activeAttrs') = Len(activeAttrs) - Weight(Top.kind, {"attribute"})
    <3>1. /\ Weight(Top.kind, ScopeKind) = 0
          /\ Weight(Top.kind, {"attribute"}) = 1
      BY <2>1 DEF Weight, ScopeKind
    <3>2. Len(envs') = Len(envs)
      BY <2>1
    <3> QED
      BY <1>0, <2>4, <3>1, <3>2
  <2> QED
    BY <2>1, <2>5, PopFrames
<1>18. ASSUME Finish
       PROVE  FrameInv'
  <2>1. /\ DOMAIN frames = {} /\ DOMAIN frames' = {}
        /\ Len(envs') = 1
        /\ activeAttrs' = activeAttrs
        /\ status' = "done"
    BY <1>18 DEF Finish, Env!Cleared
  <2>2. Count(frames', ScopeKind) = 0 /\ Count(frames', {"attribute"}) = 0
    BY <2>1, FS_EmptySet DEF Count, FramesIn
  <2>3. Count(frames, {"attribute"}) = 0
    BY <2>1, FS_EmptySet DEF Count, FramesIn
  <2>4. ScopesMatchFrames' /\ AttributesMatchFrames'
    BY <2>1, <2>2, <2>3, Counted, CountedNext DEF FrameInv
  <2> QED
    BY <2>1, <2>4 DEF FrameInv, SelfOnlyInMethod, ItemsBelowAttributes
<1>19. CASE UNCHANGED vars
  BY <1>19 DEF vars, FrameInv, ScopesMatchFrames, ScopeFrames,
     AttributesMatchFrames, SelfOnlyInMethod, ItemsBelowAttributes
<1> QED
  BY <1>1, <1>2, <1>3, <1>4, <1>5, <1>6, <1>7, <1>8, <1>9, <1>10, <1>11,
     <1>13, <1>14, <1>15, <1>16, <1>17, <1>18, <1>19
  DEF Next, Binding, Use

\* The strengthening holds of every program.
THEOREM FrameInvHolds == Spec => []FrameInv
<1>1. Init => FrameInv
  BY FrameInvInit
<1>2. ScopeInv /\ FrameInv /\ [Next]_vars => FrameInv'
  BY FrameInvStep, ScopeAssumption
<1> QED
  BY <1>1, <1>2, ScopeInvHolds, PTL DEF Spec

\* However deeply statements nest, the stack of scopes has one scope for each
\* suspended handler that pushed one, and the toplevel scope: every pop_env()
\* removes the scope that its own handler pushed.
THEOREM ScopesMatchFramesHold == Spec => []ScopesMatchFrames
<1>1. FrameInv => ScopesMatchFrames
  BY DEF FrameInv
<1> QED
  BY <1>1, FrameInvHolds, PTL

\* However deeply attributes nest, m_active_attrs has one entry for each
\* attribute whose body is being checked, and no other.
THEOREM AttributesMatchFramesHold == Spec => []AttributesMatchFrames
<1>1. FrameInv => AttributesMatchFrames
  BY DEF FrameInv
<1> QED
  BY <1>1, FrameInvHolds, PTL

\* m_active_struct is set exactly while a method is open: resetting it at the
\* end of a method never leaves an enclosing method without its receiver,
\* because no method encloses another.
THEOREM SelfOnlyInMethodHolds == Spec => []SelfOnlyInMethod
<1>1. FrameInv => SelfOnlyInMethod
  BY DEF FrameInv
<1> QED
  BY <1>1, FrameInvHolds, PTL

-----------------------------------------------------------------------------
(* The refinement.  What a stack of scopes means to ScopedTable: the symbol *)
(* each name is bound to, and the depth it is bound at.                     *)

TableOf(e) == [n \in Name |-> IF Env!Contains(e, n) THEN Env!Find(e, n) ELSE None]
LevelOf(e) == [n \in Name |-> IF Env!Contains(e, n) THEN Env!FindScope(e, n) ELSE 0]

\* The three things that can happen to a name: nothing, a binding in one of
\* the scopes L, the definition of what was declared.
Stays(e, f, n) ==
  /\ TableOf(f)[n] = TableOf(e)[n]
  /\ LevelOf(f)[n] = LevelOf(e)[n]

Binds(e, f, n, L) ==
  /\ TableOf(e)[n] = None
  /\ TableOf(f)[n] \in Symbol
  /\ LevelOf(f)[n] \in L

Completes(e, f, n) ==
  /\ TableOf(e)[n] # None
  /\ TableOf(e)[n].status = "declared"
  /\ TableOf(f)[n] = [TableOf(e)[n] EXCEPT !.status = "defined"]
  /\ LevelOf(f)[n] = LevelOf(e)[n]

Records(e, f, L) ==
  \A n \in Name : Stays(e, f, n) \/ Binds(e, f, n, L) \/ Completes(e, f, n)

Drops(e, f) ==
  \A n \in Name : IF LevelOf(e)[n] = Len(e)
                  THEN TableOf(f)[n] = None /\ LevelOf(f)[n] = 0
                  ELSE Stays(e, f, n)

\* Without shadowing a name means the entry that some scope holds.
LEMMA Located ==
  ASSUME NEW e, GoodEnv(e), NEW n \in Name, NEW i \in 1..Len(e), e[i][n] # None
  PROVE  /\ Env!Contains(e, n)
         /\ TableOf(e)[n] = e[i][n]
         /\ TableOf(e)[n] \in Symbol
         /\ LevelOf(e)[n] = i
<1>1. i \in Env!Holders(e, n)
  BY DEF Env!Holders, GoodEnv
<1>2. Env!Contains(e, n)
  BY <1>1 DEF Env!Contains
<1>3. Env!FindScope(e, n) = i /\ Env!Find(e, n) = e[i][n] /\ Env!Find(e, n) \in Symbol
  BY <1>1, <1>2, FindUnique
<1> QED
  BY <1>2, <1>3 DEF TableOf, LevelOf

\* A name that no scope holds means nothing.
LEMMA Unlocated ==
  ASSUME NEW e, GoodEnv(e), NEW n \in Name, \A i \in 1..Len(e) : e[i][n] = None
  PROVE  /\ ~Env!Contains(e, n)
         /\ TableOf(e)[n] = None
         /\ LevelOf(e)[n] = 0
<1>1. ~Env!Contains(e, n)
  BY DEF Env!Contains, Env!Holders, GoodEnv
<1> QED
  BY <1>1 DEF TableOf, LevelOf

\* Where the entries of a name agree it means the same.
LEMMA SameMeaning ==
  ASSUME NEW e, NEW f, GoodEnv(e), GoodEnv(f), Len(f) = Len(e), NEW n \in Name,
         \A i \in 1..Len(e) : f[i][n] = e[i][n]
  PROVE  Stays(e, f, n)
<1>1. CASE \A i \in 1..Len(e) : e[i][n] = None
  BY <1>1, Unlocated DEF Stays
<1>2. CASE ~(\A i \in 1..Len(e) : e[i][n] = None)
  <2>1. PICK i \in 1..Len(e) : e[i][n] # None
    BY <1>2
  <2> QED
    BY <2>1, Located DEF Stays
<1> QED
  BY <1>1, <1>2

\* What add_symbol_definition records.
LEMMA DefineRecords ==
  ASSUME ScopeAssumption,
         NEW e, GoodEnv(e), NEW n \in Name, NEW d \in Data, CanDefine(e, n, d)
  PROVE  /\ Records(e, Define(e, n, d), {Len(e)})
         /\ \A m \in Name \ {n} : Stays(e, Define(e, n, d), m)
         /\ Env!Contains(Define(e, n, d), n)
         /\ Env!Find(Define(e, n, d), n).status = "defined"
<1> DEFINE f == Define(e, n, d)
<1>0. GoodEnv(f) /\ Len(f) = Len(e)
  BY DefineGood
<1>1. CASE Env!Contains(e, n)
  <2> DEFINE s == Sym("defined", Env!Find(e, n).data)
             k == Env!FindScope(e, n)
  <2>1. Env!Find(e, n) \in Symbol /\ k \in 1..Len(e) /\ Env!Find(e, n) = e[k][n] /\ e[k][n] # None
    BY <1>1, FindUnique DEF Env!Holders
  <2>2. s \in Symbol /\ s # None /\ s.status = "defined"
    BY <2>1 DEF Sym, Symbol, ScopeAssumption
  <2>3. f = Env!Assign(e, n, s)
    BY <1>1 DEF Define
  <2>4. s = [e[k][n] EXCEPT !.status = "defined"]
    BY <2>1 DEF Sym, Symbol
  <2> HIDE DEF s, f
  <2>5. \A i \in 1..Len(e), m \in Name : f[i][m] = IF i = k /\ m = n THEN s ELSE e[i][m]
    BY <1>1, <2>2, <2>3, AssignGood
  <2>6. \A m \in Name \ {n} : Stays(e, f, m)
    BY <1>0, <2>5, SameMeaning
  <2>7. f[k][n] = s
    BY <2>1, <2>5
  <2>8. /\ Env!Contains(f, n)
        /\ TableOf(f)[n] = s
        /\ LevelOf(f)[n] = k
    BY <1>0, <2>1, <2>2, <2>7, Located
  <2>9. TableOf(e)[n] = e[k][n] /\ LevelOf(e)[n] = k
    BY <2>1, Located
  <2>10. e[k][n].status = "declared"
    BY <1>1, <2>1 DEF CanDefine
  <2>11. Completes(e, f, n)
    BY <2>1, <2>4, <2>8, <2>9, <2>10 DEF Completes
  <2>12. Env!Find(f, n).status = "defined"
    BY <2>2, <2>8 DEF TableOf
  <2> QED
    BY <2>6, <2>8, <2>11, <2>12 DEF Records, f
<1>2. CASE ~Env!Contains(e, n)
  <2> DEFINE s == Sym("defined", d)
  <2>1. s \in Symbol /\ s # None /\ s.status = "defined"
    BY DEF Sym, Symbol, ScopeAssumption
  <2>2. f = Env!Insert(e, n, s)
    BY <1>2 DEF Define
  <2> HIDE DEF s, f
  <2>3. \A i \in 1..Len(e), m \in Name : f[i][m] = IF i = Len(e) /\ m = n THEN s ELSE e[i][m]
    BY <1>2, <2>1, <2>2, InsertGood
  <2>4. \A m \in Name \ {n} : Stays(e, f, m)
    BY <1>0, <2>3, SameMeaning
  <2>5. Len(e) \in 1..Len(e) /\ Len(e) \in 1..Len(f)
    BY <1>0 DEF GoodEnv
  <2>6. f[Len(e)][n] = s
    BY <2>3, <2>5
  <2>7. Env!Contains(f, n) /\ TableOf(f)[n] = s /\ LevelOf(f)[n] = Len(e)
    BY <1>0, <2>1, <2>5, <2>6, Located
  <2>8. TableOf(e)[n] = None
    BY <1>2 DEF TableOf
  <2>9. Binds(e, f, n, {Len(e)})
    BY <2>1, <2>7, <2>8 DEF Binds
  <2>10. Env!Find(f, n).status = "defined"
    BY <2>1, <2>7 DEF TableOf
  <2> QED
    BY <2>4, <2>7, <2>9, <2>10 DEF Records, f
<1> QED
  BY <1>1, <1>2

\* What add_symbol_declaration records.
LEMMA DeclareRecords ==
  ASSUME ScopeAssumption,
         NEW e, GoodEnv(e), NEW n \in Name, NEW d \in Data
  PROVE  Records(e, Declare(e, n, d), {Len(e)})
<1>1. CASE Env!Contains(e, n)
  BY <1>1 DEF Declare, Records, Stays
<1>2. CASE ~Env!Contains(e, n)
  <2> DEFINE s == Sym("declared", d)
             f == Declare(e, n, d)
  <2>0. GoodEnv(f) /\ Len(f) = Len(e)
    BY DeclareGood
  <2>1. s \in Symbol /\ s # None
    BY DEF Sym, Symbol, ScopeAssumption
  <2>2. f = Env!Insert(e, n, s)
    BY <1>2 DEF Declare
  <2> HIDE DEF s, f
  <2>3. \A i \in 1..Len(e), m \in Name : f[i][m] = IF i = Len(e) /\ m = n THEN s ELSE e[i][m]
    BY <1>2, <2>1, <2>2, InsertGood
  <2>4. \A m \in Name \ {n} : Stays(e, f, m)
    BY <2>0, <2>3, SameMeaning
  <2>5. Len(e) \in 1..Len(e) /\ Len(e) \in 1..Len(f)
    BY <2>0 DEF GoodEnv
  <2>6. f[Len(e)][n] = s
    BY <2>3, <2>5
  <2>7. TableOf(f)[n] = s /\ LevelOf(f)[n] = Len(e)
    BY <2>0, <2>1, <2>5, <2>6, Located
  <2>8. Binds(e, f, n, {Len(e)})
    BY <1>2, <2>1, <2>7 DEF Binds, TableOf
  <2> QED
    BY <2>4, <2>8 DEF Records, f
<1> QED
  BY <1>1, <1>2

\* The optional binding of an if or a loop.
LEMMA BindRecords ==
  ASSUME ScopeAssumption,
         NEW e, GoodEnv(e), NEW b \in Binding, CanBind(e, b)
  PROVE  Records(e, Bind(e, b), {Len(e)})
<1>1. CASE b = None
  BY <1>1 DEF Bind, Records, Stays
<1>2. CASE b # None
  <2>1. b[1] \in Name /\ b[2] \in Data /\ CanDefine(e, b[1], b[2])
    BY <1>2 DEF Binding, Data, CanBind
  <2>2. Bind(e, b) = Define(e, b[1], b[2])
    BY <1>2 DEF Bind
  <2> QED
    BY <2>1, <2>2, DefineRecords
<1> QED
  BY <1>1, <1>2

\* Opening an empty scope changes no meaning.
LEMMA PushStays ==
  ASSUME ScopeAssumption, NEW e, GoodEnv(e)
  PROVE  \A n \in Name : Stays(e, Env!PushEnv(e), n)
<1> DEFINE f == Env!PushEnv(e)
<1>1. /\ GoodEnv(f)
      /\ Len(f) = Len(e) + 1
      /\ \A i \in 1..Len(e) : f[i] = e[i]
      /\ f[Len(e) + 1] = Env!EmptyScope
  BY PushGood
<1>2. Len(e) \in Nat
  BY DEF GoodEnv
<1> HIDE DEF f
<1> SUFFICES ASSUME NEW n \in Name PROVE Stays(e, f, n)
  BY DEF f
<1>3. CASE \A i \in 1..Len(e) : e[i][n] = None
  <2>1. f[Len(e) + 1][n] = None
    BY <1>1 DEF Env!EmptyScope
  <2>2. \A i \in 1..Len(f) : f[i][n] = None
    BY <1>1, <1>2, <1>3, <2>1
  <2> QED
    BY <1>1, <1>3, <2>2, Unlocated DEF Stays
<1>4. CASE ~(\A i \in 1..Len(e) : e[i][n] = None)
  <2>1. PICK i \in 1..Len(e) : e[i][n] # None
    BY <1>4
  <2>2. i \in 1..Len(f) /\ f[i][n] = e[i][n]
    BY <1>1, <1>2
  <2> QED
    BY <1>1, <2>1, <2>2, Located DEF Stays
<1> QED
  BY <1>3, <1>4

\* pop_env forgets what was bound in the innermost scope, nothing else.
LEMMA PopDrops ==
  ASSUME NEW e, GoodEnv(e), ~Env!IsToplevel(e)
  PROVE  Drops(e, Env!PopEnv(e))
<1> DEFINE f == Env!PopEnv(e)
<1>1. /\ GoodEnv(f)
      /\ Len(f) = Len(e) - 1
      /\ \A i \in 1..Len(e) - 1 : f[i] = e[i]
  BY PopGood
<1>2. Len(e) \in Nat /\ Len(e) >= 1
  BY DEF GoodEnv
<1> HIDE DEF f
<1> SUFFICES ASSUME NEW n \in Name
             PROVE  IF LevelOf(e)[n] = Len(e)
                    THEN TableOf(f)[n] = None /\ LevelOf(f)[n] = 0
                    ELSE Stays(e, f, n)
  BY DEF Drops, f
<1>3. CASE \A i \in 1..Len(e) : e[i][n] = None
  <2>1. \A i \in 1..Len(f) : f[i][n] = None
    BY <1>1, <1>2, <1>3
  <2> QED
    BY <1>1, <1>2, <1>3, <2>1, Unlocated DEF Stays
<1>4. CASE ~(\A i \in 1..Len(e) : e[i][n] = None)
  <2>1. PICK i \in 1..Len(e) : e[i][n] # None
    BY <1>4
  <2>2. TableOf(e)[n] = e[i][n] /\ LevelOf(e)[n] = i
    BY <2>1, Located
  <2>3. CASE i = Len(e)
    <3>1. \A j \in 1..Len(e) : e[j][n] # None => j = i
      BY Located, <2>2
    <3>2. \A j \in 1..Len(f) : f[j][n] = None
      BY <1>1, <1>2, <2>3, <3>1
    <3> QED
      BY <1>1, <2>2, <2>3, <3>2, Unlocated
  <2>4. CASE i # Len(e)
    <3>1. i \in 1..Len(f) /\ f[i][n] = e[i][n]
      BY <1>1, <1>2, <2>4
    <3> QED
      BY <1>1, <2>1, <2>2, <2>4, <3>1, Located DEF Stays
  <2> QED
    BY <2>3, <2>4
<1> QED
  BY <1>3, <1>4

\* What the parameter loop leaves: completed entries in their scopes, the
\* parameters that were bound nowhere in the scope of the body.
LEMMA BindParamsShape ==
  ASSUME NEW e, GoodEnv(e), NEW ps, NEW n \in Name
  PROVE  /\ \A i \in 1..Len(e) :
              BindParams(e, ps)[i][n] =
                IF (\E k \in DOMAIN ps : ps[k][1] = n) /\ e[i][n] # None
                THEN Sym("defined", e[i][n].data)
                ELSE e[i][n]
         /\ ~Env!Contains(e, n) \/ BindParams(e, ps)[Len(e) + 1][n] = None
         /\ (\A k \in DOMAIN ps : ps[k][1] # n) => BindParams(e, ps)[Len(e) + 1][n] = None
<1> DEFINE Bound(m) == \E i \in DOMAIN ps : ps[i][1] = m
           DataOf(m) == ps[CHOOSE i \in DOMAIN ps : ps[i][1] = m][2]
           Outer(i) == [m \in Name |->
                          IF Bound(m) /\ e[i][m] # None
                          THEN Sym("defined", e[i][m].data)
                          ELSE e[i][m]]
           Inner == [m \in Name |->
                       IF Bound(m) /\ ~Env!Contains(e, m)
                       THEN Sym("defined", DataOf(m))
                       ELSE None]
           g == [i \in 1..Len(e) |-> Outer(i)]
           f == Append(g, Inner)
<1>1. BindParams(e, ps) = f
  BY DEF BindParams
<1>2. Len(e) \in Nat
  BY DEF GoodEnv
<1>3. Inner[n] = IF Bound(n) /\ ~Env!Contains(e, n) THEN Sym("defined", DataOf(n)) ELSE None
  OBVIOUS
<1>4. \A i \in 1..Len(e) : Outer(i)[n] = IF Bound(n) /\ e[i][n] # None
                                         THEN Sym("defined", e[i][n].data)
                                         ELSE e[i][n]
  OBVIOUS
<1> HIDE DEF Outer, Inner
<1>5. DOMAIN g = 1..Len(e) /\ Len(g) = Len(e)
  BY <1>2
<1>6. f[Len(e) + 1] = Inner /\ \A i \in 1..Len(e) : f[i] = Outer(i)
  BY <1>2, <1>5
<1> HIDE DEF f
<1> QED
  BY <1>1, <1>3, <1>4, <1>6

\* What it records.  A parameter is bound in the scope of the body, or
\* completes a declaration around it.
LEMMA BindParamsRecords ==
  ASSUME ScopeAssumption,
         NEW e, GoodEnv(e), NEW D \in SUBSET Data, NEW ps \in ParamList(D),
         CanBindParams(e, ps), NEW n \in Name
  PROVE  /\ \/ Stays(e, BindParams(e, ps), n)
            \/ Binds(e, BindParams(e, ps), n, {Len(e) + 1})
            \/ Completes(e, BindParams(e, ps), n)
         /\ Env!Contains(e, n) /\ Env!Find(e, n).status = "defined"
              => Stays(e, BindParams(e, ps), n)
<1> DEFINE f == BindParams(e, ps)
           Bound == \E k \in DOMAIN ps : ps[k][1] = n
<1>1. GoodEnv(f) /\ Len(f) = Len(e) + 1
  BY BindParamsGood
<1>2. Len(e) \in Nat
  BY DEF GoodEnv
<1>3. \A i \in 1..Len(e) : f[i][n] = IF Bound /\ e[i][n] # None
                                     THEN Sym("defined", e[i][n].data)
                                     ELSE e[i][n]
  BY BindParamsShape
<1>4. ~Env!Contains(e, n) \/ f[Len(e) + 1][n] = None
  BY BindParamsShape
<1>5. ~Bound => f[Len(e) + 1][n] = None
  BY BindParamsShape
<1>6. Bound => \E d : CanDefine(e, n, d)
  BY DEF CanBindParams
<1> HIDE DEF f
<1>7. CASE \A i \in 1..Len(e) : e[i][n] = None
  <2>1. ~Env!Contains(e, n) /\ TableOf(e)[n] = None /\ LevelOf(e)[n] = 0
    BY <1>7, Unlocated
  <2>2. \A i \in 1..Len(e) : f[i][n] = None
    BY <1>3, <1>7
  <2>3. CASE f[Len(e) + 1][n] = None
    <3>1. \A i \in 1..Len(f) : f[i][n] = None
      BY <1>1, <1>2, <2>2, <2>3
    <3> QED
      BY <1>1, <2>1, <3>1, Unlocated DEF Stays, f
  <2>4. CASE f[Len(e) + 1][n] # None
    <3>1. Len(e) + 1 \in 1..Len(f)
      BY <1>1, <1>2
    <3> QED
      BY <1>1, <2>1, <2>4, <3>1, Located DEF Binds, f
  <2> QED
    BY <2>3, <2>4
<1>8. CASE ~(\A i \in 1..Len(e) : e[i][n] = None)
  <2>1. PICK i \in 1..Len(e) : e[i][n] # None
    BY <1>8
  <2>2. /\ Env!Contains(e, n)
        /\ TableOf(e)[n] = e[i][n]
        /\ e[i][n] \in Symbol
        /\ LevelOf(e)[n] = i
    BY <2>1, Located
  <2>3. Env!Find(e, n) = e[i][n]
    BY <2>2 DEF TableOf
  <2>4. i \in 1..Len(f)
    BY <1>1, <1>2
  <2>5. CASE ~Bound
    <3>1. f[i][n] = e[i][n]
      BY <1>3, <2>5
    <3>2. TableOf(f)[n] = e[i][n] /\ LevelOf(f)[n] = i
      BY <1>1, <2>1, <2>4, <3>1, Located
    <3> QED
      BY <2>2, <3>2 DEF Stays, f
  <2>6. CASE Bound
    <3> DEFINE s == Sym("defined", e[i][n].data)
    <3>1. e[i][n].status = "declared"
      BY <1>6, <2>2, <2>3, <2>6 DEF CanDefine
    <3>2. s = [e[i][n] EXCEPT !.status = "defined"] /\ s \in Symbol
      BY <2>2 DEF Sym, Symbol
    <3>3. s # None
      BY <3>2 DEF ScopeAssumption
    <3>4. f[i][n] = s
      BY <1>3, <2>1, <2>6
    <3> HIDE DEF s
    <3>5. TableOf(f)[n] = s /\ LevelOf(f)[n] = i
      BY <1>1, <2>4, <3>3, <3>4, Located
    <3>6. Completes(e, f, n)
      BY <2>1, <2>2, <3>1, <3>2, <3>5 DEF Completes
    <3> QED
      BY <2>3, <3>1, <3>6 DEF f
  <2> QED
    BY <2>5, <2>6
<1> QED
  BY <1>7, <1>8

\* The steps of ScopedTable, in terms of the stack.
LEMMA TableSteps ==
  /\ (Records(envs, envs', {Len(envs)}) /\ Len(envs') = Len(envs)) => Table!Record
  /\ (Records(envs, envs', {Len(envs), Len(envs) + 1}) /\ Len(envs') = Len(envs) + 1)
       => Table!Open
  /\ (Drops(envs, envs') /\ Len(envs) > 1 /\ Len(envs') = Len(envs) - 1) => Table!Close
  /\ (Drops(envs, envs') /\ Len(envs) > 1 /\ Len(envs') = Len(envs)) => Table!Sibling
  /\ envs' = envs => UNCHANGED Table!tvars
<1>1. Table!Wellformed
  BY DEF Table!Wellformed
<1>2. ASSUME NEW n \in Name
      PROVE  /\ Stays(envs, envs', n) => Table!Keep(n)
             /\ \A L : Binds(envs, envs', n, L) => Table!BindIn(n, L)
             /\ Completes(envs, envs', n) => Table!Complete(n)
  BY <1>2 DEF Stays, Binds, Completes, TableOf, LevelOf, Symbol,
     Table!Keep, Table!BindIn, Table!Complete, Table!Symbol
<1>3. (Records(envs, envs', {Len(envs)}) /\ Len(envs') = Len(envs)) => Table!Record
  BY <1>1, <1>2 DEF Records, Table!Record
<1>4. (Records(envs, envs', {Len(envs), Len(envs) + 1}) /\ Len(envs') = Len(envs) + 1)
        => Table!Open
  BY <1>1, <1>2 DEF Records, Table!Open
<1>5. Drops(envs, envs') => Table!DropInnermost
  BY <1>2 DEF Drops, TableOf, LevelOf, Table!DropInnermost, Table!Forget
<1>6. envs' = envs => UNCHANGED Table!tvars
  BY DEF Table!tvars
<1> QED
  BY <1>1, <1>3, <1>4, <1>5, <1>6 DEF Table!Close, Table!Sibling

\* A program starts with an empty table.
LEMMA TableInit ==
  ASSUME Init
  PROVE  Table!Init
<1>1. GoodEnv(envs) /\ Len(envs) = 1
  BY ScopeInvInit DEF ScopeInv, Init, Env!Cleared
<1>2. \A n \in Name, i \in 1..Len(envs) : envs[i][n] = None
  BY <1>1 DEF Init, Env!Cleared, Env!EmptyScope
<1>3. \A n \in Name : ~Env!Contains(envs, n)
  BY <1>1, <1>2, Unlocated
<1> QED
  BY <1>1, <1>3 DEF Table!Init

\* Every step of the checker is a step of the table, or none at all.
LEMMA TableStep ==
  ASSUME ScopeAssumption, ScopeInv, FrameInv, [Next]_vars
  PROVE  [Table!Next]_(Table!tvars)
<1> DEFINE Goal == Table!Record \/ Table!Open \/ Table!Close \/ Table!Sibling
                     \/ Table!Reset \/ UNCHANGED Table!tvars
<1>0. GoodEnv(envs) /\ Len(envs) \in Nat /\ Len(envs) >= 1
  BY DEF ScopeInv, GoodEnv
<1>a. envs' = envs => Goal
  BY TableSteps
<1>b. Records(envs, envs', {Len(envs)}) /\ Len(envs') = Len(envs) => Goal
  BY TableSteps
<1>c. Records(envs, envs', {Len(envs), Len(envs) + 1}) /\ Len(envs') = Len(envs) + 1 => Goal
  BY TableSteps
<1>d. \A s : Throw(s) => Goal
  BY <1>a DEF Throw
<1>e. (~Env!IsToplevel(envs) /\ envs' = Env!PopEnv(envs)) => Goal
  <2> SUFFICES ASSUME ~Env!IsToplevel(envs), envs' = Env!PopEnv(envs)
               PROVE  Goal
    OBVIOUS
  <2>1. Drops(envs, envs') /\ Len(envs') = Len(envs) - 1
    BY <1>0, PopDrops, PopGood
  <2>2. Len(envs) > 1
    BY <1>0, AboveOne DEF Env!IsToplevel
  <2> QED
    BY <2>1, <2>2, TableSteps
<1> HIDE DEF Goal
<1>1. ASSUME NEW n \in Name, NEW d \in LetData \cup VarData,
             NEW u \in Use, NEW t \in Use, VisitBinding(n, d, u, t)
      PROVE  Goal
  <2>1. CASE Throw("type_error")
    BY <2>1, <1>d
  <2>2. CASE ~Throw("type_error")
    <3>1. envs' = Define(envs, n, d) /\ CanDefine(envs, n, d) /\ d \in Data
      BY <1>1, <2>2 DEF VisitBinding, Data
    <3>2. Len(envs') = Len(envs) /\ Records(envs, envs', {Len(envs)})
      BY <1>0, <3>1, DefineGood, DefineRecords
    <3> QED
      BY <3>2, <1>b
  <2> QED
    BY <2>1, <2>2
<1>2. ASSUME NEW n \in Name, NEW d \in Data \ EnumData, NEW t \in Use,
             VisitDeclaration(n, d, t)
      PROVE  Goal
  BY <1>0, <1>2, <1>b, <1>d, DeclareGood, DeclareRecords DEF VisitDeclaration
<1>3. ASSUME NEW n \in Name, NEW d \in StructData \cup EnumData, NEW t \in Use,
             VisitTypeDefinition(n, d, t)
      PROVE  Goal
  <2>1. CASE Throw("type_error")
    BY <2>1, <1>d
  <2>2. CASE ~Throw("type_error")
    <3>1. envs' = Define(envs, n, d) /\ CanDefine(envs, n, d) /\ d \in Data
      BY <1>3, <2>2 DEF VisitTypeDefinition, Data
    <3>2. Len(envs') = Len(envs) /\ Records(envs, envs', {Len(envs)})
      BY <1>0, <3>1, DefineGood, DefineRecords
    <3> QED
      BY <3>2, <1>b
  <2> QED
    BY <2>1, <2>2
<1>4. ASSUME NEW n \in Name, VisitIdentifier(n) \/ VisitCall(n) \/ VisitSelf
      PROVE  Goal
  BY <1>4, <1>d DEF VisitIdentifier, VisitCall, VisitSelf
<1>5. ASSUME VisitSelf
      PROVE  Goal
  BY <1>5, <1>d DEF VisitSelf
<1>6. ASSUME NEW n \in Name, NEW d \in FnData, NEW ps \in ParamList(LetData),
             NEW t \in Use, EnterFunction(n, d, ps, t)
      PROVE  Goal
  <2> DEFINE e == Define(envs, n, d)
             f == BindParams(e, ps)
  <2>1. CASE Throw("type_error")
    BY <2>1, <1>d
  <2>2. CASE ~Throw("type_error")
    <3>1. envs' = f /\ CanDefine(envs, n, d) /\ CanBindParams(e, ps)
      BY <1>6, <2>2 DEF EnterFunction
    <3>2. /\ GoodEnv(e)
          /\ Len(e) = Len(envs)
          /\ Records(envs, e, {Len(envs)})
          /\ \A m \in Name \ {n} : Stays(envs, e, m)
          /\ Env!Contains(e, n)
          /\ Env!Find(e, n).status = "defined"
      BY <1>0, <3>1, DefineGood, DefineRecords DEF Data
    <3> HIDE DEF e
    <3>3. Len(f) = Len(e) + 1
      BY <3>2, BindParamsGood DEF Data
    <3>4. ASSUME NEW m \in Name
          PROVE  /\ \/ Stays(e, f, m)
                    \/ Binds(e, f, m, {Len(e) + 1})
                    \/ Completes(e, f, m)
                 /\ Env!Contains(e, m) /\ Env!Find(e, m).status = "defined"
                      => Stays(e, f, m)
      BY <3>1, <3>2, BindParamsRecords DEF Data
    <3> HIDE DEF f
    <3>5. Stays(e, f, n)
      BY <3>2, <3>4
    <3>6. Records(envs, f, {Len(envs), Len(envs) + 1})
      <4> SUFFICES ASSUME NEW m \in Name
                   PROVE  \/ Stays(envs, f, m)
                          \/ Binds(envs, f, m, {Len(envs), Len(envs) + 1})
                          \/ Completes(envs, f, m)
        BY DEF Records
      <4>1. CASE m = n
        BY <3>2, <3>5, <4>1 DEF Records, Stays, Binds, Completes
      <4>2. CASE m # n
        BY <3>2, <3>4, <4>2 DEF Stays, Binds, Completes
      <4> QED
        BY <4>1, <4>2
    <3> QED
      BY <1>c, <3>1, <3>2, <3>3, <3>6
  <2> QED
    BY <2>1, <2>2
<1>7. ASSUME NEW r \in Name, NEW ps \in ParamList(VarData), EnterMethod(r, ps)
      PROVE  Goal
  <2> DEFINE f == BindParams(envs, ps)
  <2>1. CASE Throw("type_error")
    BY <2>1, <1>d
  <2>2. CASE ~Throw("type_error")
    <3>1. envs' = f /\ CanBindParams(envs, ps)
      BY <1>7, <2>2 DEF EnterMethod
    <3>2. Len(f) = Len(envs) + 1
      BY <1>0, BindParamsGood DEF Data
    <3>3. ASSUME NEW m \in Name
          PROVE  \/ Stays(envs, f, m)
                 \/ Binds(envs, f, m, {Len(envs) + 1})
                 \/ Completes(envs, f, m)
      BY <1>0, <3>1, BindParamsRecords DEF Data
    <3>4. Records(envs, f, {Len(envs), Len(envs) + 1})
      BY <3>3 DEF Records, Binds
    <3> QED
      BY <1>c, <3>1, <3>2, <3>4
  <2> QED
    BY <2>1, <2>2
<1>8. ASSUME NEW b \in Binding, NEW u \in Use, NEW alt \in BOOLEAN,
             EnterIf(b, u, alt) \/ EnterLoop(b, u)
      PROVE  Goal
  <2> DEFINE e == Bind(envs, b)
             f == Env!PushEnv(e)
  <2>1. CASE Throw("type_error")
    BY <2>1, <1>d
  <2>2. CASE ~Throw("type_error")
    <3>1. envs' = f /\ CanBind(envs, b)
      BY <1>8, <2>2 DEF EnterIf, EnterLoop
    <3>2. GoodEnv(e) /\ Len(e) = Len(envs) /\ Records(envs, e, {Len(envs)})
      BY <1>0, <3>1, BindGood, BindRecords
    <3> HIDE DEF e
    <3>3. Len(f) = Len(e) + 1 /\ \A m \in Name : Stays(e, f, m)
      BY <3>2, PushGood, PushStays
    <3> HIDE DEF f
    <3>4. Records(envs, f, {Len(envs), Len(envs) + 1})
      BY <3>2, <3>3 DEF Records, Stays, Binds, Completes
    <3> QED
      BY <1>c, <3>1, <3>2, <3>3, <3>4
  <2> QED
    BY <2>1, <2>2
<1>9. ASSUME NEW u \in Use, EnterSwitch(u)
      PROVE  Goal
  BY <1>9, <1>a, <1>d DEF EnterSwitch
<1>10. ASSUME EnterCase
       PROVE  Goal
  <2>1. envs' = Env!PushEnv(envs)
    BY <1>10 DEF EnterCase
  <2>2. Len(envs') = Len(envs) + 1 /\ \A m \in Name : Stays(envs, envs', m)
    BY <1>0, <2>1, PushGood, PushStays
  <2> QED
    BY <1>c, <2>2 DEF Records
<1>11. ASSUME NEW a \in Attr \cup {None}, EnterAttribute(a)
       PROVE  Goal
  BY <1>11, <1>a, <1>d DEF EnterAttribute
<1>12. ASSUME NEW u \in Use, LeaveBody \/ LeaveLoop(u) \/ LeaveMethod
       PROVE  Goal
  BY <1>12, <1>d, <1>e DEF LeaveBody, LeaveLoop, LeaveMethod, LeaveScope
<1>13. ASSUME LeaveThen
       PROVE  Goal
  <2>1. CASE Throw("stl_error") \/ ~Top.alt
    BY <1>13, <2>1, <1>d, <1>e DEF LeaveThen
  <2>2. CASE ~Throw("stl_error") /\ Top.alt
    <3> DEFINE e == Env!PopEnv(envs)
    <3>1. ~Env!IsToplevel(envs) /\ envs' = Env!PushEnv(e)
      BY <1>13, <2>2 DEF LeaveThen
    <3>2. GoodEnv(e) /\ Len(e) = Len(envs) - 1 /\ Drops(envs, e)
      BY <1>0, <3>1, PopGood, PopDrops
    <3> HIDE DEF e
    <3>3. Len(envs') = Len(e) + 1 /\ \A m \in Name : Stays(e, envs', m)
      BY <3>1, <3>2, PushGood, PushStays
    <3>4. Drops(envs, envs')
      BY <3>2, <3>3 DEF Drops, Stays
    <3>5. Len(envs) > 1
      BY <1>0, <3>1, AboveOne DEF Env!IsToplevel
    <3>6. Len(envs') = Len(envs)
      BY <1>0, <3>2, <3>3
    <3> QED
      BY <3>4, <3>5, <3>6, TableSteps DEF Goal
  <2> QED
    BY <2>1, <2>2
<1>14. ASSUME LeaveSwitch \/ LeaveAttribute
       PROVE  Goal
  BY <1>14, <1>a DEF LeaveSwitch, LeaveAttribute
<1>15. ASSUME Finish
       PROVE  Goal
  <2>1. Len(envs) = 1
    <3>1. DOMAIN frames = {} /\ ScopesMatchFrames
      BY <1>15 DEF Finish, FrameInv
    <3> QED
      BY <3>1, FS_EmptySet DEF ScopesMatchFrames, ScopeFrames
  <2>2. envs' = Env!Cleared
    BY <1>15 DEF Finish
  <2>3. GoodEnv(envs') /\ Len(envs') = 1
    BY <2>2 DEF GoodEnv, Unshadowed, Env!Cleared, Env!EmptyScope, Env!Scope, Env!Holders
  <2>4. \A n \in Name, i \in 1..Len(envs') : envs'[i][n] = None
    BY <2>2, <2>3 DEF Env!Cleared, Env!EmptyScope
  <2>5. \A n \in Name : ~Env!Contains(envs', n)
    BY <2>3, <2>4, Unlocated
  <2>6. Table!Reset
    BY <2>1, <2>3, <2>5 DEF Table!Reset
  <2> QED
    BY <2>6 DEF Goal
<1>16. ASSUME UNCHANGED vars
       PROVE  Goal
  BY <1>16, <1>a DEF vars
<1>17. Goal
  BY <1>1, <1>2, <1>3, <1>4, <1>5, <1>6, <1>7, <1>8, <1>9, <1>10, <1>11,
     <1>12, <1>13, <1>14, <1>15, <1>16
  DEF Next, Binding, Use
<1> QED
  BY <1>17 DEF Goal, Table!Next

\* The checker implements the table: for every program a name means one thing
\* at a time, from the point of its declaration or definition to the end of
\* the scope it was made in, and scopes close in the order in which they opened.
THEOREM TableImplemented == Spec => ImplementsTable
<1>1. Init => Table!Init
  BY TableInit
<1>2. ScopeInv /\ FrameInv /\ [Next]_vars => [Table!Next]_(Table!tvars)
  BY TableStep, ScopeAssumption
<1> QED
  BY <1>1, <1>2, ScopeInvHolds, FrameInvHolds, PTL DEF Spec, ImplementsTable, Table!Spec

-----------------------------------------------------------------------------
(* The type promoter.                                                       *)

NativeTypes == Integers12 \cup {"void", "f32", "f64", "char", "cstr", "bool"}

\* The ladder has one step for each of the twelve integer types.
LEMMA Ladder ==
  /\ Integers12 = {"int", "uint", "i8", "u8", "i16", "u16", "i32", "u32", "i64", "u64",
                   "isz", "usz"}
  /\ \A t \in Integers12 : IntLadder[t] \in Int
  /\ \A s, t \in Integers12 : IntLadder[s] = IntLadder[t] => s = t
<1>1. Integers12 = {"int", "uint", "i8", "u8", "i16", "u16", "i32", "u32", "i64", "u64",
                    "isz", "usz"}
  BY DEF Integers12, IntLadder
<1>2. \A t \in Integers12 : IntLadder[t] \in Int
  BY <1>1 DEF IntLadder
<1>3. \A s, t \in Integers12 : IntLadder[s] = IntLadder[t] => s = t
  BY <1>1 DEF IntLadder
<1> QED
  BY <1>1, <1>2, <1>3

\* promote() with PEAK, as TypePromoter::promote_int has it: for two integer
\* types the higher one on the ladder, for others none.
LEMMA Peak ==
  ASSUME NEW s \in Integers12, NEW t \in Integers12
  PROVE  Promote(s, t, "PEAK") = {IF IntLadder[s] > IntLadder[t] THEN s ELSE t}
  BY DEF Promote, PromoteInt

LEMMA ToLhs ==
  ASSUME NEW s \in Integers12, NEW t \in Integers12
  PROVE  Promote(s, t, "PROMOTE_TO_LHS") = IF IntLadder[s] >= IntLadder[t] THEN {s} ELSE {}
  BY DEF Promote, PromoteInt

\* The type of an operation does not depend on the order of its operands.
THEOREM PeakIsCommutative ==
  \A s, t \in NativeTypes : Promote(s, t, "PEAK") = Promote(t, s, "PEAK")
<1> SUFFICES ASSUME NEW s \in NativeTypes, NEW t \in NativeTypes
             PROVE  Promote(s, t, "PEAK") = Promote(t, s, "PEAK")
  OBVIOUS
<1>1. CASE s \in Integers12 /\ t \in Integers12
  <2>1. IntLadder[s] \in Int /\ IntLadder[t] \in Int
    BY <1>1, Ladder
  <2>2. IntLadder[s] = IntLadder[t] => s = t
    BY <1>1, Ladder
  <2> QED
    BY <1>1, <2>1, <2>2, Peak
<1>2. CASE ~(s \in Integers12 /\ t \in Integers12)
  BY <1>2 DEF Promote
<1> QED
  BY <1>1, <1>2

\* The type of an operation is that of one of its operands, and each operand can
\* be assigned to a variable of that type: the checker never refuses to store
\* the result of an operation in what it calls the type of the result.
THEOREM PeakHoldsBoth ==
  \A s, t \in NativeTypes : \A p \in Promote(s, t, "PEAK") :
    /\ p \in {s, t}
    /\ Promote(p, s, "PROMOTE_TO_LHS") = {p}
    /\ Promote(p, t, "PROMOTE_TO_LHS") = {p}
<1> SUFFICES ASSUME NEW s \in NativeTypes, NEW t \in NativeTypes,
                    NEW p \in Promote(s, t, "PEAK")
             PROVE  /\ p \in {s, t}
                    /\ Promote(p, s, "PROMOTE_TO_LHS") = {p}
                    /\ Promote(p, t, "PROMOTE_TO_LHS") = {p}
  OBVIOUS
<1>1. s \in Integers12 /\ t \in Integers12
  BY DEF Promote
<1>2. IntLadder[s] \in Int /\ IntLadder[t] \in Int
  BY <1>1, Ladder
<1>3. p = IF IntLadder[s] > IntLadder[t] THEN s ELSE t
  BY <1>1, Peak
<1>4. IntLadder[p] >= IntLadder[s] /\ IntLadder[p] >= IntLadder[t]
  BY <1>2, <1>3
<1>5. p \in {s, t} /\ p \in Integers12
  BY <1>1, <1>3
<1> QED
  BY <1>1, <1>4, <1>5, ToLhs

\* What can be assigned step by step can be assigned at once: the checker takes
\* a chain of assignments for the one from its last link to its first.
THEOREM PromotionIsTransitive ==
  \A s, t, u \in NativeTypes :
    Promote(s, t, "PROMOTE_TO_LHS") # {} /\ Promote(t, u, "PROMOTE_TO_LHS") # {} =>
      Promote(s, u, "PROMOTE_TO_LHS") = {s}
<1> SUFFICES ASSUME NEW s \in NativeTypes, NEW t \in NativeTypes, NEW u \in NativeTypes,
                    Promote(s, t, "PROMOTE_TO_LHS") # {},
                    Promote(t, u, "PROMOTE_TO_LHS") # {}
             PROVE  Promote(s, u, "PROMOTE_TO_LHS") = {s}
  OBVIOUS
<1>1. s \in Integers12 /\ t \in Integers12 /\ u \in Integers12
  BY DEF Promote
<1>2. IntLadder[s] \in Int /\ IntLadder[t] \in Int /\ IntLadder[u] \in Int
  BY <1>1, Ladder
<1>3. IntLadder[s] >= IntLadder[t] /\ IntLadder[t] >= IntLadder[u]
  BY <1>1, ToLhs
<1>4. IntLadder[s] >= IntLadder[u]
  BY <1>2, <1>3
<1> QED
  BY <1>1, <1>4, ToLhs

\* Two integer types are assignable in one direction at least, and in both only
\* if they are equal: no assignment loses the order of the ladder.
THEOREM PromotionIsAnOrder ==
  \A s, t \in Integers12 :
    /\ Promote(s, t, "PROMOTE_TO_LHS") # {} \/ Promote(t, s, "PROMOTE_TO_LHS") # {}
    /\ (Promote(s, t, "PROMOTE_TO_LHS") # {} /\ Promote(t, s, "PROMOTE_TO_LHS") # {})
         <=> s = t
<1> SUFFICES ASSUME NEW s \in Integers12, NEW t \in Integers12
             PROVE  /\ Promote(s, t, "PROMOTE_TO_LHS") # {} \/
                         Promote(t, s, "PROMOTE_TO_LHS") # {}
                    /\ (Promote(s, t, "PROMOTE_TO_LHS") # {} /\
                        Promote(t, s, "PROMOTE_TO_LHS") # {}) <=> s = t
  OBVIOUS
<1>1. IntLadder[s] \in Int /\ IntLadder[t] \in Int
  BY Ladder
<1>2. IntLadder[s] = IntLadder[t] <=> s = t
  BY Ladder
<1>3. Promote(s, t, "PROMOTE_TO_LHS") # {} <=> IntLadder[s] >= IntLadder[t]
  BY ToLhs
<1>4. Promote(t, s, "PROMOTE_TO_LHS") # {} <=> IntLadder[t] >= IntLadder[s]
  BY ToLhs
<1> QED
  BY <1>1, <1>2, <1>3, <1>4
=============================================================================
