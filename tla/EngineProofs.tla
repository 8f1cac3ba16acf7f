---------------------------- MODULE EngineProofs ----------------------------
(***************************************************************************)
(* Theorems about Engine, for every vocabulary, prompt set, context size,  *)
(* batch size and kind of memory.                                          *)
(***************************************************************************)
EXTENDS Engine, SequenceTheorems, WellFoundedInduction, TLAPS

(* reusable_prefix's loop always ends somewhere, and what it has counted is a
   common prefix that leaves the prompt's last token to be decoded, and cannot
   be extended. *)
LEMMA ReusablePrefixIsShared ==
  ASSUME NEW c \in Seq(Token), NEW p \in Seq(Token), p # <<>>
  PROVE  /\ reusable_prefix(c, p) \in Nat
         /\ reusable_prefix(c, p) <= Len(c)
         /\ reusable_prefix(c, p) < Len(p)
         /\ \A i \in 1..reusable_prefix(c, p) : c[i] = p[i]
         /\ \/ reusable_prefix(c, p) = Len(c) \/ reusable_prefix(c, p) = Len(p) - 1
            \/ c[reusable_prefix(c, p) + 1] # p[reusable_prefix(c, p) + 1]
<1> DEFINE limit == IF Len(c) < Len(p) - 1 THEN Len(c) ELSE Len(p) - 1
           Ends(n) == n = limit \/ c[n + 1] # p[n + 1]
           T == {n \in 0..limit : Ends(n)}
           Good(n) == (\A i \in 1..n : c[i] = p[i]) /\ Ends(n)
<1>1. Len(c) \in Nat /\ Len(p) \in Nat /\ Len(p) >= 1 /\ limit \in Nat
  BY EmptySeq, LenProperties
<1>2. T \subseteq Nat /\ limit \in T
  BY <1>1
<1>3. PICK n \in T : \A m \in T : ~(<<m, n>> \in OpToRel(<, Nat))
  BY <1>2, WFMin, NatLessThanWellFounded
<1>4. \A m \in T : ~(m < n)
  BY <1>2, <1>3 DEF OpToRel
<1>5. \A i \in 1..n : c[i] = p[i]
  <2> SUFFICES ASSUME NEW i \in 1..n, c[i] # p[i] PROVE FALSE
    OBVIOUS
  <2>1. n \in 0..limit /\ n \in Nat
    BY <1>1
  <2>2. i - 1 \in 0..limit /\ i - 1 < n /\ (i - 1) + 1 = i
    BY <1>1, <2>1
  <2>3. Ends(i - 1)
    BY <2>2
  <2>4. i - 1 \in T
    BY <2>2, <2>3
  <2> QED BY <2>2, <2>4, <1>4
<1>6. \E k \in 0..limit : Good(k)
  BY <1>3, <1>5
<1>7. reusable_prefix(c, p) = CHOOSE k \in 0..limit : Good(k)
  BY DEF reusable_prefix
<1> HIDE DEF Good
<1>8. reusable_prefix(c, p) \in 0..limit /\ Good(reusable_prefix(c, p))
  BY <1>6, <1>7
<1> QED BY <1>1, <1>8 DEF Good

-----------------------------------------------------------------------------
(* Sequences *)

\* Sequences that agree up to k have the same first k elements.
LEMMA SharedPrefix ==
  ASSUME NEW s \in Seq(Token), NEW t \in Seq(Token), NEW k \in Nat,
         k <= Len(s), k <= Len(t), \A i \in 1..k : s[i] = t[i]
  PROVE  /\ SubSeq(s, 1, k) = SubSeq(t, 1, k)
         /\ SubSeq(s, 1, k) \in Seq(Token)
         /\ Len(SubSeq(s, 1, k)) = k
<1>1. Len(s) \in Nat /\ Len(t) \in Nat
  BY LenProperties
<1>2. \A i \in 1..k : s[i] \in Token /\ t[i] \in Token
  BY <1>1, ElementOfSeq
<1>3. /\ SubSeq(s, 1, k) \in Seq(Token)
      /\ Len(SubSeq(s, 1, k)) = k
      /\ \A i \in 1..k : SubSeq(s, 1, k)[i] = s[i]
  BY <1>2, SubSeqProperties
<1>4. /\ SubSeq(t, 1, k) \in Seq(Token)
      /\ Len(SubSeq(t, 1, k)) = k
      /\ \A i \in 1..k : SubSeq(t, 1, k)[i] = t[i]
  BY <1>2, SubSeqProperties
<1> QED BY <1>3, <1>4, SeqEqual

\* A nonempty sequence is its front and its last element.
LEMMA FrontLast ==
  ASSUME NEW s \in Seq(Token), s # <<>>
  PROVE  Front(s) \in Seq(Token) /\ Last(s) \in Token /\ s = Append(Front(s), Last(s))
<1>1. PICK f \in Seq(Token), x \in Token : s = Append(f, x)
  BY SequenceEmptyOrAppend
<1>2. /\ Len(f) \in Nat /\ Len(s) = Len(f) + 1 /\ s[Len(s)] = x
      /\ \A i \in 1..Len(f) : s[i] = f[i]
  BY <1>1, AppendProperties, LenProperties
<1>3. SubSeq(s, 1, Len(f)) = SubSeq(f, 1, Len(f))
  BY <1>2, SharedPrefix
<1>4. Front(s) = f
  BY <1>2, <1>3, SubSeqFull DEF Front
<1> QED BY <1>1, <1>2, <1>4 DEF Last

\* Front undoes Append, as when said loses the token that ended a run.
LEMMA FrontOfAppend ==
  ASSUME NEW s \in Seq(Token), NEW t \in Token
  PROVE  /\ Append(s, t) \in Seq(Token) /\ Append(s, t) # <<>>
         /\ Front(Append(s, t)) = s
         /\ Last(Append(s, t)) = t
<1>1. Append(s, t) \in Seq(Token) /\ Append(s, t) # <<>>
  BY AppendProperties
<1>2. /\ Front(Append(s, t)) \in Seq(Token) /\ Last(Append(s, t)) \in Token
      /\ Append(s, t) = Append(Front(Append(s, t)), Last(Append(s, t)))
  BY <1>1, FrontLast
<1> QED BY <1>1, <1>2, AppendInjective

\* Appending to a concatenation appends to its second part.
LEMMA AppendToConcat ==
  ASSUME NEW p \in Seq(Token), NEW f \in Seq(Token), NEW x \in Token
  PROVE  Append(p \o f, x) = p \o Append(f, x)
<1>1. /\ p \o f \in Seq(Token) /\ Len(p \o f) = Len(p) + Len(f)
      /\ Len(p) \in Nat /\ Len(f) \in Nat
  BY ConcatProperties, LenProperties
<1>2. /\ Append(f, x) \in Seq(Token) /\ Len(Append(f, x)) = Len(f) + 1
      /\ Append(p \o f, x) \in Seq(Token) /\ Len(Append(p \o f, x)) = Len(p) + Len(f) + 1
  BY <1>1, AppendProperties
<1>3. p \o Append(f, x) \in Seq(Token) /\ Len(p \o Append(f, x)) = Len(p) + Len(f) + 1
  BY <1>1, <1>2, ConcatProperties
<1>4. \A i \in 1..(Len(p) + Len(f) + 1) : Append(p \o f, x)[i] = (p \o Append(f, x))[i]
  BY <1>1, <1>2
<1> QED BY <1>2, <1>3, <1>4, SeqEqual

\* A prefix agrees with the sequence it is a prefix of.
LEMMA PrefixAgrees ==
  ASSUME NEW s \in Seq(Token), NEW t \in Seq(Token)
  PROVE  IsPrefix(s, t) <=> Len(s) <= Len(t) /\ \A i \in 1..Len(s) : s[i] = t[i]
<1>1. Len(s) \in Nat /\ Len(t) \in Nat /\ SubSeq(s, 1, Len(s)) = s
  BY LenProperties, SubSeqFull
<1>2. ASSUME Len(s) <= Len(t)
      PROVE  /\ SubSeq(t, 1, Len(s)) \in Seq(Token) /\ Len(SubSeq(t, 1, Len(s))) = Len(s)
             /\ \A i \in 1..Len(s) : SubSeq(t, 1, Len(s))[i] = t[i]
  <2>1. \A i \in 1..Len(s) : t[i] \in Token
    BY <1>1, <1>2, ElementOfSeq
  <2> QED BY <1>1, <1>2, <2>1, SubSeqProperties
<1>3. ASSUME Len(s) <= Len(t), \A i \in 1..Len(s) : s[i] = t[i] PROVE SubSeq(t, 1, Len(s)) = s
  BY <1>1, <1>2, <1>3, SeqEqual
<1> QED BY <1>1, <1>2, <1>3 DEF IsPrefix

\* What reusable_prefix counts is the longest prefix that the cache shares with the
\* prompt less its last token.
LEMMA ReusableIsLongest ==
  ASSUME NEW c \in Seq(Token), NEW p \in Seq(Token), p # <<>>
  PROVE  Len(LongestCommonPrefix({c, Front(p)})) = reusable_prefix(c, p)
<1> DEFINE n == reusable_prefix(c, p)
           q == Front(p)
           L == SubSeq(c, 1, n)
           Common == CommonPrefixes({c, q})
           Best(x) == \A other \in Common : Len(other) <= Len(x)
<1>1. /\ n \in Nat /\ n <= Len(c) /\ n < Len(p) /\ \A i \in 1..n : c[i] = p[i]
      /\ n = Len(c) \/ n = Len(p) - 1 \/ c[n + 1] # p[n + 1]
  BY ReusablePrefixIsShared
<1>2. Len(c) \in Nat /\ Len(p) \in Nat
  BY LenProperties
<1>3. q \in Seq(Token) /\ Len(q) = Len(p) - 1 /\ \A i \in 1..Len(q) : q[i] = p[i]
  <2>1. q \in Seq(Token) /\ Last(p) \in Token /\ p = Append(q, Last(p))
    BY FrontLast
  <2> HIDE DEF q
  <2>2. Len(p) = Len(q) + 1 /\ Len(q) \in Nat
    BY <2>1, AppendProperties, LenProperties
  <2>3. \A i \in 1..Len(q) : Append(q, Last(p))[i] = q[i]
    BY <2>1, AppendProperties
  <2> QED BY <2>1, <2>2, <2>3
<1> HIDE DEF n, q
<1>4. /\ L \in Seq(Token) /\ Len(L) = n /\ \A i \in 1..n : L[i] = c[i]
  <2>1. \A i \in 1..n : c[i] \in Token
    BY <1>1, <1>2, ElementOfSeq
  <2> QED BY <1>1, <1>2, <2>1, SubSeqProperties
<1>5. L \in Prefixes(c)
  BY <1>1, <1>2 DEF Prefixes
<1> HIDE DEF L
<1>6. IsPrefix(L, c) /\ IsPrefix(L, q)
  BY <1>1, <1>2, <1>3, <1>4, PrefixAgrees
<1>7. L \in Common
  BY <1>5, <1>6 DEF CommonPrefixes
<1>8. ASSUME NEW x \in Common PROVE Len(x) \in Nat /\ Len(x) <= n
  <2>1. IsPrefix(x, c) /\ IsPrefix(x, q) /\ (x \in Prefixes(c) \/ x \in Prefixes(q))
    BY <1>8 DEF CommonPrefixes
  <2>2. PICK s \in {c, q} : \E l \in 0..Len(s) : x = SubSeq(s, 1, l)
    BY <2>1 DEF Prefixes
  <2>3. s \in Seq(Token) /\ Len(s) \in Nat
    BY <1>2, <1>3, LenProperties
  <2>4. PICK l \in 0..Len(s) : x = SubSeq(s, 1, l) /\ \A i \in 1..l : s[i] \in Token
    BY <2>2, <2>3, ElementOfSeq
  <2>5. x \in Seq(Token) /\ Len(x) \in Nat
    BY <2>3, <2>4, SubSeqProperties, LenProperties
  <2>6. /\ Len(x) <= Len(c) /\ \A i \in 1..Len(x) : x[i] = c[i]
        /\ Len(x) <= Len(q) /\ \A i \in 1..Len(x) : x[i] = q[i]
    BY <1>3, <2>1, <2>5, PrefixAgrees
  <2>7. ASSUME Len(x) > n PROVE FALSE
    <3>1. n + 1 \in 1..Len(x) /\ n + 1 \in 1..Len(q)
      BY <1>1, <1>2, <1>3, <2>5, <2>6, <2>7
    <3>2. c[n + 1] = p[n + 1]
      BY <1>3, <2>6, <3>1
    <3> QED BY <1>1, <1>2, <1>3, <2>5, <2>6, <2>7, <3>2
  <2> QED BY <1>1, <2>5, <2>7
<1>9. LongestCommonPrefix({c, q}) = CHOOSE x \in Common : Best(x)
  BY DEF LongestCommonPrefix
<1>10. Best(L)
  BY <1>4, <1>8
<1> HIDE DEF Best, Common
<1>11. LongestCommonPrefix({c, q}) \in Common /\ Best(LongestCommonPrefix({c, q}))
  BY <1>7, <1>9, <1>10
<1>12. Len(L) <= Len(LongestCommonPrefix({c, q}))
  BY <1>7, <1>11 DEF Best
<1>13. Len(LongestCommonPrefix({c, q})) = n
  BY <1>1, <1>4, <1>8, <1>11, <1>12
<1> QED BY <1>13 DEF n, q

-----------------------------------------------------------------------------
(* The memory and its record *)

\* The record is the memory, the memory fits the context and its window is intact.
MemoryInv ==
  /\ cached \in Seq(Token) /\ kv \in Seq(Token) /\ cached = kv
  /\ Len(kv) <= n_ctx_seq
  /\ kvMin \in 0..Len(kv) /\ WindowIntact

\* clear_cache leaves an empty memory and a record that says so.
LEMMA ClearKeepsMemory ==
  ASSUME clear_cache
  PROVE  MemoryInv' /\ kv' = <<>>
BY EmptySeq, SizesAreNonzero DEF clear_cache, MemoryInv, WindowIntact

\* A successful decode appends the same batch to the memory and its record.
LEMMA DecodeKeepsMemory ==
  ASSUME MemoryInv, NEW batch \in Seq(Token), DecodeOk(batch)
  PROVE  MemoryInv' /\ kv' = kv \o batch
<1>1. /\ kv \o batch \in Seq(Token) /\ Len(kv \o batch) = Len(kv) + Len(batch)
      /\ Len(kv) \in Nat /\ Len(batch) \in Nat
  BY ConcatProperties, LenProperties DEF MemoryInv
<1>2. kvMin' \in 0..Len(kv') /\ WindowIntact'
  BY <1>1, MemoryIsSome DEF MemoryInv, DecodeOk, MayForget, WindowIntact
<1> QED BY <1>1, <1>2 DEF MemoryInv, DecodeOk

\* keep_prefix leaves exactly the first tokens of the prompt, as many as it says.
LEMMA KeepPrefixKeepsMemory ==
  ASSUME MemoryInv, NEW p \in Seq(Token), p # <<>>, NEW keep \in Nat, keep_prefix(p, keep)
  PROVE  MemoryInv' /\ keep < Len(p) /\ kv' = SubSeq(p, 1, keep)
<1> DEFINE shared == reusable_prefix(cached, p)
<1>1. /\ shared \in Nat /\ shared <= Len(cached) /\ shared < Len(p)
      /\ \A i \in 1..shared : cached[i] = p[i]
  BY ReusablePrefixIsShared DEF MemoryInv
<1>2. Len(p) \in Nat /\ Len(cached) \in Nat
  BY LenProperties DEF MemoryInv
<1>3. CASE keep = 0 /\ clear_cache
  BY <1>1, <1>2, <1>3, ClearKeepsMemory, SubSeqEmpty
<1>4. CASE /\ keep = shared /\ kvMin = 0
           /\ kv' = SubSeq(kv, 1, shared)
           /\ cached' = SubSeq(cached, 1, shared)
           /\ UNCHANGED kvMin
  <2>1. /\ SubSeq(cached, 1, shared) = SubSeq(p, 1, shared)
        /\ SubSeq(cached, 1, shared) \in Seq(Token)
        /\ Len(SubSeq(cached, 1, shared)) = shared
    BY <1>1, <1>2, SharedPrefix DEF MemoryInv
  <2>2. kv' = SubSeq(cached, 1, shared) /\ cached' = kv' /\ kvMin' = 0
    BY <1>4 DEF MemoryInv
  <2> HIDE DEF shared
  <2>3. MemoryInv'
    BY <1>1, <1>2, <2>1, <2>2, SizesAreNonzero DEF MemoryInv, WindowIntact
  <2> QED BY <1>1, <1>4, <2>1, <2>2, <2>3
<1> QED BY <1>3, <1>4 DEF keep_prefix

-----------------------------------------------------------------------------
(* The inductive invariant *)

\* One caller at a time is past the lock.
ControlInv ==
  /\ lock \in Callers \cup {NoCaller}
  /\ pc \in [Callers -> PCs]
  /\ req \in [Callers -> Request]
  /\ off \in Nat /\ kept \in Nat
  /\ said \in Seq(Token)
  /\ result \in [Callers -> Outcomes]
  /\ \A c \in Callers : pc[c] \in Inside <=> lock = c

\* What the memory holds at each stage of a call.
StageInv(c) ==
  /\ pc[c] = "admit" => said = <<>>
  /\ pc[c] = "prompt" =>
       /\ said = <<>>
       /\ Len(req[c].tokens) < n_ctx_seq
       /\ off < Len(req[c].tokens)
       /\ kv = SubSeq(req[c].tokens, 1, off)
  /\ pc[c] = "sample" => kv = req[c].tokens \o said
  /\ pc[c] = "extend" =>
       /\ said # <<>>
       /\ kv = req[c].tokens \o Front(said)
       /\ Len(kv) < n_ctx_seq

\* The inductive invariant.
IInv == MemoryInv /\ ControlInv /\ \A c \in Callers : StageInv(c)

\* A request brings a sequence of tokens and an integer budget.
LEMMA RequestTyped ==
  ASSUME ControlInv, NEW c \in Callers
  PROVE  /\ req[c] \in Request
         /\ req[c].tokens \in Prompts /\ req[c].tokens \in Seq(Token)
         /\ Len(req[c].tokens) \in Nat
         /\ req[c].max_tokens \in Int
<1>1. req[c] \in Request
  BY DEF ControlInv
<1>2. req[c].tokens \in Prompts
  BY <1>1 DEF Request
<1>3. req[c].tokens \in Seq(Token)
  BY <1>2, VocabularyTyped
<1>4. req[c].max_tokens \in Int
  BY <1>1, CallersTyped DEF Request
<1> QED BY <1>1, <1>2, <1>3, <1>4, LenProperties

\* Leaving frees the lock, and then nobody is past it.
LEMMA LeaveKeepsInvariant ==
  ASSUME IInv, NEW c \in Callers, pc[c] \in Inside,
         NEW outcome \in Outcomes, Leave(c, outcome),
         MemoryInv', said' \in Seq(Token), UNCHANGED <<req, off, kept>>
  PROVE  IInv'
<1>1. lock = c /\ \A d \in Callers : d # c => pc[d] \notin Inside
  BY DEF IInv, ControlInv
<1>2. \A d \in Callers : pc'[d] \in PCs \ Inside
  BY <1>1 DEF IInv, ControlInv, Leave, PCs, Inside
<1>3. ControlInv'
  BY <1>2, CallersTyped DEF IInv, ControlInv, Leave, PCs, Inside
<1>4. \A d \in Callers : StageInv(d)'
  BY <1>2 DEF StageInv, Inside
<1> QED BY <1>3, <1>4 DEF IInv

\* Moving on inside leaves everyone else outside.
LEMMA MoveKeepsControl ==
  ASSUME IInv, NEW c \in Callers, pc[c] \in Inside, NEW to \in Inside,
         pc' = [pc EXCEPT ![c] = to],
         off' \in Nat, kept' \in Nat, said' \in Seq(Token), UNCHANGED <<lock, req, result>>
  PROVE  ControlInv' /\ pc'[c] = to /\ \A d \in Callers : d # c => pc'[d] \notin Inside
<1>1. lock = c /\ \A d \in Callers : d # c => pc[d] \notin Inside
  BY DEF IInv, ControlInv
<1>2. pc' \in [Callers -> PCs] /\ pc'[c] = to /\ \A d \in Callers : d # c => pc'[d] = pc[d]
  BY DEF IInv, ControlInv, PCs, Inside
<1>3. ControlInv'
  BY <1>1, <1>2 DEF IInv, ControlInv
<1> QED BY <1>1, <1>2, <1>3

\* A step inside generate() keeps the invariant if it keeps its own stage's part.
LEMMA MoveKeepsInvariant ==
  ASSUME IInv, NEW c \in Callers, pc[c] \in Inside, NEW to \in Inside,
         pc' = [pc EXCEPT ![c] = to],
         off' \in Nat, kept' \in Nat, said' \in Seq(Token), UNCHANGED <<lock, req, result>>,
         MemoryInv', StageInv(c)'
  PROVE  IInv'
<1>1. ControlInv' /\ \A d \in Callers : d # c => pc'[d] \notin Inside
  BY MoveKeepsControl
<1>2. \A d \in Callers : StageInv(d)'
  BY <1>1 DEF StageInv, Inside
<1> QED BY <1>1, <1>2 DEF IInv

\* The invariant holds in a freshly constructed engine.
LEMMA InitEstablishes == Init => IInv
<1> SUFFICES ASSUME Init PROVE IInv
  OBVIOUS
<1>1. MemoryInv
  BY EmptySeq, SizesAreNonzero DEF Init, MemoryInv, WindowIntact
<1>2. \E r : r \in Request
  <2>1. PICK p \in Prompts, m \in Budgets : TRUE
    BY CallersTyped
  <2>2. [tokens |-> p, max_tokens |-> m, grammar_ok |-> TRUE] \in Request
    BY DEF Request
  <2> QED BY <2>2
<1>3. req \in [Callers -> Request]
  BY <1>2 DEF Init
<1>4. ControlInv
  BY <1>3, EmptySeq, CallersTyped DEF Init, ControlInv, PCs, Inside, Outcomes
<1>5. \A c \in Callers : StageInv(c)
  BY DEF Init, StageInv
<1> QED BY <1>1, <1>4, <1>5 DEF IInv

-----------------------------------------------------------------------------
(* Every action keeps the invariant *)

\* A step that leaves the memory and its record alone keeps their invariant.
LEMMA UnchangedMemory ==
  ASSUME MemoryInv, UNCHANGED memory
  PROVE  MemoryInv'
BY DEF MemoryInv, memory, WindowIntact

\* Entering generate() touches nothing the lock protects.
LEMMA CallKeepsInvariant ==
  ASSUME IInv, NEW c \in Callers, Call(c)
  PROVE  IInv'
<1>1. MemoryInv'
  BY UnchangedMemory DEF IInv, Call
<1>2. PICK r \in Request : req' = [req EXCEPT ![c] = r]
  BY DEF Call
<1>3. pc'[c] = "waiting" /\ pc[c] = "idle" /\ \A d \in Callers : d # c => pc'[d] = pc[d] /\ req'[d] = req[d]
  BY <1>2 DEF IInv, ControlInv, Call, Goto
<1>4. ControlInv'
  BY <1>2, <1>3 DEF IInv, ControlInv, Call, Goto, PCs, Inside, Outcomes
<1>5. \A d \in Callers : StageInv(d)'
  BY <1>3 DEF IInv, StageInv, Call, memory
<1> QED BY <1>1, <1>4, <1>5 DEF IInv

\* The mutex is only taken when nobody is past it.
LEMMA LockKeepsInvariant ==
  ASSUME IInv, NEW c \in Callers, Lock(c)
  PROVE  IInv'
<1>1. MemoryInv'
  BY UnchangedMemory DEF IInv, Lock
<1>2. \A d \in Callers : pc[d] \notin Inside
  BY CallersTyped DEF IInv, ControlInv, Lock
<1>3. pc'[c] = "admit" /\ \A d \in Callers : d # c => pc'[d] = pc[d]
  BY DEF IInv, ControlInv, Lock, Goto
<1>4. ControlInv'
  BY <1>2, <1>3, EmptySeq DEF IInv, ControlInv, Lock, Goto, PCs, Inside
<1>5. \A d \in Callers : StageInv(d)'
  BY <1>2, <1>3 DEF StageInv, Lock, Inside
<1> QED BY <1>1, <1>4, <1>5 DEF IInv

\* Every way out of generate() that leaves the memory alone.
LEMMA ReturnKeepsInvariant ==
  ASSUME IInv, NEW c \in Callers,
         Refuse(c) \/ BudgetSpent(c) \/ SampleEog(c) \/ GenerationThrows(c)
  PROVE  IInv'
<1>1. pc[c] \in Inside /\ UNCHANGED <<memory, req, off, kept, said>>
  BY DEF Refuse, BudgetSpent, SampleEog, GenerationThrows, Inside
<1>2. PICK outcome \in Outcomes : Leave(c, outcome)
  BY DEF Refuse, BudgetSpent, SampleEog, GenerationThrows, Outcomes, Reasons
<1>3. MemoryInv' /\ said' \in Seq(Token)
  BY <1>1, UnchangedMemory DEF IInv, ControlInv
<1> QED BY <1>1, <1>2, <1>3, LeaveKeepsInvariant

\* A failed decode empties the memory on its way out.
LEMMA FailureKeepsInvariant ==
  ASSUME IInv, NEW c \in Callers, PromptFails(c) \/ DecodeTokenFails(c)
  PROVE  IInv'
<1>1. pc[c] \in Inside /\ UNCHANGED <<req, off, kept, said>> /\ clear_cache
  BY DEF PromptFails, DecodeTokenFails, DecodeFails, Inside
<1>2. PICK outcome \in Outcomes : Leave(c, outcome)
  BY DEF PromptFails, DecodeTokenFails, Outcomes, Reasons
<1>3. MemoryInv' /\ said' \in Seq(Token)
  BY <1>1, ClearKeepsMemory DEF IInv, ControlInv
<1> QED BY <1>1, <1>2, <1>3, LeaveKeepsInvariant

\* After keep_prefix the prompt loop starts where the memory ends.
LEMMA KeepPrefixKeepsInvariant ==
  ASSUME IInv, NEW c \in Callers, KeepPrefix(c)
  PROVE  IInv'
<1> DEFINE p == req[c].tokens
<1>1. p \in Seq(Token) /\ Len(p) \in Nat /\ Len(p) \in 1..(n_ctx_seq - 1)
  BY RequestTyped DEF IInv, KeepPrefix, Admissible
<1>2. p # <<>> /\ Len(p) < n_ctx_seq
  BY <1>1, EmptySeq, SizesAreNonzero
<1>3. PICK keep \in 0..Len(p) : keep_prefix(p, keep) /\ off' = keep /\ kept' = keep
  BY DEF KeepPrefix
<1>4. MemoryInv' /\ keep < Len(p) /\ kv' = SubSeq(p, 1, keep) /\ keep \in Nat
  BY <1>1, <1>2, <1>3, KeepPrefixKeepsMemory DEF IInv
<1>5. pc[c] = "admit" /\ pc' = [pc EXCEPT ![c] = "prompt"] /\ UNCHANGED <<lock, req, said, result>>
  BY DEF KeepPrefix, Goto
<1>6. said = <<>> /\ said \in Seq(Token)
  BY <1>5 DEF IInv, ControlInv, StageInv
<1>7. pc'[c] = "prompt"
  BY <1>5 DEF IInv, ControlInv
<1>8. StageInv(c)'
  BY <1>2, <1>3, <1>4, <1>5, <1>6, <1>7 DEF StageInv
<1> QED BY <1>3, <1>4, <1>5, <1>6, <1>8, MoveKeepsInvariant DEF Inside

\* The next chunk of the prompt: not empty, no larger than a batch.
LEMMA ChunkTyped ==
  ASSUME IInv, NEW c \in Callers, pc[c] = "prompt"
  PROVE  /\ ChunkEnd(c) \in (off + 1)..Len(req[c].tokens)
         /\ ChunkEnd(c) - off <= n_batch
         /\ PromptChunk(c) \in Seq(Token)
         /\ Len(PromptChunk(c)) = ChunkEnd(c) - off
         /\ kv \o PromptChunk(c) = SubSeq(req[c].tokens, 1, ChunkEnd(c))
<1> DEFINE p == req[c].tokens
<1>1. p \in Seq(Token) /\ Len(p) \in Nat
  BY RequestTyped DEF IInv
<1>2. off \in Nat /\ off < Len(p) /\ kv = SubSeq(p, 1, off)
  BY DEF IInv, ControlInv, StageInv
<1>3. ChunkEnd(c) \in (off + 1)..Len(p) /\ ChunkEnd(c) - off <= n_batch
  BY <1>1, <1>2, SizesAreNonzero DEF ChunkEnd
<1>4. \A i \in (off + 1)..ChunkEnd(c) : p[i] \in Token
  BY <1>1, <1>2, <1>3, ElementOfSeq
<1>5. PromptChunk(c) \in Seq(Token) /\ Len(PromptChunk(c)) = ChunkEnd(c) - off
  BY <1>1, <1>2, <1>3, <1>4, SubSeqProperties DEF PromptChunk
<1>6. SubSeq(p, 1, off) \o SubSeq(p, off + 1, ChunkEnd(c)) = SubSeq(p, 1, ChunkEnd(c))
  <2>1. 1 \in 1..Len(p) + 1 /\ off \in 1 - 1..Len(p) /\ ChunkEnd(c) \in off..Len(p)
    BY <1>1, <1>2, <1>3
  <2> QED BY <1>1, <2>1, ConcatAdjacentSubSeq
<1> QED BY <1>2, <1>3, <1>5, <1>6 DEF PromptChunk

\* Each chunk brings the memory to the next place in the prompt.
LEMMA DecodePromptKeepsInvariant ==
  ASSUME IInv, NEW c \in Callers, DecodePrompt(c)
  PROVE  IInv'
<1> DEFINE p == req[c].tokens
           to == IF ChunkEnd(c) = Len(p) THEN "sample" ELSE "prompt"
<1>1. pc[c] = "prompt" /\ pc' = [pc EXCEPT ![c] = to]
  BY DEF DecodePrompt, Goto
<1>2. p \in Seq(Token) /\ Len(p) \in Nat /\ off \in Nat
  BY RequestTyped DEF IInv, ControlInv
<1>3. /\ ChunkEnd(c) \in (off + 1)..Len(p) /\ PromptChunk(c) \in Seq(Token)
      /\ kv \o PromptChunk(c) = SubSeq(p, 1, ChunkEnd(c))
  BY <1>1, ChunkTyped
<1>4. MemoryInv' /\ kv' = SubSeq(p, 1, ChunkEnd(c))
  BY <1>3, DecodeKeepsMemory DEF IInv, DecodePrompt
<1>5. off' = ChunkEnd(c) /\ UNCHANGED <<lock, req, kept, said, result>>
  BY DEF DecodePrompt
<1>6. said = <<>> /\ said \in Seq(Token) /\ Len(p) < n_ctx_seq /\ kept \in Nat
  BY <1>1 DEF IInv, ControlInv, StageInv
<1>7. pc'[c] = to
  BY <1>1 DEF IInv, ControlInv
<1>8. StageInv(c)'
  <2>1. CASE ChunkEnd(c) = Len(p)
    <3>1. kv' = p
      BY <1>2, <1>4, <2>1, SubSeqFull
    <3>2. p \o <<>> = p
      BY <1>2, ConcatEmptySeq
    <3> QED BY <1>5, <1>6, <1>7, <2>1, <3>1, <3>2 DEF StageInv
  <2>2. CASE ChunkEnd(c) # Len(p)
    BY <1>2, <1>3, <1>4, <1>5, <1>6, <1>7, <2>2 DEF StageInv
  <2> QED BY <2>1, <2>2
<1>9. off' \in Nat /\ kept' \in Nat /\ said' \in Seq(Token)
  BY <1>2, <1>3, <1>5, <1>6
<1>10. pc[c] \in Inside /\ to \in Inside
  BY <1>1 DEF Inside
<1> QED BY <1>1, <1>4, <1>5, <1>8, <1>9, <1>10, MoveKeepsInvariant

\* A sampled token is one ahead of the memory, and only where there is room.
LEMMA SampleTokenKeepsInvariant ==
  ASSUME IInv, NEW c \in Callers, SampleToken(c)
  PROVE  IInv'
<1>1. pc[c] = "sample" /\ UNCHANGED <<memory, req, off, kept>>
  BY DEF SampleToken
<1>2. PICK t \in Token \ Eog : said' = Append(said, t)
  BY DEF SampleToken
<1>3. said \in Seq(Token) /\ off \in Nat /\ kept \in Nat /\ kv = req[c].tokens \o said
  BY <1>1 DEF IInv, ControlInv, StageInv
<1>4. said' \in Seq(Token) /\ said' # <<>> /\ Front(said') = said
  BY <1>2, <1>3, FrontOfAppend
<1>5. MemoryInv'
  BY <1>1, UnchangedMemory DEF IInv
<1>6. PICK status \in {"Continue", "Stop", "Cancelled"} :
        \/ /\ AfterPush(c, status) = "continue"
           /\ pc' = [pc EXCEPT ![c] = "extend"] /\ UNCHANGED <<lock, result>>
        \/ /\ AfterPush(c, status) # "continue"
           /\ Leave(c, AfterPush(c, status))
  BY DEF SampleToken, Goto
<1>7. CASE AfterPush(c, status) = "continue"
  <2>1. pc' = [pc EXCEPT ![c] = "extend"] /\ UNCHANGED <<lock, result>>
    BY <1>6, <1>7
  <2>2. ~(Len(cached) + 1 > n_ctx_seq)
    BY <1>7 DEF AfterPush
  <2>3. Len(kv) < n_ctx_seq
    <3>1. Len(kv) \in Nat /\ cached = kv
      BY LenProperties DEF IInv, MemoryInv
    <3> QED BY <2>2, <3>1, SizesAreNonzero
  <2>4. pc'[c] = "extend"
    BY <2>1 DEF IInv, ControlInv
  <2>5. StageInv(c)'
    BY <1>1, <1>3, <1>4, <2>3, <2>4 DEF StageInv, memory
  <2>6. pc[c] \in Inside /\ "extend" \in Inside
    BY <1>1 DEF Inside
  <2> QED BY <1>1, <1>3, <1>4, <1>5, <2>1, <2>5, <2>6, MoveKeepsInvariant
<1>8. CASE AfterPush(c, status) # "continue"
  <2>1. AfterPush(c, status) \in Outcomes
    BY <1>8 DEF AfterPush, Outcomes, Reasons
  <2>2. Leave(c, AfterPush(c, status)) /\ pc[c] \in Inside
    BY <1>1, <1>6, <1>8 DEF Inside
  <2> QED BY <1>1, <1>4, <1>5, <2>1, <2>2, LeaveKeepsInvariant
<1> QED BY <1>7, <1>8

\* Decoding the sampled token brings the memory up to it.
LEMMA DecodeTokenKeepsInvariant ==
  ASSUME IInv, NEW c \in Callers, DecodeToken(c)
  PROVE  IInv' /\ kv' = Append(kv, Last(said))
<1>1. pc[c] = "extend" /\ pc' = [pc EXCEPT ![c] = "sample"] /\ UNCHANGED <<lock, req, off, kept, said, result>>
  BY DEF DecodeToken, Goto
<1>2. /\ said \in Seq(Token) /\ off \in Nat /\ kept \in Nat
      /\ said # <<>> /\ kv = req[c].tokens \o Front(said) /\ kv \in Seq(Token)
  BY <1>1 DEF IInv, ControlInv, MemoryInv, StageInv
<1>3. Front(said) \in Seq(Token) /\ Last(said) \in Token /\ said = Append(Front(said), Last(said))
  BY <1>2, FrontLast
<1>4. <<Last(said)>> \in Seq(Token) /\ said = Front(said) \o <<Last(said)>>
  BY <1>3, AppendIsConcat
<1>5. MemoryInv' /\ kv' = kv \o <<Last(said)>>
  BY <1>4, DecodeKeepsMemory DEF IInv, DecodeToken
<1>6. req[c].tokens \in Seq(Token)
  BY RequestTyped DEF IInv
<1>7. kv' = Append(kv, Last(said))
  BY <1>2, <1>3, <1>5, AppendIsConcat
<1>8. pc'[c] = "sample"
  BY <1>1 DEF IInv, ControlInv
<1>9. kv' = req[c].tokens \o said
  <2>1. Append(req[c].tokens \o Front(said), Last(said)) = req[c].tokens \o Append(Front(said), Last(said))
    BY <1>3, <1>6, AppendToConcat
  <2>2. req[c].tokens \o Append(Front(said), Last(said)) = req[c].tokens \o said
    BY <1>3, Zenon
  <2>3. kv' = Append(req[c].tokens \o Front(said), Last(said))
    BY <1>2, <1>7, Zenon
  <2> QED BY <2>1, <2>2, <2>3, Zenon
<1>10. StageInv(c)'
  BY <1>1, <1>8, <1>9 DEF StageInv
<1>11. pc[c] \in Inside /\ "sample" \in Inside
  BY <1>1 DEF Inside
<1>12. IInv'
  BY <1>1, <1>2, <1>5, <1>10, <1>11, MoveKeepsInvariant
<1> QED BY <1>7, <1>12

\* The invariant is inductive: no step of any caller breaks it.
LEMMA NextKeepsInvariant == IInv /\ [Next]_vars => IInv'
<1> SUFFICES ASSUME IInv, [Next]_vars PROVE IInv'
  OBVIOUS
<1>1. ASSUME NEW c \in Callers, Call(c) PROVE IInv'
  BY <1>1, CallKeepsInvariant
<1>2. ASSUME NEW c \in Callers, Lock(c) PROVE IInv'
  BY <1>2, LockKeepsInvariant
<1>3. ASSUME NEW c \in Callers, Refuse(c) \/ BudgetSpent(c) \/ SampleEog(c) \/ GenerationThrows(c)
      PROVE  IInv'
  BY <1>3, ReturnKeepsInvariant
<1>4. ASSUME NEW c \in Callers, PromptFails(c) \/ DecodeTokenFails(c) PROVE IInv'
  BY <1>4, FailureKeepsInvariant
<1>5. ASSUME NEW c \in Callers, KeepPrefix(c) PROVE IInv'
  BY <1>5, KeepPrefixKeepsInvariant
<1>6. ASSUME NEW c \in Callers, DecodePrompt(c) PROVE IInv'
  BY <1>6, DecodePromptKeepsInvariant
<1>7. ASSUME NEW c \in Callers, SampleToken(c) PROVE IInv'
  BY <1>7, SampleTokenKeepsInvariant
<1>8. ASSUME NEW c \in Callers, DecodeToken(c) PROVE IInv'
  BY <1>8, DecodeTokenKeepsInvariant
<1>9. CASE UNCHANGED vars
  BY <1>9 DEF vars, IInv, MemoryInv, WindowIntact, ControlInv, StageInv
<1> QED BY <1>1, <1>2, <1>3, <1>4, <1>5, <1>6, <1>7, <1>8, <1>9 DEF Next, Run

\* The inductive invariant holds throughout: the record is the memory, the memory
\* is what the running call has reached, and only the lock's holder is inside.
THEOREM Invariance == Spec => []IInv
BY InitEstablishes, NextKeepsInvariant, PTL DEF Spec

-----------------------------------------------------------------------------
(* What generate() guarantees *)

\* generate()'s variables keep their types, on every path through it.
THEOREM TypeCorrect == Spec => []TypeOK
<1>1. IInv => TypeOK
  BY DEF IInv, MemoryInv, ControlInv, TypeOK
<1> QED BY <1>1, Invariance, PTL

\* Impl::cached never disagrees with the KV cache: not after a decode that
\* failed, threw or found no slot, not after a trim the memory refused.
THEOREM RecordCorrect == Spec => []RecordMatchesMemory
<1>1. IInv => RecordMatchesMemory
  BY DEF IInv, MemoryInv, RecordMatchesMemory
<1> QED BY <1>1, Invariance, PTL

\* Every token generate() samples is predicted from its own request, whatever
\* the requests before it left in the cache.
THEOREM ContextCorrect == Spec => []ContextIsRequest
<1>1. IInv => ContextIsRequest
  BY DEF IInv, MemoryInv, StageInv, ContextIsRequest
<1> QED BY <1>1, Invariance, PTL

\* generate() asks llama_decode only for batches that are not empty, not larger
\* than n_batch and that fit the context.
THEOREM DecodesFit == Spec => []DecodeFits
<1>1. IInv => DecodeFits
  <2> SUFFICES ASSUME IInv, NEW c \in Callers
               PROVE  /\ pc[c] = "prompt" => /\ Len(PromptChunk(c)) \in 1..n_batch
                                             /\ Len(kv) + Len(PromptChunk(c)) < n_ctx_seq
                      /\ pc[c] = "extend" => Len(kv) < n_ctx_seq
    BY DEF DecodeFits
  <2>1. pc[c] = "extend" => Len(kv) < n_ctx_seq
    BY DEF IInv, StageInv
  <2>2. ASSUME pc[c] = "prompt"
        PROVE  Len(PromptChunk(c)) \in 1..n_batch /\ Len(kv) + Len(PromptChunk(c)) < n_ctx_seq
    <3> DEFINE p == req[c].tokens
    <3>1. p \in Seq(Token) /\ Len(p) \in Nat /\ off \in Nat
      BY RequestTyped DEF IInv, ControlInv
    <3>2. off < Len(p) /\ Len(p) < n_ctx_seq /\ kv = SubSeq(p, 1, off)
      BY <2>2 DEF IInv, StageInv
    <3>3. Len(kv) = off
      BY <3>1, <3>2, SharedPrefix
    <3>4. /\ ChunkEnd(c) \in (off + 1)..Len(p) /\ ChunkEnd(c) - off <= n_batch
          /\ Len(PromptChunk(c)) = ChunkEnd(c) - off
      BY <2>2, ChunkTyped
    <3> QED BY <3>1, <3>2, <3>3, <3>4, SizesAreNonzero
  <2> QED BY <2>1, <2>2
<1> QED BY <1>1, Invariance, PTL

-----------------------------------------------------------------------------
(* What a step of generate() may not do *)

\* A reply in progress is within its budget, and one that goes on is below it.
BudgetInv ==
  \A c \in Callers :
    /\ pc[c] = "admit" => said = <<>>
    /\ req[c].max_tokens >= 0 /\ pc[c] \in {"prompt", "sample"} => Len(said) <= req[c].max_tokens
    /\ req[c].max_tokens >= 0 /\ pc[c] = "extend" => Len(said) < req[c].max_tokens

\* While a caller is inside, the others can only queue up.
LEMMA OthersOnlyCall ==
  ASSUME IInv, NEW c \in Callers, pc[c] \in Inside, NEW d \in Callers, d # c,
         Call(d) \/ Lock(d) \/ Run(d)
  PROVE  Call(d)
<1>1. lock = c /\ pc[d] \notin Inside
  BY DEF IInv, ControlInv
<1>2. ~Lock(d)
  BY <1>1, CallersTyped DEF Lock
<1>3. ~Run(d)
  BY <1>1 DEF Run, Refuse, KeepPrefix, DecodePrompt, PromptFails, BudgetSpent, SampleEog, SampleToken,
     GenerationThrows, DecodeToken, DecodeTokenFails, Goto, Inside
<1> QED BY <1>2, <1>3

\* A step taken while c is sampling: c's own, or one that leaves c's call alone.
LEMMA SamplingSteps ==
  ASSUME IInv, NEW c \in Callers, pc[c] = "sample", [Next]_vars
  PROVE  \/ BudgetSpent(c) \/ SampleEog(c) \/ SampleToken(c) \/ GenerationThrows(c)
         \/ pc'[c] = "sample" /\ UNCHANGED <<memory, said>>
<1>1. CASE UNCHANGED vars
  BY <1>1 DEF vars, memory
<1>2. CASE Next
  <2>1. PICK d \in Callers : Call(d) \/ Lock(d) \/ Run(d)
    BY <1>2 DEF Next
  <2>2. CASE d = c
    BY <2>1, <2>2 DEF Call, Lock, Run, Refuse, KeepPrefix, DecodePrompt, PromptFails, DecodeToken,
       DecodeTokenFails, Goto
  <2>3. CASE d # c
    <3>1. Call(d)
      BY <2>1, <2>3, OthersOnlyCall DEF Inside
    <3> QED BY <2>3, <3>1 DEF Call, Goto, IInv, ControlInv
  <2> QED BY <2>2, <2>3
<1> QED BY <1>1, <1>2

\* What a sampled token does to the reply and to its caller.
LEMMA SampledToken ==
  ASSUME IInv, NEW c \in Callers, SampleToken(c)
  PROVE  /\ UNCHANGED <<memory, req>> /\ Len(said') = Len(said) + 1
         /\ ~Spent(c, Len(said))
         /\ said' # said /\ Front(said') = said
         /\ \/ pc'[c] = "extend" /\ ~Spent(c, Len(said) + 1)
            \/ /\ pc'[c] = "idle"
               /\ result'[c] = "Length" => Spent(c, Len(said) + 1) \/ Len(cached) + 1 > n_ctx_seq
<1>1. /\ pc[c] = "sample" /\ UNCHANGED <<memory, req>> /\ ~Spent(c, Len(said))
      /\ said \in Seq(Token) /\ Len(said) \in Nat
  BY LenProperties DEF SampleToken, IInv, ControlInv
<1>2. PICK t \in Token : said' = Append(said, t)
  BY DEF SampleToken
<1>3. Len(said') = Len(said) + 1 /\ Front(said') = said
  BY <1>1, <1>2, FrontOfAppend, AppendProperties
<1>4. said' # said
  BY <1>1, <1>3
<1>5. PICK status \in {"Continue", "Stop", "Cancelled"} :
        \/ /\ AfterPush(c, status) = "continue"
           /\ pc' = [pc EXCEPT ![c] = "extend"]
        \/ /\ AfterPush(c, status) # "continue"
           /\ Leave(c, AfterPush(c, status))
  BY DEF SampleToken, Goto
<1>6. CASE AfterPush(c, status) = "continue"
  <2>1. ~Spent(c, Len(said) + 1)
    BY <1>6 DEF AfterPush
  <2>2. pc'[c] = "extend"
    BY <1>5, <1>6 DEF IInv, ControlInv
  <2> QED BY <1>1, <1>3, <1>4, <2>1, <2>2
<1>7. CASE AfterPush(c, status) # "continue"
  <2>1. pc'[c] = "idle" /\ result'[c] = AfterPush(c, status)
    BY <1>5, <1>7 DEF Leave, IInv, ControlInv
  <2>2. AfterPush(c, status) = "Length" => Spent(c, Len(said) + 1) \/ Len(cached) + 1 > n_ctx_seq
    BY <1>7 DEF AfterPush
  <2> QED BY <1>1, <1>3, <1>4, <2>1, <2>2
<1> QED BY <1>6, <1>7

\* A run that ends without a failed decode leaves its transcript in the cache,
\* all but the token that ended it.
THEOREM TranscriptKept == Spec => ReturnKeepsTranscript
<1>1. ASSUME IInv, [Next]_vars, NEW c \in Callers, pc[c] = "sample", pc'[c] = "idle"
      PROVE  cached' = req[c].tokens \o (IF said' = said THEN said ELSE Front(said'))
  <2>1. cached = req[c].tokens \o said
    BY <1>1 DEF IInv, MemoryInv, StageInv
  <2>2. CASE SampleToken(c)
    BY <1>1, <2>1, <2>2, SampledToken DEF memory
  <2>3. CASE BudgetSpent(c) \/ SampleEog(c) \/ GenerationThrows(c)
    BY <2>1, <2>3 DEF BudgetSpent, SampleEog, GenerationThrows, memory
  <2> QED BY <1>1, <2>2, <2>3, SamplingSteps
<1>2. IInv /\ [Next]_vars =>
        [\A c \in Callers : pc[c] = "sample" /\ pc'[c] = "idle" =>
           cached' = req[c].tokens \o (IF said' = said THEN said ELSE Front(said'))]_vars
  BY <1>1
<1> QED BY <1>2, Invariance, PTL DEF Spec, ReturnKeepsTranscript

\* A caller's step leaves the other callers where they are.
LEMMA OthersStay ==
  ASSUME IInv, NEW c \in Callers, NEW d \in Callers, d # c, Call(d) \/ Lock(d) \/ Run(d)
  PROVE  pc'[c] = pc[c] /\ req'[c] = req[c]
<1>1. pc \in [Callers -> PCs] /\ req \in [Callers -> Request]
  BY DEF IInv, ControlInv
<1>2. CASE Call(d) \/ Lock(d) \/ KeepPrefix(d) \/ DecodePrompt(d) \/ DecodeToken(d)
  BY <1>1, <1>2 DEF Call, Lock, KeepPrefix, DecodePrompt, DecodeToken, Goto
<1>3. CASE \/ Refuse(d) \/ PromptFails(d) \/ BudgetSpent(d) \/ SampleEog(d)
           \/ GenerationThrows(d) \/ DecodeTokenFails(d)
  BY <1>1, <1>3 DEF Refuse, PromptFails, BudgetSpent, SampleEog, GenerationThrows, DecodeTokenFails, Leave
<1>4. CASE SampleToken(d)
  BY <1>1, <1>4 DEF SampleToken, Goto, Leave
<1> QED BY <1>2, <1>3, <1>4 DEF Run

\* No step takes a reply over its budget.
LEMMA NextKeepsBudget == IInv /\ BudgetInv /\ [Next]_vars => BudgetInv'
<1> SUFFICES ASSUME IInv, BudgetInv, [Next]_vars, NEW c \in Callers
             PROVE  /\ pc'[c] = "admit" => said' = <<>>
                    /\ req'[c].max_tokens >= 0 /\ pc'[c] \in {"prompt", "sample"}
                          => Len(said') <= req'[c].max_tokens
                    /\ req'[c].max_tokens >= 0 /\ pc'[c] = "extend" => Len(said') < req'[c].max_tokens
  BY DEF BudgetInv
<1>1. CASE UNCHANGED vars
  BY <1>1 DEF vars, BudgetInv
<1>2. ASSUME NEW d \in Callers, d # c, Call(d) \/ Lock(d) \/ Run(d)
      PROVE  pc'[c] = pc[c] /\ req'[c] = req[c] /\ (pc[c] \in Inside => said' = said)
  <2>1. pc[c] \in Inside => Call(d)
    BY <1>2, OthersOnlyCall
  <2> QED BY <1>2, <2>1, OthersStay DEF Call
<1>3. CASE \E d \in Callers : d # c /\ (Call(d) \/ Lock(d) \/ Run(d))
  BY <1>2, <1>3 DEF BudgetInv, Inside
<1>4. /\ pc \in [Callers -> PCs] /\ said \in Seq(Token) /\ Len(said) \in Nat
      /\ req[c].max_tokens \in Int
  BY LenProperties, RequestTyped DEF IInv, ControlInv
<1>5. CASE \/ Refuse(c) \/ PromptFails(c) \/ BudgetSpent(c) \/ SampleEog(c)
           \/ GenerationThrows(c) \/ DecodeTokenFails(c)
  BY <1>4, <1>5 DEF Refuse, PromptFails, BudgetSpent, SampleEog, GenerationThrows, DecodeTokenFails, Leave
<1>6. CASE Call(c) \/ Lock(c)
  BY <1>4, <1>6 DEF Call, Lock, Goto
<1>7. CASE KeepPrefix(c)
  <2>1. said = <<>> /\ said' = said /\ req' = req /\ pc'[c] = "prompt"
    BY <1>4, <1>7 DEF KeepPrefix, Goto, BudgetInv
  <2>2. Len(said') = 0
    BY <2>1, EmptySeq
  <2> QED BY <1>4, <2>1, <2>2
<1>8. CASE DecodePrompt(c)
  BY <1>4, <1>8 DEF DecodePrompt, Goto, BudgetInv
<1>9. CASE SampleToken(c)
  <2>1. /\ req' = req /\ Len(said') = Len(said) + 1
        /\ pc'[c] \in {"idle", "extend"} /\ (pc'[c] = "extend" => ~Spent(c, Len(said) + 1))
    BY <1>9, SampledToken DEF memory
  <2> QED BY <1>4, <2>1 DEF Spent
<1>10. CASE DecodeToken(c)
  <2>1. pc[c] = "extend" /\ pc'[c] = "sample" /\ said' = said /\ req' = req
    BY <1>4, <1>10 DEF DecodeToken, Goto
  <2> QED BY <1>4, <2>1 DEF BudgetInv
<1> QED BY <1>1, <1>3, <1>5, <1>6, <1>7, <1>8, <1>9, <1>10 DEF Next, Run

\* Throughout, a reply in progress is within its caller's max_tokens.
THEOREM WithinBudget == Spec => [](IInv /\ BudgetInv)
<1>1. Init => BudgetInv
  BY DEF Init, BudgetInv
<1> QED BY <1>1, InitEstablishes, NextKeepsInvariant, NextKeepsBudget, PTL DEF Spec

\* No token is sampled beyond the caller's max_tokens, not even the one that
\* ends the run.
THEOREM BudgetsAreKept == Spec => BudgetKept
<1>1. ASSUME IInv, BudgetInv, [Next]_vars, NEW c \in Callers, pc[c] = "sample", req[c].max_tokens >= 0
      PROVE  Len(said') <= req[c].max_tokens
  <2>1. Len(said) <= req[c].max_tokens /\ Len(said) \in Nat /\ req[c].max_tokens \in Int
    BY <1>1, LenProperties, RequestTyped DEF BudgetInv, IInv, ControlInv
  <2>2. CASE SampleToken(c)
    BY <1>1, <2>1, <2>2, SampledToken DEF Spent
  <2>3. CASE said' = said
    BY <2>1, <2>3
  <2> QED BY <1>1, <2>2, <2>3, SamplingSteps DEF BudgetSpent, SampleEog, GenerationThrows
<1>2. IInv /\ BudgetInv /\ [Next]_vars =>
        [\A c \in Callers :
           pc[c] = "sample" /\ req[c].max_tokens >= 0 => Len(said') <= req[c].max_tokens]_vars
  BY <1>1
<1> QED BY <1>2, WithinBudget, PTL DEF Spec, BudgetKept

\* A run that ends, ends by a step of its own: in the loop, in the decode of the
\* token the loop went on from, or with an error before the first token.
LEMMA EndingSteps ==
  ASSUME IInv, NEW c \in Callers, pc[c] \in Inside, pc'[c] = "idle", [Next]_vars
  PROVE  \/ BudgetSpent(c) \/ SampleEog(c) \/ SampleToken(c) \/ GenerationThrows(c)
         \/ DecodeTokenFails(c)
         \/ result'[c] = "error"
<1>1. /\ pc \in [Callers -> PCs] /\ result \in [Callers -> Outcomes] /\ pc[c] # "idle"
  BY DEF IInv, ControlInv, Inside
<1>2. ~UNCHANGED vars
  BY <1>1 DEF vars
<1>3. PICK d \in Callers : Call(d) \/ Lock(d) \/ Run(d)
  BY <1>2 DEF Next
<1>4. CASE d # c
  <2>1. Call(d)
    BY <1>3, <1>4, OthersOnlyCall
  <2> QED BY <1>1, <1>4, <2>1 DEF Call, Goto
<1>5. CASE d = c
  <2>1. ~Call(c) /\ ~Lock(c) /\ ~KeepPrefix(c) /\ ~DecodePrompt(c) /\ ~DecodeToken(c)
    BY <1>1 DEF Call, Lock, KeepPrefix, DecodePrompt, DecodeToken, Goto, Inside
  <2>2. Refuse(c) \/ PromptFails(c) => result'[c] = "error"
    BY <1>1 DEF Refuse, PromptFails, Leave
  <2> QED BY <1>3, <1>5, <2>1, <2>2 DEF Run
<1> QED BY <1>4, <1>5

\* Whatever run reports Length: its budget is used to the last token, the context
\* is full to the last slot, or llama_decode had no slot for a token that neither
\* limit had ruled out, and the cache is empty.
THEOREM LengthsAreHonest == Spec => LengthIsHonest
<1> DEFINE Honest(c) ==
      \/ pc[c] = "sample" /\ Len(said') = req[c].max_tokens
      \/ pc[c] = "sample" /\ Len(kv) = n_ctx_seq
      \/ /\ pc[c] = "extend"
         /\ Len(kv) < n_ctx_seq /\ Len(said') # req[c].max_tokens
         /\ cached' = <<>>
<1>1. ASSUME IInv, BudgetInv, [Next]_vars, NEW c \in Callers,
             pc[c] \in Inside, pc'[c] = "idle", result'[c] = "Length"
      PROVE  Honest(c)
  <2>1. /\ req[c].max_tokens >= 0 /\ pc[c] = "sample" => Len(said) <= req[c].max_tokens
        /\ req[c].max_tokens >= 0 /\ pc[c] = "extend" => Len(said) < req[c].max_tokens
        /\ Len(said) \in Nat /\ req[c].max_tokens \in Int
    BY <1>1, LenProperties, RequestTyped DEF BudgetInv, IInv, ControlInv
  <2>2. Len(kv) \in Nat /\ Len(kv) <= n_ctx_seq /\ cached = kv
    BY <1>1, LenProperties DEF IInv, MemoryInv
  <2>3. CASE SampleToken(c)
    <3>1. /\ Len(said') = Len(said) + 1 /\ ~Spent(c, Len(said)) /\ pc[c] = "sample"
          /\ Spent(c, Len(said) + 1) \/ Len(cached) + 1 > n_ctx_seq
      BY <1>1, <2>3, SampledToken DEF SampleToken
    <3> QED BY <2>1, <2>2, <3>1, SizesAreNonzero DEF Spent
  <2>4. CASE BudgetSpent(c)
    BY <2>1, <2>4 DEF BudgetSpent, Spent
  <2>5. CASE DecodeTokenFails(c)
    <3>1. pc[c] = "extend" /\ said' = said /\ cached' = <<>>
      BY <2>5 DEF DecodeTokenFails, DecodeFails, clear_cache
    <3>2. Len(kv) < n_ctx_seq
      BY <1>1, <3>1 DEF IInv, StageInv
    <3>3. Len(said) # req[c].max_tokens
      BY <2>1, <3>1
    <3> QED BY <3>1, <3>2, <3>3
  <2>6. ~SampleEog(c) /\ ~GenerationThrows(c) /\ result'[c] # "error"
    BY <1>1 DEF SampleEog, GenerationThrows, Leave, IInv, ControlInv
  <2> QED BY <1>1, <2>3, <2>4, <2>5, <2>6, EndingSteps
<1>2. IInv /\ BudgetInv /\ [Next]_vars =>
        [\A c \in Callers : pc[c] \in Inside /\ pc'[c] = "idle" /\ result'[c] = "Length" =>
           Honest(c)]_vars
  BY <1>1
<1> QED BY <1>2, WithinBudget, PTL DEF Spec, LengthIsHonest

-----------------------------------------------------------------------------
(* The cache is unobservable: the engine implements one that keeps nothing *)

\* What a caller can see moves as the caller moves, for it and for no one else.
LEMMA PhasesFollow ==
  ASSUME IInv, NEW c \in Callers, NEW to \in PCs, pc' = [pc EXCEPT ![c] = to]
  PROVE  phases[c] = PhaseOf(pc[c]) /\ phases' = [phases EXCEPT ![c] = PhaseOf(to)]
BY DEF IInv, ControlInv, phases

\* A move between two stages that look the same cannot be seen.
LEMMA PhaseKept ==
  ASSUME IInv, NEW c \in Callers, NEW to \in PCs, pc' = [pc EXCEPT ![c] = to], PhaseOf(to) = PhaseOf(pc[c])
  PROVE  phases' = phases
<1>1. phases[c] = PhaseOf(to) /\ phases' = [phases EXCEPT ![c] = PhaseOf(to)]
  BY PhasesFollow
<1>2. phases = [d \in Callers |-> PhaseOf(pc[d])]
  BY DEF phases
<1> QED BY <1>1, <1>2

\* With the mutex free there is nothing to condition on.
LEMMA FreeIsUnconditioned ==
  ASSUME lock = NoCaller
  PROVE  conditioned_on = <<>>
BY DEF conditioned_on

\* A step that leaves the memory, the reply, the lock and the stage of the lock's
\* holder alone leaves what the next token is predicted from alone.
LEMMA ConditionKept ==
  ASSUME UNCHANGED <<lock, memory, said>>, lock = NoCaller \/ pc'[lock] = pc[lock]
  PROVE  conditioned_on' = conditioned_on
BY DEF conditioned_on, memory

\* A freshly constructed engine looks like one that has served nobody.
LEMMA InitRefines == Init => Stateless!Init
<1> SUFFICES ASSUME Init PROVE Stateless!Init
  OBVIOUS
<1>1. IInv
  BY InitEstablishes
<1>2. asked \in [Callers -> Prompts]
  BY <1>1, RequestTyped DEF asked, IInv
<1>3. phases = [c \in Callers |-> "idle"]
  BY DEF Init, phases, PhaseOf
<1>4. conditioned_on = <<>> /\ said = <<>>
  BY FreeIsUnconditioned DEF Init
<1> QED BY <1>2, <1>3, <1>4 DEF Stateless!Init

\* Entering generate() is a submission.
LEMMA CallRefines ==
  ASSUME IInv, NEW c \in Callers, Call(c)
  PROVE  Stateless!Submit(c)
<1>1. pc[c] = "idle" /\ pc' = [pc EXCEPT ![c] = "waiting"] /\ UNCHANGED <<lock, memory, said>>
  BY DEF Call, Goto
<1>2. phases[c] = "idle" /\ phases' = [phases EXCEPT ![c] = "queued"]
  BY <1>1, PhasesFollow DEF PhaseOf, PCs
<1>3. PICK r \in Request : req' = [req EXCEPT ![c] = r]
  BY DEF Call
<1>4. r.tokens \in Prompts /\ asked' = [asked EXCEPT ![c] = r.tokens]
  BY <1>3 DEF asked, Request, IInv, ControlInv
<1>5. lock = NoCaller \/ pc'[lock] = pc[lock]
  BY <1>1 DEF IInv, ControlInv, Inside
<1>6. conditioned_on' = conditioned_on
  BY <1>1, <1>5, ConditionKept
<1> QED BY <1>1, <1>2, <1>4, <1>6 DEF Stateless!Submit

\* Taking the mutex starts a call, and nobody else has one started.
LEMMA LockRefines ==
  ASSUME IInv, NEW c \in Callers, Lock(c)
  PROVE  Stateless!Start(c)
<1>1. /\ pc[c] = "waiting" /\ pc' = [pc EXCEPT ![c] = "admit"] /\ lock = NoCaller /\ lock' = c
      /\ said' = <<>> /\ req' = req
  BY DEF Lock, Goto
<1>2. phases[c] = "queued" /\ phases' = [phases EXCEPT ![c] = "starting"]
  BY <1>1, PhasesFollow DEF PhaseOf, PCs
<1>3. \A d \in Callers : pc[d] \in PCs /\ pc[d] \notin Inside
  BY <1>1, CallersTyped DEF IInv, ControlInv
<1>4. \A d \in Callers : phases[d] \in {"idle", "queued"}
  BY <1>3 DEF phases, PhaseOf, PCs, Inside
<1>5. pc'[c] = "admit"
  BY <1>1 DEF IInv, ControlInv
<1>6. conditioned_on = <<>> /\ conditioned_on' = <<>>
  BY <1>1, <1>5, CallersTyped DEF conditioned_on
<1> QED BY <1>1, <1>2, <1>4, <1>6 DEF Stateless!Start, asked

\* Leaving generate() from before the first token is a refusal, from after it an end.
LEMMA LeaveRefines ==
  ASSUME IInv, NEW c \in Callers, pc[c] \in Inside, NEW outcome \in Outcomes, Leave(c, outcome),
         UNCHANGED <<req, said>>
  PROVE  Stateless!Refuse(c) \/ Stateless!End(c)
<1>1. pc' = [pc EXCEPT ![c] = "idle"] /\ lock' = NoCaller /\ lock = c
  BY DEF Leave, IInv, ControlInv
<1>2. phases[c] = PhaseOf(pc[c]) /\ phases' = [phases EXCEPT ![c] = "idle"]
  BY <1>1, PhasesFollow DEF PhaseOf, PCs
<1>3. conditioned_on' = <<>>
  BY <1>1 DEF conditioned_on
<1>4. CASE pc[c] \in {"admit", "prompt"}
  <2>1. phases[c] = "starting"
    BY <1>2, <1>4 DEF PhaseOf
  <2>2. conditioned_on = <<>>
    BY <1>1, <1>4 DEF conditioned_on
  <2> QED BY <1>2, <1>3, <2>1, <2>2 DEF Stateless!Refuse, asked
<1>5. CASE pc[c] \in {"sample", "extend"}
  <2>1. phases[c] = "active"
    BY <1>2, <1>5 DEF PhaseOf
  <2> QED BY <1>2, <1>3, <2>1 DEF Stateless!End, asked
<1> QED BY <1>4, <1>5 DEF Inside

\* Keeping part of the cache, and decoding part of the prompt, cannot be seen.
LEMMA KeepPrefixRefines ==
  ASSUME IInv, NEW c \in Callers, KeepPrefix(c)
  PROVE  UNCHANGED Stateless!vars
<1>1. /\ pc[c] = "admit" /\ pc' = [pc EXCEPT ![c] = "prompt"] /\ UNCHANGED <<lock, req, said>>
      /\ lock = c /\ pc'[c] = "prompt"
  BY DEF KeepPrefix, Goto, IInv, ControlInv, Inside
<1>2. phases' = phases
  BY <1>1, PhaseKept DEF PhaseOf, PCs
<1>3. conditioned_on' = conditioned_on
  BY <1>1 DEF conditioned_on
<1> QED BY <1>1, <1>2, <1>3 DEF Stateless!vars, asked

\* The last prompt chunk begins the run, on the caller's prompt and nothing else.
LEMMA DecodePromptRefines ==
  ASSUME IInv, IInv', NEW c \in Callers, DecodePrompt(c)
  PROVE  Stateless!Begin(c) \/ UNCHANGED Stateless!vars
<1>1. /\ pc[c] = "prompt" /\ UNCHANGED <<lock, req, said>> /\ lock = c
      /\ pc' = [pc EXCEPT ![c] = "sample"] \/ pc' = [pc EXCEPT ![c] = "prompt"]
  BY DEF DecodePrompt, Goto, IInv, ControlInv, Inside
<1>2. CASE pc' = [pc EXCEPT ![c] = "sample"]
  <2>1. pc'[c] = "sample"
    BY <1>2 DEF IInv, ControlInv
  <2>2. said' = <<>> /\ kv' = req[c].tokens \o said'
    BY <1>1, <2>1 DEF IInv, StageInv
  <2>3. kv' = req[c].tokens
    BY <2>2, RequestTyped, ConcatEmptySeq DEF IInv
  <2>4. conditioned_on' = asked[c]
    BY <1>1, <2>1, <2>3, CallersTyped DEF conditioned_on, asked
  <2>5. phases[c] = "starting" /\ phases' = [phases EXCEPT ![c] = "active"]
    BY <1>1, <1>2, PhasesFollow DEF PhaseOf, PCs
  <2> QED BY <1>1, <2>4, <2>5 DEF Stateless!Begin, asked
<1>3. CASE pc' = [pc EXCEPT ![c] = "prompt"]
  <2>1. pc' = pc
    BY <1>1, <1>3 DEF IInv, ControlInv
  <2>2. conditioned_on' = conditioned_on
    BY <1>1, <2>1 DEF conditioned_on
  <2> QED BY <1>1, <2>1, <2>2 DEF Stateless!vars, asked, phases
<1> QED BY <1>1, <1>2, <1>3

\* A sampled token is emitted, and the rest of the run is conditioned on it; or it
\* ends the run.
LEMMA SampleTokenRefines ==
  ASSUME IInv, NEW c \in Callers, SampleToken(c)
  PROVE  \E t \in Token : Stateless!Emit(c, t) \/ Stateless!EmitLast(c, t)
<1>1. /\ pc[c] = "sample" /\ lock = c /\ UNCHANGED <<memory, req>> /\ said \in Seq(Token)
  BY DEF SampleToken, IInv, ControlInv, Inside
<1>2. PICK t \in Token : said' = Append(said, t)
  BY DEF SampleToken
<1>3. Last(said') = t
  BY <1>1, <1>2, FrontOfAppend
<1>4. phases[c] = "active"
  BY <1>1 DEF phases, PhaseOf
<1>5. conditioned_on = kv
  BY <1>1, CallersTyped DEF conditioned_on
<1>6. PICK status \in {"Continue", "Stop", "Cancelled"} :
        \/ pc' = [pc EXCEPT ![c] = "extend"] /\ UNCHANGED lock
        \/ Leave(c, AfterPush(c, status))
  BY DEF SampleToken, Goto
<1>7. CASE pc' = [pc EXCEPT ![c] = "extend"] /\ UNCHANGED lock
  <2>1. pc'[c] = "extend"
    BY <1>7 DEF IInv, ControlInv
  <2>2. conditioned_on' = Append(conditioned_on, t)
    BY <1>1, <1>3, <1>5, <1>7, <2>1, CallersTyped DEF conditioned_on, memory
  <2>3. phases' = phases
    BY <1>1, <1>7, PhaseKept DEF PhaseOf, PCs
  <2>4. Stateless!Emit(c, t)
    BY <1>1, <1>2, <1>4, <2>2, <2>3 DEF Stateless!Emit, asked
  <2> QED BY <2>4
<1>8. CASE Leave(c, AfterPush(c, status))
  <2>1. pc' = [pc EXCEPT ![c] = "idle"] /\ lock' = NoCaller
    BY <1>8 DEF Leave
  <2>2. conditioned_on' = <<>>
    BY <2>1 DEF conditioned_on
  <2>3. phases' = [phases EXCEPT ![c] = "idle"]
    BY <2>1, PhasesFollow DEF PhaseOf, PCs
  <2>4. Stateless!EmitLast(c, t)
    BY <1>1, <1>2, <1>4, <2>2, <2>3 DEF Stateless!EmitLast, asked
  <2> QED BY <2>4
<1> QED BY <1>6, <1>7, <1>8

\* Decoding the token just emitted changes nothing anyone can see.
LEMMA DecodeTokenRefines ==
  ASSUME IInv, NEW c \in Callers, DecodeToken(c)
  PROVE  UNCHANGED Stateless!vars
<1>1. /\ pc[c] = "extend" /\ lock = c /\ pc' = [pc EXCEPT ![c] = "sample"] /\ pc'[c] = "sample"
      /\ UNCHANGED <<lock, req, said>>
  BY DEF DecodeToken, Goto, IInv, ControlInv, Inside
<1>2. kv' = Append(kv, Last(said))
  BY DecodeTokenKeepsInvariant
<1>3. conditioned_on' = conditioned_on
  BY <1>1, <1>2, CallersTyped DEF conditioned_on
<1>4. phases' = phases
  BY <1>1, PhaseKept DEF PhaseOf, PCs
<1> QED BY <1>1, <1>3, <1>4 DEF Stateless!vars, asked

\* Every step of the engine is a step of one without a cache, or cannot be seen.
LEMMA StepRefines == IInv /\ IInv' /\ [Next]_vars => [Stateless!Next]_(Stateless!vars)
<1> SUFFICES ASSUME IInv, IInv', [Next]_vars PROVE Stateless!Next \/ UNCHANGED Stateless!vars
  OBVIOUS
<1>1. CASE UNCHANGED vars
  BY <1>1 DEF vars, Stateless!vars, phases, asked, conditioned_on
<1>2. ASSUME NEW c \in Callers, Call(c) \/ Lock(c) PROVE Stateless!Next
  BY <1>2, CallRefines, LockRefines DEF Stateless!Next
<1>3. ASSUME NEW c \in Callers,
             \/ Refuse(c) \/ PromptFails(c) \/ BudgetSpent(c) \/ SampleEog(c)
             \/ GenerationThrows(c) \/ DecodeTokenFails(c)
      PROVE  Stateless!Next
  <2>1. pc[c] \in Inside /\ UNCHANGED <<req, said>>
    BY <1>3 DEF Refuse, PromptFails, BudgetSpent, SampleEog, GenerationThrows, DecodeTokenFails, Inside
  <2>2. PICK outcome \in Outcomes : Leave(c, outcome)
    BY <1>3 DEF Refuse, PromptFails, BudgetSpent, SampleEog, GenerationThrows, DecodeTokenFails,
       Outcomes, Reasons
  <2>3. Stateless!Refuse(c) \/ Stateless!End(c)
    BY <2>1, <2>2, LeaveRefines
  <2> QED BY <2>3 DEF Stateless!Next
<1>4. ASSUME NEW c \in Callers, KeepPrefix(c) \/ DecodeToken(c) PROVE UNCHANGED Stateless!vars
  BY <1>4, KeepPrefixRefines, DecodeTokenRefines
<1>5. ASSUME NEW c \in Callers, DecodePrompt(c) PROVE Stateless!Next \/ UNCHANGED Stateless!vars
  BY <1>5, DecodePromptRefines DEF Stateless!Next
<1>6. ASSUME NEW c \in Callers, SampleToken(c) PROVE Stateless!Next
  BY <1>6, SampleTokenRefines DEF Stateless!Next
<1> QED BY <1>1, <1>2, <1>3, <1>4, <1>5, <1>6 DEF Next, Run

\* generate() with its prompt cache implements an engine that keeps nothing between
\* requests and serves them one at a time: no caller can tell the two apart.
THEOREM Refinement == Spec => StatelessSpec
<1>1. Init => Stateless!Init
  BY InitRefines
<1>2. IInv /\ IInv' /\ [Next]_vars => [Stateless!Next]_(Stateless!vars)
  BY StepRefines
<1> QED BY <1>1, <1>2, Invariance, PTL DEF Spec, StatelessSpec, Stateless!Spec

-----------------------------------------------------------------------------
(* The cache is worth having *)

\* keep_prefix keeps all it may: the longest prefix the cache shares with the prompt,
\* short of the token whose logits are needed, or nothing if the memory refuses.
THEOREM LongestIsKept == Spec => KeptIsLongest
<1>1. ASSUME IInv, [Next]_vars, NEW c \in Callers, pc[c] = "admit", pc'[c] = "prompt"
      PROVE  KeepPrefix(c)
  <2>1. PICK d \in Callers : Call(d) \/ Lock(d) \/ Run(d)
    BY <1>1 DEF Next, vars
  <2>2. d = c
    BY <1>1, <2>1, OthersStay
  <2>3. CASE KeepPrefix(c)
    BY <2>3
  <2>4. pc \in [Callers -> PCs]
    BY <1>1 DEF IInv, ControlInv
  <2>5. ~Refuse(c)
    BY <1>1, <2>4 DEF Refuse, Leave
  <2> QED BY <1>1, <2>1, <2>2, <2>5 DEF Call, Lock, Run, DecodePrompt, PromptFails, BudgetSpent, SampleEog,
     SampleToken, GenerationThrows, DecodeToken, DecodeTokenFails, Goto
<1>2. ASSUME IInv, [Next]_vars, NEW c \in Callers, pc[c] = "admit", pc'[c] = "prompt"
      PROVE  LET shared == Len(LongestCommonPrefix({cached, Front(req[c].tokens)}))
             IN  kept' = IF kvMin = 0 /\ (CanTrim \/ shared = Len(cached)) THEN shared ELSE 0
  <2> DEFINE p == req[c].tokens
             shared == reusable_prefix(cached, p)
  <2>1. KeepPrefix(c)
    BY <1>1, <1>2
  <2>2. p \in Seq(Token) /\ p # <<>> /\ cached \in Seq(Token) /\ cached = kv
    BY <1>2, <2>1, RequestTyped, EmptySeq DEF IInv, MemoryInv, KeepPrefix, Admissible
  <2>3. Len(LongestCommonPrefix({cached, Front(p)})) = shared
    BY <2>2, ReusableIsLongest
  <2>4. PICK keep \in 0..Len(p) : keep_prefix(p, keep) /\ kept' = keep
    BY <2>1 DEF KeepPrefix
  <2>5. kept' = IF shared # 0 /\ (CanTrim \/ shared = Len(cached)) /\ kvMin = 0 THEN shared ELSE 0
    BY <2>2, <2>4 DEF keep_prefix, SeqRmSucceeds
  <2> HIDE DEF shared
  <2>6. kept' = IF kvMin = 0 /\ (CanTrim \/ shared = Len(cached)) THEN shared ELSE 0
    BY <2>5
  <2> QED BY <2>3, <2>6
<1>3. IInv /\ [Next]_vars =>
        [\A c \in Callers :
           pc[c] = "admit" /\ pc'[c] = "prompt" =>
             LET shared == Len(LongestCommonPrefix({cached, Front(req[c].tokens)}))
             IN  kept' = IF kvMin = 0 /\ (CanTrim \/ shared = Len(cached)) THEN shared ELSE 0]_vars
  BY <1>2
<1> QED BY <1>3, Invariance, PTL DEF Spec, KeptIsLongest

-----------------------------------------------------------------------------
(* A run is bounded by the context *)

\* The most steps a run still has before it: one to keep a prefix, and two for each
\* free slot of the context, to fill it and to sample behind it.
StepsLeft(c) ==
  IF pc[c] = "admit" THEN 2 * n_ctx_seq + 3
  ELSE 2 * (n_ctx_seq - Len(kv)) + (IF pc[c] = "extend" THEN 1 ELSE 2)

\* A run is bounded by the context's size, not by its budget or by a model that ends
\* its turn: every step taken while a caller is inside generate() ends its run, brings
\* it nearer to its end, or is another caller joining the queue, which leaves the run
\* and the cache as they are.
RunsAreBounded ==
  [][\A c \in Callers : pc[c] \in Inside =>
       \/ pc'[c] = "idle"
       \/ StepsLeft(c)' \in 1..(StepsLeft(c) - 1)
       \/ /\ \E d \in Callers \ {c} : pc[d] = "idle" /\ pc'[d] = "waiting"
          /\ pc'[c] = pc[c] /\ UNCHANGED <<lock, memory, off, kept, said>>
    ]_vars

\* Every step of a run that does not end it uses one up: a chunk or a token fills the
\* context further, and only sampling may leave the memory as it is, once in between.
LEMMA RunShortens ==
  ASSUME IInv, IInv', NEW c \in Callers, Run(c)
  PROVE  pc'[c] = "idle" \/ StepsLeft(c)' \in 1..(StepsLeft(c) - 1)
<1>1. /\ Len(kv) \in Nat /\ Len(kv) <= n_ctx_seq /\ n_ctx_seq \in Nat
      /\ Len(kv') \in Nat /\ Len(kv') <= n_ctx_seq
      /\ pc \in [Callers -> PCs]
  BY LenProperties, SizesAreNonzero DEF IInv, MemoryInv, ControlInv
<1>2. CASE \/ Refuse(c) \/ PromptFails(c) \/ BudgetSpent(c) \/ SampleEog(c)
           \/ GenerationThrows(c) \/ DecodeTokenFails(c)
  BY <1>1, <1>2 DEF Refuse, PromptFails, BudgetSpent, SampleEog, GenerationThrows, DecodeTokenFails, Leave
<1>3. CASE KeepPrefix(c)
  <2>1. pc[c] = "admit" /\ pc'[c] = "prompt"
    BY <1>1, <1>3 DEF KeepPrefix, Goto
  <2>2. StepsLeft(c) = 2 * n_ctx_seq + 3 /\ StepsLeft(c)' = 2 * (n_ctx_seq - Len(kv')) + 2
    BY <2>1 DEF StepsLeft
  <2> QED BY <1>1, <2>2
<1>4. CASE DecodePrompt(c)
  <2>1. pc[c] = "prompt" /\ pc'[c] \in {"prompt", "sample"} /\ DecodeOk(PromptChunk(c))
    BY <1>1, <1>4 DEF DecodePrompt, Goto
  <2>2. /\ ChunkEnd(c) \in (off + 1)..Len(req[c].tokens) /\ off \in Nat /\ Len(req[c].tokens) \in Nat
        /\ PromptChunk(c) \in Seq(Token) /\ Len(PromptChunk(c)) = ChunkEnd(c) - off
    BY <2>1, ChunkTyped, RequestTyped DEF IInv, ControlInv
  <2>3. kv' = kv \o PromptChunk(c) /\ kv \in Seq(Token)
    BY <2>1, <2>2 DEF DecodeOk, IInv, MemoryInv
  <2>4. Len(kv') = Len(kv) + Len(PromptChunk(c)) /\ Len(PromptChunk(c)) \in Nat \ {0}
    BY <2>2, <2>3, ConcatProperties
  <2>5. StepsLeft(c) = 2 * (n_ctx_seq - Len(kv)) + 2 /\ StepsLeft(c)' = 2 * (n_ctx_seq - Len(kv')) + 2
    BY <2>1 DEF StepsLeft
  <2> QED BY <1>1, <2>4, <2>5
<1>5. CASE SampleToken(c)
  <2>1. pc[c] = "sample" /\ (pc'[c] = "idle" \/ pc'[c] = "extend") /\ kv' = kv
    BY <1>5, SampledToken DEF SampleToken, memory
  <2>2. CASE pc'[c] = "extend"
    <3>1. StepsLeft(c) = 2 * (n_ctx_seq - Len(kv)) + 2 /\ StepsLeft(c)' = 2 * (n_ctx_seq - Len(kv)) + 1
      BY <2>1, <2>2 DEF StepsLeft
    <3> QED BY <1>1, <3>1
  <2> QED BY <2>1, <2>2
<1>6. CASE DecodeToken(c)
  <2>1. pc[c] = "extend" /\ pc'[c] = "sample" /\ kv' = Append(kv, Last(said)) /\ kv \in Seq(Token)
    BY <1>1, <1>6, DecodeTokenKeepsInvariant DEF DecodeToken, Goto, IInv, MemoryInv
  <2>2. Last(said) \in Token
    BY <2>1, FrontLast DEF IInv, ControlInv, StageInv
  <2>3. Len(kv') = Len(kv) + 1
    BY <2>1, <2>2, AppendProperties
  <2>4. StepsLeft(c) = 2 * (n_ctx_seq - Len(kv)) + 1 /\ StepsLeft(c)' = 2 * (n_ctx_seq - Len(kv')) + 2
    BY <2>1 DEF StepsLeft
  <2> QED BY <1>1, <2>3, <2>4
<1> QED BY <1>2, <1>3, <1>4, <1>5, <1>6 DEF Run

\* Whatever the budget and whatever the model says, generate() returns after a number
\* of steps that the context's size bounds, and no other caller can add to it.  With the
\* fairness of FairSpec, which TLC checks EveryRunReturns under, nobody keeps the mutex.
THEOREM RunsEnd == Spec => RunsAreBounded
<1>1. ASSUME IInv, IInv', Next, NEW c \in Callers, pc[c] \in Inside
      PROVE  \/ pc'[c] = "idle"
             \/ StepsLeft(c)' \in 1..(StepsLeft(c) - 1)
             \/ /\ \E d \in Callers \ {c} : pc[d] = "idle" /\ pc'[d] = "waiting"
                /\ pc'[c] = pc[c] /\ UNCHANGED <<lock, memory, off, kept, said>>
  <2>1. PICK d \in Callers : Call(d) \/ Lock(d) \/ Run(d)
    BY <1>1 DEF Next
  <2>2. CASE d = c
    <3>1. ~Call(c) /\ ~Lock(c)
      BY <1>1 DEF Call, Lock, Goto, Inside
    <3> QED BY <1>1, <2>1, <2>2, <3>1, RunShortens
  <2>3. CASE d # c
    <3>1. Call(d)
      BY <1>1, <2>1, <2>3, OthersOnlyCall
    <3>2. pc[d] = "idle" /\ pc'[d] = "waiting" /\ pc'[c] = pc[c]
      BY <1>1, <2>3, <3>1 DEF Call, Goto, IInv, ControlInv
    <3> QED BY <2>3, <3>1, <3>2 DEF Call
  <2> QED BY <2>2, <2>3
<1>2. IInv /\ IInv' /\ [Next]_vars =>
        [\A c \in Callers : pc[c] \in Inside =>
           \/ pc'[c] = "idle"
           \/ StepsLeft(c)' \in 1..(StepsLeft(c) - 1)
           \/ /\ \E d \in Callers \ {c} : pc[d] = "idle" /\ pc'[d] = "waiting"
              /\ pc'[c] = pc[c] /\ UNCHANGED <<lock, memory, off, kept, said>>]_vars
  BY <1>1
<1> QED BY <1>2, Invariance, PTL DEF Spec, RunsAreBounded
=============================================================================
