---------------------------- MODULE SearchProofs ----------------------------
(***************************************************************************)
(* Theorems about module Search, for every job, every stream of draws and  *)
(* every way a host cuts, loses and resumes a search: the annealing search *)
(* is where one that is never stopped would be, a verification never       *)
(* disagrees, and a beam that cuts nothing returns the best of all keys.   *)
(***************************************************************************)
EXTENDS Search, TotalsProofs, SequenceTheorems

-----------------------------------------------------------------------------
(* Sums over windows.                                                      *)

\* The sum is the last of the running totals.
LEMMA SumIsTotal ==
  ASSUME LastWindow \in Nat, NEW value, value \in [Windows -> Int]
  PROVE  \E f : TotalsOf(f, LastWindow, value) /\ SumOfWindows(value) = f[LastWindow]
<1> DEFINE Upto(u) == u = [i \in 0..LastWindow |-> IF i = 0 THEN 0 ELSE u[i - 1] + value[i]]
<1>1. PICK f : TotalsOf(f, LastWindow, value)
  BY RunningTotals DEF Windows
<1>2. Upto(f)
  BY <1>1 DEF TotalsOf
<1>3. PICK upto : Upto(upto) /\ SumOfWindows(value) = upto[LastWindow]
  <2> DEFINE chosen == CHOOSE u : Upto(u)
  <2>1. Upto(chosen)
    BY <1>2
  <2>2. SumOfWindows(value) = chosen[LastWindow]
    BY DEF SumOfWindows
  <2> QED
    BY <2>1, <2>2
<1>4. f[0] = upto[0] /\ \A i \in 1..LastWindow : f[i - 1] = upto[i - 1] => f[i] = upto[i]
  BY <1>1, <1>3 DEF TotalsOf
<1>5. \A i \in 0..LastWindow : f[i] = upto[i]
  BY <1>4, Agreement
<1>6. f[LastWindow] = upto[LastWindow]
  BY <1>5
<1> QED
  BY <1>1, <1>3, <1>6

\* Two sums differ by as much as two others whose terms do.
LEMMA SumsDiffer ==
  ASSUME LastWindow \in Nat,
         NEW v, v \in [Windows -> Int], NEW w, w \in [Windows -> Int],
         NEW x, x \in [Windows -> Int], NEW y, y \in [Windows -> Int],
         \A i \in Windows : v[i] - w[i] = x[i] - y[i]
  PROVE  /\ SumOfWindows(v) - SumOfWindows(w) = SumOfWindows(x) - SumOfWindows(y)
         /\ SumOfWindows(v) \in Int
<1>1. PICK f : TotalsOf(f, LastWindow, v) /\ SumOfWindows(v) = f[LastWindow]
  BY SumIsTotal
<1>2. PICK g : TotalsOf(g, LastWindow, w) /\ SumOfWindows(w) = g[LastWindow]
  BY SumIsTotal
<1>3. PICK h : TotalsOf(h, LastWindow, x) /\ SumOfWindows(x) = h[LastWindow]
  BY SumIsTotal
<1>4. PICK k : TotalsOf(k, LastWindow, y) /\ SumOfWindows(y) = k[LastWindow]
  BY SumIsTotal
<1>5. PICK left : left = [i \in 0..LastWindow |-> f[i] - g[i]]
  OBVIOUS
<1>6. PICK right : right = [i \in 0..LastWindow |-> h[i] - k[i]]
  OBVIOUS
<1>7. left[0] = right[0]
  BY <1>1, <1>2, <1>3, <1>4, <1>5, <1>6 DEF TotalsOf
<1>8. ASSUME NEW i \in 1..LastWindow, left[i - 1] = right[i - 1] PROVE left[i] = right[i]
  <2>1. /\ f[i] \in Int /\ f[i - 1] \in Int /\ g[i] \in Int /\ g[i - 1] \in Int
        /\ h[i] \in Int /\ h[i - 1] \in Int /\ k[i] \in Int /\ k[i - 1] \in Int
    BY <1>1, <1>2, <1>3, <1>4 DEF TotalsOf
  <2>2. v[i] \in Int /\ w[i] \in Int /\ x[i] \in Int /\ y[i] \in Int
    BY DEF Windows
  <2>3. /\ f[i] = f[i - 1] + v[i] /\ g[i] = g[i - 1] + w[i]
        /\ h[i] = h[i - 1] + x[i] /\ k[i] = k[i - 1] + y[i]
    BY <1>1, <1>2, <1>3, <1>4 DEF TotalsOf
  <2>4. v[i] - w[i] = x[i] - y[i]
    BY DEF Windows
  <2>5. f[i - 1] - g[i - 1] = h[i - 1] - k[i - 1]
    BY <1>5, <1>6, <1>8
  <2>6. f[i] - g[i] = h[i] - k[i]
    <3>1. \A a, b, c, d \in Int : (a + b) - (c + d) = (a - c) + (b - d)
      OBVIOUS
    <3>2. (f[i - 1] + v[i]) - (g[i - 1] + w[i]) = (f[i - 1] - g[i - 1]) + (v[i] - w[i])
      BY <2>1, <2>2, <3>1
    <3>3. (h[i - 1] + x[i]) - (k[i - 1] + y[i]) = (h[i - 1] - k[i - 1]) + (x[i] - y[i])
      BY <2>1, <2>2, <3>1
    <3>4. (f[i - 1] + v[i]) - (g[i - 1] + w[i]) = (h[i - 1] + x[i]) - (k[i - 1] + y[i])
      BY <2>4, <2>5, <3>2, <3>3, Zenon
    <3> QED
      BY <2>3, <3>4, Zenon
  <2> QED
    BY <1>5, <1>6, <2>6
<1>9. \A i \in 0..LastWindow : left[i] = right[i]
  BY <1>7, <1>8, Agreement
<1>10. left[LastWindow] = right[LastWindow]
  BY <1>9
<1> QED
  BY <1>1, <1>2, <1>3, <1>4, <1>5, <1>6, <1>10 DEF TotalsOf

-----------------------------------------------------------------------------
(* Texts, windows and scores of a valid job.                               *)

Working == job \in DOMAIN Jobs /\ ValidJob
Annealed == Working /\ Annealing
AllKeys == [1..J.symbols -> Letters]
Texts == [DOMAIN J.ciphertext -> Letters]

LEMMA JobFacts ==
  ASSUME Working
  PROVE  /\ LastWindow \in Nat /\ DOMAIN J.ciphertext = 1..(LastWindow + 3)
         /\ J.symbols \in 2..92 /\ J.symbols \in Nat /\ Iterations \in Nat
         /\ \A i \in DOMAIN J.ciphertext : J.ciphertext[i] \in 1..J.symbols
         /\ J.quad \in [[1..4 -> Letters] -> Int]
<1>1. J.ciphertext \in Seq(Nat) /\ Len(J.ciphertext) \in 4..MaxTextLength
  BY SearchData DEF Working, ValidJob, J
<1>2. Len(J.ciphertext) \in Nat /\ DOMAIN J.ciphertext = 1..Len(J.ciphertext)
  BY <1>1
<1>3. LastWindow \in Nat /\ LastWindow + 3 = Len(J.ciphertext)
  BY <1>1, <1>2, SearchBounds DEF LastWindow
<1>4. Iterations \in Nat
  BY SearchBounds DEF Working, ValidJob, Iterations
<1>5. J.symbols \in 2..92
  BY DEF Working, ValidJob
<1>6. J.symbols \in Nat
  BY <1>5
<1> QED
  BY <1>2, <1>3, <1>4, <1>5, <1>6, SearchData DEF Working, ValidJob, J, Letters

LEMMA SymbolsFinite ==
  ASSUME Working
  PROVE  IsFiniteSet(1..J.symbols) /\ Cardinality(1..J.symbols) = J.symbols
<1>1. J.symbols \in 2..92
  BY JobFacts
<1>2. 1 \in Int /\ J.symbols \in Int /\ ~ 1 > J.symbols /\ J.symbols - 1 + 1 = J.symbols
  BY <1>1
<1> QED
  BY <1>2, FS_Interval

LEMMA DecodeType ==
  ASSUME Working, NEW key, key \in AllKeys
  PROVE  Decode(key) \in Texts
BY JobFacts DEF Decode, Texts, AllKeys

LEMMA WindowType ==
  ASSUME Working, NEW text, text \in Texts, NEW i \in Windows
  PROVE  Window(text, i) \in [1..4 -> Letters] /\ J.quad[Window(text, i)] \in Int
<1>1. \A k \in 1..4 : i + k - 1 \in DOMAIN J.ciphertext
  BY JobFacts DEF Windows
<1>2. Window(text, i) \in [1..4 -> Letters]
  BY <1>1 DEF Window, Texts
<1> QED
  BY <1>2, JobFacts

\* Where two texts agree outside some windows, their scores differ by the scores
\* of these windows.
LEMMA Rescoring ==
  ASSUME Working, NEW old, old \in Texts, NEW new, new \in Texts, NEW windows,
         \A i \in Windows \ windows : Window(old, i) = Window(new, i)
  PROVE  /\ Score(new) - Score(old) = ScoreOver(new, windows) - ScoreOver(old, windows)
         /\ Score(new) \in Int /\ Score(old) \in Int
<1> DEFINE all(text) == [i \in Windows |-> IF i \in Windows THEN J.quad[Window(text, i)] ELSE 0]
           some(text) == [i \in Windows |-> IF i \in windows THEN J.quad[Window(text, i)] ELSE 0]
<1>1. LastWindow \in Nat
  BY JobFacts
<1>2. \A i \in Windows : J.quad[Window(old, i)] \in Int /\ J.quad[Window(new, i)] \in Int
  BY WindowType
<1>3. /\ all(old) \in [Windows -> Int] /\ all(new) \in [Windows -> Int]
      /\ some(old) \in [Windows -> Int] /\ some(new) \in [Windows -> Int]
  BY <1>2
<1>4. \A i \in Windows : all(new)[i] - all(old)[i] = some(new)[i] - some(old)[i]
  BY <1>2
<1>5. /\ Score(new) = SumOfWindows(all(new)) /\ Score(old) = SumOfWindows(all(old))
      /\ ScoreOver(new, windows) = SumOfWindows(some(new))
      /\ ScoreOver(old, windows) = SumOfWindows(some(old))
  BY DEF Score, ScoreOver
<1> HIDE DEF all, some
<1>6. /\ SumOfWindows(all(new)) - SumOfWindows(all(old))
           = SumOfWindows(some(new)) - SumOfWindows(some(old))
      /\ SumOfWindows(all(new)) \in Int
  BY <1>1, <1>3, <1>4, SumsDiffer
<1>7. SumOfWindows(all(old)) \in Int
  BY <1>1, <1>3, SumsDiffer
<1> QED
  BY <1>5, <1>6, <1>7

-----------------------------------------------------------------------------
(* A proposal.                                                             *)

\* The key with two letters in other places.
Replaced(key, d, new_a, new_b) == [key EXCEPT ![d.a] = new_a, ![d.b] = new_b]

\* Patching the plaintext decodes the new key, and leaves the windows alone that
\* hold neither symbol.
LEMMA Patching ==
  ASSUME Working, NEW key, key \in AllKeys, NEW d, d \in DrawsBelow(J.symbols), d.a # d.b,
         NEW new_a, new_a \in Letters, NEW new_b, new_b \in Letters
  PROVE  LET new == Replaced(key, d, new_a, new_b) IN
         /\ new \in AllKeys
         /\ Patch(Decode(key), d, new_a, new_b) = Decode(new)
         /\ \A i \in Windows \ Affected(d) : Window(Decode(key), i) = Window(Decode(new), i)
<1> DEFINE new == Replaced(key, d, new_a, new_b)
<1>1. d.a \in 1..J.symbols /\ d.b \in 1..J.symbols
  BY DEF DrawsBelow
<1>2. new \in AllKeys
  BY <1>1 DEF AllKeys, Replaced
<1>3. \A s \in 1..J.symbols : new[s] = IF s = d.b THEN new_b ELSE IF s = d.a THEN new_a ELSE key[s]
  BY <1>1 DEF AllKeys, Replaced
<1> HIDE DEF new
<1>4. /\ DOMAIN Decode(key) = DOMAIN J.ciphertext
      /\ \A i \in DOMAIN J.ciphertext : /\ Decode(key)[i] = key[J.ciphertext[i]]
                                        /\ Decode(new)[i] = new[J.ciphertext[i]]
  BY DEF Decode
<1>5. Patch(Decode(key), d, new_a, new_b) = Decode(new)
  BY <1>3, <1>4, JobFacts DEF Patch, Decode
<1>6. ASSUME NEW i \in Windows \ Affected(d) PROVE Window(Decode(key), i) = Window(Decode(new), i)
  <2>1. \A k \in 1..4 : i + k - 1 \in DOMAIN J.ciphertext
    BY <1>6, JobFacts DEF Windows
  <2>2. \A k \in 0..3 : J.ciphertext[i + k] # d.a /\ J.ciphertext[i + k] # d.b
    BY <1>6 DEF Affected
  <2>3. \A k \in 1..4 : J.ciphertext[i + k - 1] # d.a /\ J.ciphertext[i + k - 1] # d.b
    <3> TAKE k \in 1..4
    <3>1. k - 1 \in 0..3 /\ i + (k - 1) = i + k - 1
      BY <1>6 DEF Windows
    <3> QED
      BY <2>2, <3>1
  <2>4. \A k \in 1..4 : Decode(key)[i + k - 1] = Decode(new)[i + k - 1]
    <3> TAKE k \in 1..4
    <3>1. PICK j \in DOMAIN J.ciphertext : j = i + k - 1
      BY <2>1
    <3>2. J.ciphertext[j] \in 1..J.symbols /\ J.ciphertext[j] # d.a /\ J.ciphertext[j] # d.b
      BY <2>3, <3>1, JobFacts
    <3>3. new[J.ciphertext[j]] = key[J.ciphertext[j]]
      BY <1>3, <3>2
    <3> QED
      BY <1>4, <3>1, <3>3
  <2> QED
    BY <2>4 DEF Window
<1> QED
  BY <1>2, <1>5, <1>6 DEF new

\* Writing the old letters back restores the plaintext.
LEMMA Unpatching ==
  ASSUME Working, NEW key, key \in AllKeys, NEW d, d \in DrawsBelow(J.symbols), d.a # d.b,
         NEW new_a, new_a \in Letters, NEW new_b, new_b \in Letters
  PROVE  Patch(Patch(Decode(key), d, new_a, new_b), d, key[d.a], key[d.b]) = Decode(key)
<1> DEFINE new == Replaced(key, d, new_a, new_b)
<1>1. d.a \in 1..J.symbols /\ d.b \in 1..J.symbols /\ key[d.a] \in Letters /\ key[d.b] \in Letters
  BY DEF DrawsBelow, AllKeys
<1>2. new \in AllKeys /\ Patch(Decode(key), d, new_a, new_b) = Decode(new)
  BY Patching
<1>3. Replaced(new, d, key[d.a], key[d.b]) = key
  BY <1>1 DEF Replaced, AllKeys
<1> HIDE DEF new
<1>4. Patch(Decode(new), d, key[d.a], key[d.b]) = Decode(Replaced(new, d, key[d.a], key[d.b]))
  BY <1>1, <1>2, Patching
<1> QED
  BY <1>2, <1>3, <1>4

-----------------------------------------------------------------------------
(* Valid keys.                                                             *)

\* Keys and partial keys.
Rows == [1..J.symbols -> Int]

LEMMA KeysAreRows == AllKeys \subseteq Rows
BY SearchBounds DEF AllKeys, Rows, Letters

ValidKeys == {key \in AllKeys : ValidKey(key)}

LEMMA ValidIs ==
  ASSUME Working, NEW key, key \in AllKeys
  PROVE  ValidKey(key) <=>
           /\ J.encoding = "substitution" => \A s, t \in 1..J.symbols : key[s] = key[t] => s = t
           /\ J.encoding = "balanced-homophonic" => \A c \in Letters : Uses(key, c) = Capacity
<1>1. J.symbols \in Nat
  BY JobFacts
<1>2. DOMAIN key = 1..J.symbols /\ Len(key) = J.symbols /\ \A s \in DOMAIN key : key[s] \in Letters
  BY <1>1 DEF AllKeys
<1> QED
  BY <1>2 DEF ValidKey

\* Two keys whose places can be matched, which then use each letter as often.
Matched(match, key, other) ==
    /\ match \in [1..J.symbols -> 1..J.symbols]
    /\ \A x \in 1..J.symbols : match[match[x]] = x /\ other[x] = key[match[x]]

LEMMA UsesMatch ==
  ASSUME Working, NEW key, key \in Rows, NEW other, other \in Rows, NEW c,
         NEW match, Matched(match, key, other)
  PROVE  Uses(other, c) = Uses(key, c)
<1> DEFINE from == {x \in 1..J.symbols : other[x] = c}
           to == {x \in 1..J.symbols : key[x] = c}
           f == [x \in from |-> match[x]]
<1>1. IsFiniteSet(from)
  BY SymbolsFinite, FS_Subset
<1> USE DEF Matched
<1>2. f \in [from -> to]
  OBVIOUS
<1>3. \A x, y \in from : f[x] = f[y] => x = y
  OBVIOUS
<1>4. ASSUME NEW y \in to PROVE \E x \in from : f[x] = y
  <2>1. match[y] \in from /\ f[match[y]] = y
    OBVIOUS
  <2> QED
    BY <2>1
<1> HIDE DEF Matched, from, to, f
<1>5. f \in Bijection(from, to)
  BY <1>2, <1>3, <1>4, Zenon DEF Bijection, Injection, Surjection, IsInjective
<1>6. Cardinality(from) = Cardinality(to)
  BY <1>1, <1>5, FS_Bijection DEF ExistsBijection
<1> QED
  BY <1>6 DEF Uses, Rows, from, to

LEMMA ExchangeValid ==
  ASSUME Working, NEW key, key \in ValidKeys, NEW s \in 1..J.symbols, NEW t \in 1..J.symbols
  PROVE  Exchange(key, s, t) \in ValidKeys
<1> DEFINE new == Exchange(key, s, t)
           match == [x \in 1..J.symbols |-> IF x = s THEN t ELSE IF x = t THEN s ELSE x]
<1>1. key \in AllKeys
  BY DEF ValidKeys
<1>2. new \in AllKeys
  BY <1>1 DEF Exchange, AllKeys
<1>3. match \in [1..J.symbols -> 1..J.symbols]
  OBVIOUS
<1>4. \A x \in 1..J.symbols : match[match[x]] = x /\ new[x] = key[match[x]]
  BY <1>1 DEF Exchange, AllKeys
<1> HIDE DEF new, match
<1>5. ASSUME NEW c PROVE Uses(new, c) = Uses(key, c)
  <2>1. key \in Rows /\ new \in Rows
    BY <1>1, <1>2, KeysAreRows
  <2>2. Matched(match, key, new)
    BY <1>3, <1>4 DEF Matched
  <2> QED
    BY <2>1, <2>2, UsesMatch
<1>6. ASSUME \A x, y \in 1..J.symbols : key[x] = key[y] => x = y
      PROVE  \A x, y \in 1..J.symbols : new[x] = new[y] => x = y
  BY <1>3, <1>4, <1>6
<1>7. ValidKey(new)
  BY <1>1, <1>2, <1>5, <1>6, ValidIs DEF ValidKeys
<1> QED
  BY <1>2, <1>7 DEF ValidKeys, new

\* Every residue is met as often.
LEMMA Residues ==
  ASSUME NEW q \in Nat, NEW n \in Nat, n = A * q, NEW c \in Letters
  PROVE  Cardinality({s \in 1..n : (s - 1) % A = c}) = q
<1> DEFINE to == {s \in 1..n : (s - 1) % A = c}
           f == [k \in 1..q |-> A * (k - 1) + c + 1]
<1>1. A \in Nat \ {0} /\ c \in 0..(A - 1)
  BY SearchBounds DEF Letters
<1>2. ASSUME NEW k \in 1..q PROVE f[k] \in to
  <2>1. A * (k - 1) \in Nat /\ A * (k - 1) + A <= A * q
    <3>1. k - 1 \in Nat /\ A * (k - 1) \in Nat
      BY <1>1
    <3>2. A * (k - 1) + A = A * k
      BY <1>1
    <3>3. A * k <= A * q
      BY <1>1
    <3> QED
      BY <3>1, <3>2, <3>3
  <2>2. A * (k - 1) + c + 1 \in 1..n
    BY <1>1, <2>1
  <2>3. (A * (k - 1) + c) % A = c
    BY <1>1
  <2> QED
    BY <1>1, <2>1, <2>2, <2>3
<1>3. ASSUME NEW j \in 1..q, NEW k \in 1..q, f[j] = f[k] PROVE j = k
  <2>1. A * (j - 1) = A * (k - 1)
    BY <1>1, <1>3
  <2> QED
    BY <1>1, <2>1
<1>4. ASSUME NEW s \in to PROVE \E k \in 1..q : f[k] = s
  <2>1. s \in 1..n /\ (s - 1) % A = c
    OBVIOUS
  <2>2. PICK d : d = (s - 1) \div A
    OBVIOUS
  <2>3. d \in Nat /\ s - 1 = A * d + c
    BY <1>1, <2>1, <2>2
  <2>4. d < q
    <3>1. A * d < A * q
      BY <1>1, <2>1, <2>3
    <3> QED
      BY <1>1, <2>3, <3>1
  <2>5. d + 1 \in 1..q /\ f[d + 1] = s
    BY <1>1, <2>1, <2>3, <2>4
  <2> QED
    BY <2>5
<1> HIDE DEF to
<1>5. f \in Bijection(1..q, to)
  <2>1. f \in [1..q -> to]
    BY <1>2
  <2> HIDE DEF f
  <2> QED
    BY <1>3, <1>4, <2>1, Zenon DEF Bijection, Injection, Surjection, IsInjective
<1>6. IsFiniteSet(1..q) /\ Cardinality(1..q) = q
  BY FS_Interval
<1>7. Cardinality(to) = q
  BY <1>5, <1>6, FS_Bijection DEF ExistsBijection
<1> QED
  BY <1>7 DEF to

\* The symbols of a balanced key are as many for each letter.
LEMMA CapacityFits ==
  ASSUME Working
  PROVE  /\ Capacity \in Nat
         /\ J.encoding = "balanced-homophonic" => J.symbols = A * Capacity
<1>1. J.symbols \in Nat /\ A \in Nat \ {0}
  BY JobFacts, SearchBounds
<1>2. J.encoding = "balanced-homophonic" => J.symbols % A = 0
  BY DEF Working, ValidJob
<1> QED
  BY <1>1, <1>2 DEF Capacity

LEMMA FirstLettersValid ==
  ASSUME Working
  PROVE  [s \in 1..J.symbols |-> (s - 1) % A] \in ValidKeys
<1> DEFINE base == [s \in 1..J.symbols |-> (s - 1) % A]
<1>1. J.symbols \in Nat /\ A \in Nat \ {0}
  BY JobFacts, SearchBounds
<1>2. base \in AllKeys
  BY <1>1 DEF AllKeys, Letters
<1>3. ASSUME J.encoding = "substitution", NEW s \in 1..J.symbols, NEW t \in 1..J.symbols,
             base[s] = base[t]
      PROVE  s = t
  <2>1. J.symbols = A
    BY <1>3 DEF Working, ValidJob
  <2>2. s - 1 \in 0..(A - 1) /\ t - 1 \in 0..(A - 1)
    BY <1>1, <2>1
  <2>3. (s - 1) % A = s - 1 /\ (t - 1) % A = t - 1
    BY <1>1, <2>2
  <2> QED
    BY <1>1, <1>3, <2>3
<1>4. ASSUME J.encoding = "balanced-homophonic", NEW c \in Letters PROVE Uses(base, c) = Capacity
  <2>1. J.symbols = A * Capacity /\ Capacity \in Nat
    BY <1>4, CapacityFits
  <2>2. {s \in DOMAIN base : base[s] = c} = {s \in 1..J.symbols : (s - 1) % A = c}
    OBVIOUS
  <2>3. Cardinality({s \in 1..J.symbols : (s - 1) % A = c}) = Capacity
    BY <1>1, <2>1, Residues
  <2> QED
    BY <2>2, <2>3 DEF Uses
<1>5. ValidKey(base)
  <2> HIDE DEF base
  <2> QED
    BY <1>2, <1>3, <1>4, ValidIs
<1> QED
  BY <1>2, <1>5 DEF ValidKeys

-----------------------------------------------------------------------------
(* The uninterrupted search.                                               *)

\* Where it may be: a number of proposals and a key with its full score.
Places ==
    {c \in [iteration : Nat, key : ValidKeys, score : Int] : c.score = Score(Decode(c.key))}

DrawsFit == \A n \in 0..(Iterations - 1) : stream.draw[n] \in DrawsBelow(J.symbols)

LEMMA FullScoredPlace ==
  ASSUME Working, DrawsFit, NEW c, c \in Places, c.iteration < Iterations
  PROVE  FullScored(c) \in Places /\ FullScored(c).iteration = c.iteration + 1
<1> DEFINE d == stream.draw[c.iteration]
           new == IF Reassigns(d) THEN [c.key EXCEPT ![d.a] = d.letter]
                  ELSE [c.key EXCEPT ![d.a] = c.key[d.b], ![d.b] = c.key[d.a]]
<1>1. c.iteration \in Nat /\ c.key \in ValidKeys /\ c.score \in Int /\ c.score = Score(Decode(c.key))
      /\ c = [iteration |-> c.iteration, key |-> c.key, score |-> c.score]
  BY DEF Places
<1>2. d \in DrawsBelow(J.symbols)
  BY <1>1, JobFacts DEF DrawsFit
<1>3. d.a \in 1..J.symbols /\ d.b \in 1..J.symbols /\ d.letter \in Letters
  BY <1>2, SearchData DEF DrawsBelow, Letters
<1>4. new \in ValidKeys
  <2>1. CASE Reassigns(d)
    <3>1. new \in AllKeys
      BY <1>1, <1>3, <2>1 DEF AllKeys, ValidKeys
    <3>2. J.encoding = "homophonic"
      BY <2>1 DEF Reassigns
    <3> HIDE DEF new
    <3>3. ValidKey(new)
      BY <3>1, <3>2, ValidIs
    <3> QED
      BY <3>1, <3>3 DEF ValidKeys
  <2>2. CASE ~ Reassigns(d)
    <3>1. new = Exchange(c.key, d.a, d.b)
      BY <2>2 DEF Exchange
    <3> QED
      BY <1>1, <1>3, <3>1, ExchangeValid
  <2> QED
    BY <2>1, <2>2
<1>5. Decode(new) \in Texts
  BY <1>4, DecodeType DEF ValidKeys
<1>6. Score(Decode(new)) \in Int
  BY <1>5, Rescoring
<1>7. FullScored(c) = [iteration |-> c.iteration + 1, key |-> new, score |-> Score(Decode(new))]
      \/ FullScored(c) = [c EXCEPT !.iteration = c.iteration + 1]
  BY DEF FullScored
<1>8. [c EXCEPT !.iteration = c.iteration + 1]
        = [iteration |-> c.iteration + 1, key |-> c.key, score |-> c.score]
  BY <1>1
<1> HIDE DEF new
<1> QED
  BY <1>1, <1>4, <1>6, <1>7, <1>8 DEF Places

\* From a first key the path goes on for as long as the budget lasts.
LEMMA PathIs ==
  ASSUME Annealed, DrawsFit, FirstKey \in ValidKeys
  PROVE  /\ Path[0] = [iteration |-> 0, key |-> FirstKey, score |-> Score(Decode(FirstKey))]
         /\ \A n \in 0..Iterations : Path[n] \in Places /\ Path[n].iteration = n
         /\ \A n \in 1..Iterations : Path[n] = FullScored(Path[n - 1])
<1> DEFINE start == [iteration |-> 0, key |-> FirstKey, score |-> Score(Decode(FirstKey))]
           Visits(v) == v = [n \in 0..Iterations |-> IF n = 0 THEN start ELSE FullScored(v[n - 1])]
<1>1. Working /\ Iterations \in Nat
  <2>1. Working
    BY DEF Annealed
  <2> QED
    BY <2>1, JobFacts
<1>2. start \in Places
  <2>1. Decode(FirstKey) \in Texts
    BY <1>1, DecodeType DEF ValidKeys
  <2>2. Score(Decode(FirstKey)) \in Int
    BY <1>1, <2>1, Rescoring
  <2> QED
    BY <2>2 DEF Places
<1>3. PICK step : step = [i \in 1..Iterations |->
                            [c \in Places |-> IF c.iteration < Iterations THEN FullScored(c) ELSE c]]
  OBVIOUS
<1>4. step \in [1..Iterations -> [Places -> Places]]
  BY <1>1, <1>3, FullScoredPlace
<1>5. PICK f : Walk(f, Iterations, Places, start, step)
  BY <1>1, <1>2, <1>4, Recursion
<1>6. f \in [0..Iterations -> Places] /\ f[0] = start
  BY <1>5 DEF Walk
<1>7. \A i \in 1..Iterations :
          f[i] = IF f[i - 1].iteration < Iterations THEN FullScored(f[i - 1]) ELSE f[i - 1]
  BY <1>1, <1>3, <1>5, <1>6 DEF Walk
<1>8. \A n \in 0..Iterations : f[n].iteration = n
  <2>1. PICK count : count = [n \in 0..Iterations |-> f[n].iteration]
    OBVIOUS
  <2>2. PICK same : same = [n \in 0..Iterations |-> n]
    OBVIOUS
  <2>3. count[0] = same[0]
    BY <1>1, <1>6, <2>1, <2>2
  <2>4. ASSUME NEW i \in 1..Iterations, count[i - 1] = same[i - 1] PROVE count[i] = same[i]
    <3>1. i - 1 \in 0..Iterations /\ i \in 0..Iterations /\ i - 1 < Iterations /\ i - 1 + 1 = i
      BY <1>1
    <3>2. f[i - 1].iteration = i - 1 /\ f[i - 1] \in Places
      BY <1>6, <2>1, <2>2, <2>4, <3>1
    <3>3. f[i] = FullScored(f[i - 1]) /\ FullScored(f[i - 1]).iteration = i
      BY <1>1, <1>7, <3>1, <3>2, FullScoredPlace
    <3> QED
      BY <2>1, <2>2, <3>1, <3>3
  <2>5. \A n \in 0..Iterations : count[n] = same[n]
    BY <1>1, <2>3, <2>4, Agreement
  <2> QED
    BY <2>1, <2>2, <2>5
<1>9. \A n \in 1..Iterations : f[n] = FullScored(f[n - 1])
  <2> TAKE n \in 1..Iterations
  <2>1. n - 1 \in 0..Iterations /\ n - 1 < Iterations
    BY <1>1
  <2> QED
    BY <1>7, <1>8, <2>1
<1>10. Visits(f)
  BY <1>6, <1>9
<1>11. PICK v : Visits(v) /\ Path = v
  <2> DEFINE chosen == CHOOSE u : Visits(u)
  <2>1. Visits(chosen)
    BY <1>10
  <2>2. Path = chosen
    BY DEF Path, Annealed, Working, Drawn
  <2> QED
    BY <2>1, <2>2
<1>12. f[0] = v[0] /\ \A n \in 1..Iterations : f[n - 1] = v[n - 1] => f[n] = v[n]
  BY <1>1, <1>6, <1>9, <1>11
<1>13. \A n \in 0..Iterations : f[n] = v[n]
  BY <1>1, <1>12, Agreement
<1>14. v[0] = start
  BY <1>1, <1>6, <1>13
<1>15. ASSUME NEW n \in 0..Iterations PROVE v[n] \in Places /\ v[n].iteration = n
  BY <1>6, <1>8, <1>13
<1>16. ASSUME NEW n \in 1..Iterations PROVE v[n] = FullScored(v[n - 1])
  <2>1. n \in 0..Iterations /\ n - 1 \in 0..Iterations
    BY <1>1
  <2> QED
    BY <1>9, <1>13, <2>1
<1> QED
  BY <1>11, <1>14, <1>15, <1>16

\* Every shuffle of the first letters is a key.
LEMMA FirstKeyValid ==
  ASSUME Working, stream.first \in Shuffles
  PROVE  FirstKey \in ValidKeys
<1> DEFINE n == J.symbols
           base == [s \in 1..n |-> (s - 1) % A]
           Other(i) == 1 + (stream.first[i + 1] % (i + 1))
           Shuffled(u) == u = [i \in 1..n |-> IF i = n THEN base
                                              ELSE Exchange(u[i + 1], i + 1, Other(i))]
<1>1. n \in Nat /\ n > 1 /\ n - 1 \in Nat
  <2>1. J.symbols \in 2..92
    BY JobFacts
  <2> QED
    BY <2>1
<1>2. base \in ValidKeys
  BY FirstLettersValid
<1>3. \A i \in 1..(n - 1) : Other(i) \in 1..n
  <2> TAKE i \in 1..(n - 1)
  <2>1. i + 1 \in 2..n
    BY <1>1
  <2>2. stream.first[i + 1] \in Nat
    BY <2>1, SearchData DEF Working, J
  <2> QED
    BY <1>1, <2>1, <2>2
<1>4. \A key \in ValidKeys, s, t \in 1..n : Exchange(key, s, t) \in ValidKeys
  BY ExchangeValid
<1>5. PICK step : step = [k \in 1..(n - 1) |->
                            [key \in ValidKeys |-> Exchange(key, n - k + 1, Other(n - k))]]
  OBVIOUS
<1>6. step \in [1..(n - 1) -> [ValidKeys -> ValidKeys]]
  <2>1. \A k \in 1..(n - 1) : n - k + 1 \in 1..n /\ n - k \in 1..(n - 1)
    BY <1>1
  <2> HIDE DEF Other, n
  <2> QED
    BY <1>3, <1>4, <1>5, <2>1
<1>7. PICK f : Walk(f, n - 1, ValidKeys, base, step)
  <2> HIDE DEF base, n
  <2> QED
    BY <1>1, <1>2, <1>6, Recursion, Zenon
<1>8. f \in [0..(n - 1) -> ValidKeys] /\ f[0] = base
  BY <1>7 DEF Walk
<1>9. ASSUME NEW k \in 1..(n - 1)
      PROVE  f[k] = Exchange(f[k - 1], n - k + 1, Other(n - k))
  <2>1. f[k - 1] \in ValidKeys
    BY <1>1, <1>8
  <2>2. f[k] = step[k][f[k - 1]]
    BY <1>7 DEF Walk
  <2> HIDE DEF Other, n, base
  <2> QED
    BY <1>5, <2>1, <2>2
<1>10. PICK g : g = [i \in 1..n |-> f[n - i]]
  OBVIOUS
<1>11. \A i \in 1..n : g[i] = f[n - i]
  BY <1>10
<1>12. Shuffled(g)
  <2>1. ASSUME NEW i \in 1..n
        PROVE  g[i] = IF i = n THEN base ELSE Exchange(g[i + 1], i + 1, Other(i))
    <3>1. CASE i = n
      BY <1>1, <1>8, <1>10, <3>1
    <3>2. CASE i # n
      <4>1. n - i \in 1..(n - 1) /\ n - i - 1 = n - (i + 1) /\ i + 1 \in 1..n
            /\ n - (n - i) = i /\ n - (n - i) + 1 = i + 1
        BY <1>1, <3>2
      <4>2. f[n - i] = Exchange(f[n - i - 1], n - (n - i) + 1, Other(n - (n - i)))
        BY <1>9, <4>1
      <4> HIDE DEF n, Other, base
      <4> QED
        BY <1>11, <3>2, <4>1, <4>2
    <3> QED
      BY <3>1, <3>2
  <2> HIDE DEF n, base, Other
  <2> QED
    BY <1>10, <2>1
<1>13. PICK u : Shuffled(u) /\ FirstKey = u[1]
  <2> DEFINE chosen == CHOOSE u : Shuffled(u)
  <2>1. Shuffled(chosen)
    BY <1>12
  <2>2. FirstKey = chosen[1]
    BY DEF FirstKey
  <2> QED
    BY <2>1, <2>2
<1>14. PICK h : h = [k \in 0..(n - 1) |-> u[n - k]]
  OBVIOUS
<1> HIDE DEF n, base, Other
<1>15. h[0] = f[0]
  <2>1. n \in 1..n /\ n - 0 = n /\ 0 \in 0..(n - 1)
    BY <1>1
  <2> QED
    BY <1>8, <1>13, <1>14, <2>1
<1>16. ASSUME NEW k \in 1..(n - 1), h[k - 1] = f[k - 1] PROVE h[k] = f[k]
  <2>1. /\ k \in 0..(n - 1) /\ k - 1 \in 0..(n - 1)
        /\ n - k \in 1..n /\ n - k # n /\ n - (k - 1) = n - k + 1
    BY <1>1
  <2>2. h[k] = u[n - k] /\ h[k - 1] = u[n - k + 1]
    BY <1>14, <2>1
  <2>3. u[n - k] = Exchange(u[n - k + 1], n - k + 1, Other(n - k))
    BY <1>13, <2>1
  <2> QED
    BY <1>9, <1>16, <2>2, <2>3
<1>17. \A k \in 0..(n - 1) : h[k] = f[k]
  BY <1>1, <1>15, <1>16, Agreement
<1>18. h[n - 1] = f[n - 1] /\ h[n - 1] = u[1]
  <2>1. n - 1 \in 0..(n - 1) /\ n - (n - 1) = 1
    BY <1>1
  <2> QED
    BY <1>14, <1>17, <2>1
<1>19. f[n - 1] \in ValidKeys
  BY <1>1, <1>8
<1> QED
  BY <1>13, <1>18, <1>19

-----------------------------------------------------------------------------
(* The order of keys and of candidates.                                    *)

LEMMA KeysOrdered ==
  ASSUME Working, NEW k, k \in Rows, NEW l, l \in Rows
  PROVE  k = l \/ Precedes(k, l) \/ Precedes(l, k)
<1> DEFINE Differ == {s \in 1..J.symbols : k[s] # l[s]}
<1>1. CASE Differ = {}
  <2>1. k \in [1..J.symbols -> Int] /\ l \in [1..J.symbols -> Int]
    BY DEF Rows
  <2>2. \A s \in 1..J.symbols : k[s] = l[s]
    BY <1>1
  <2>3. k = [s \in 1..J.symbols |-> k[s]] /\ l = [s \in 1..J.symbols |-> l[s]]
    BY <2>1
  <2>4. k = l
    BY <2>2, <2>3, Zenon
  <2> QED
    BY <2>4
<1>2. CASE Differ # {}
  <2>1. Differ \in SUBSET Nat
    OBVIOUS
  <2>2. PICK s \in Differ : \A t \in Differ : s <= t
    <3> HIDE DEF Differ
    <3> QED
      BY <1>2, <2>1, LeastOf
  <2>3. s \in 1..J.symbols /\ k[s] # l[s] /\ \A t \in 1..(s - 1) : k[t] = l[t]
    <3>1. J.symbols \in 2..92
      BY JobFacts
    <3>2. ASSUME NEW t \in 1..(s - 1) PROVE t \in 1..J.symbols /\ ~ s <= t
      BY <2>2, <3>1, <3>2
    <3> QED
      BY <2>2, <3>2
  <2>4. k[s] \in Int /\ l[s] \in Int /\ s \in DOMAIN k /\ s \in DOMAIN l
    BY <2>3 DEF Rows
  <2>5. k[s] < l[s] \/ l[s] < k[s]
    BY <2>3, <2>4
  <2> QED
    BY <2>3, <2>4, <2>5 DEF Precedes
<1> QED
  BY <1>1, <1>2

LEMMA PrecedesTransitive ==
  ASSUME Working, NEW k, k \in Rows, NEW l, l \in Rows, NEW m, m \in Rows,
         Precedes(k, l), Precedes(l, m)
  PROVE  Precedes(k, m)
<1>1. PICK s \in DOMAIN k : k[s] < l[s] /\ \A t \in 1..(s - 1) : k[t] = l[t]
  BY DEF Precedes
<1>2. PICK r \in DOMAIN l : l[r] < m[r] /\ \A t \in 1..(r - 1) : l[t] = m[t]
  BY DEF Precedes
<1>3. /\ s \in 1..J.symbols /\ r \in 1..J.symbols /\ DOMAIN k = 1..J.symbols
      /\ k[s] \in Int /\ l[s] \in Int /\ m[s] \in Int
      /\ k[r] \in Int /\ l[r] \in Int /\ m[r] \in Int
  BY <1>1, <1>2 DEF Rows
<1>4. CASE s <= r
  <2>1. k[s] < m[s]
    BY <1>1, <1>2, <1>3, <1>4
  <2>2. \A t \in 1..(s - 1) : k[t] = m[t]
    BY <1>1, <1>2, <1>3, <1>4
  <2> QED
    BY <1>3, <2>1, <2>2 DEF Precedes
<1>5. CASE r < s
  <2>1. k[r] < m[r]
    BY <1>1, <1>2, <1>3, <1>5
  <2>2. \A t \in 1..(r - 1) : k[t] = m[t]
    BY <1>1, <1>2, <1>3, <1>5
  <2> QED
    BY <1>3, <2>1, <2>2 DEF Precedes
<1> QED
  BY <1>3, <1>4, <1>5

\* A key with its score before another: a better score, or the same and a smaller key.
Ahead(k, x, l, y) == x > y \/ (x = y /\ Precedes(k, l))

LEMMA AheadTransitive ==
  ASSUME Working, NEW k, k \in Rows, NEW l, l \in Rows, NEW m, m \in Rows,
         NEW x \in Int, NEW y \in Int, NEW z \in Int, Ahead(k, x, l, y), Ahead(l, y, m, z)
  PROVE  Ahead(k, x, m, z)
BY PrecedesTransitive DEF Ahead

LEMMA AheadTotal ==
  ASSUME Working, NEW k, k \in Rows, NEW l, l \in Rows, NEW x \in Int, NEW y \in Int
  PROVE  (k = l /\ x = y) \/ Ahead(k, x, l, y) \/ Ahead(l, y, k, x)
<1>1. CASE x = y
  BY <1>1, KeysOrdered DEF Ahead
<1>2. CASE x # y
  BY <1>2 DEF Ahead
<1> QED
  BY <1>1, <1>2

LEMMA Division ==
  ASSUME NEW n \in Nat, NEW t \in Nat \ {0}
  PROVE  /\ n \div t \in Nat
         /\ (n + 1) % t = 0 => /\ (n + 1) \div t = n \div t + 1
                               /\ (n \div t + 1) * t = n + 1
         /\ (n + 1) % t # 0 => (n + 1) \div t = n \div t
OBVIOUS

-----------------------------------------------------------------------------
(* Checkpoints that are where the uninterrupted search would be.           *)

\* The path is that search, from the first key to the end of the budget.
Road ==
    /\ DrawsFit /\ FirstKey \in ValidKeys
    /\ path[0] = [iteration |-> 0, key |-> FirstKey, score |-> Score(Decode(FirstKey))]
    /\ \A n \in 0..Iterations : path[n] \in Places /\ path[n].iteration = n
    /\ \A n \in 1..Iterations : path[n] = FullScored(path[n - 1])

Entries == Nat \X AllKeys \X AllKeys \X Int \X Int

CheckpointType ==
    [job : {job}, iteration : 0..Iterations, key : AllKeys, best_key : AllKeys,
     score : Int, best_score : Int, trace : Seq(Entries)]

OnPath(cp) == cp.key = path[cp.iteration].key /\ cp.score = path[cp.iteration].score

\* The best key was visited, and is ahead of all others that were.
Leads(key, score, n) ==
    /\ \E m \in 0..n : key = path[m].key /\ score = path[m].score
    /\ \A m \in 0..n : \/ key = path[m].key /\ score = path[m].score
                       \/ Ahead(key, score, path[m].key, path[m].score)

\* What is written down of the place after n proposals: it and the best until then.
Entry(e, n) ==
    \E key \in AllKeys, score \in Int :
        Leads(key, score, n) /\ e = <<n, path[n].key, key, path[n].score, score>>

Traced(cp) ==
    /\ Len(cp.trace) = cp.iteration \div TraceEvery
    /\ \A i \in DOMAIN cp.trace : Entry(cp.trace[i], i * TraceEvery)

Good(cp) ==
    cp \in CheckpointType /\ OnPath(cp) /\ Traced(cp)
      /\ Leads(cp.best_key, cp.best_score, cp.iteration)

LEMMA InitialGood ==
  ASSUME Working, Road
  PROVE  Good(Initial)
<1>1. path[0] \in Places /\ Iterations \in Nat
  BY JobFacts DEF Road
<1>2. /\ path[0].key = FirstKey /\ FirstKey \in AllKeys
      /\ path[0].score = Score(Decode(FirstKey)) /\ Score(Decode(FirstKey)) \in Int
  BY <1>1 DEF Road, Places, ValidKeys
<1>3. Initial \in CheckpointType /\ OnPath(Initial)
  BY <1>1, <1>2 DEF Initial, CheckpointType, OnPath
<1>4. Traced(Initial)
  BY SearchBounds DEF Initial, Traced
<1>5. Leads(Initial.best_key, Initial.best_score, Initial.iteration)
  BY <1>2 DEF Initial, Leads
<1> QED
  BY <1>3, <1>4, <1>5 DEF Good

\* A new place on the path, and the better of it and the best so far.
LEMMA LeadsOn ==
  ASSUME Working, Road, NEW n \in Nat, n < Iterations,
         NEW key, key \in AllKeys, NEW score \in Int, Leads(key, score, n)
  PROVE  LET next == path[n + 1] IN
         IF Ahead(next.key, next.score, key, score)
         THEN Leads(next.key, next.score, n + 1)
         ELSE Leads(key, score, n + 1)
<1> DEFINE k == path[n + 1].key
           s == path[n + 1].score
<1>1. /\ n + 1 \in 0..Iterations /\ k \in AllKeys /\ s \in Int
      /\ \A m \in 0..n : path[m].key \in AllKeys /\ path[m].score \in Int
  BY JobFacts DEF Road, Places, ValidKeys
<1>2. \A m \in 0..(n + 1) : m \in 0..n \/ m = n + 1
  OBVIOUS
<1>3. n + 1 \in 0..(n + 1) /\ \A m \in 0..n : m \in 0..(n + 1)
  OBVIOUS
<1>4. ASSUME Ahead(k, s, key, score) PROVE Leads(k, s, n + 1)
  <2>1. ASSUME NEW m \in 0..n PROVE Ahead(k, s, path[m].key, path[m].score)
    <3>1. CASE key = path[m].key /\ score = path[m].score
      BY <1>4, <3>1
    <3>2. CASE Ahead(key, score, path[m].key, path[m].score)
      BY <1>1, <1>4, <3>2, KeysAreRows, AheadTransitive
    <3> QED
      BY <3>1, <3>2 DEF Leads
  <2> QED
    BY <1>2, <1>3, <2>1 DEF Leads
<1>5. ASSUME ~ Ahead(k, s, key, score) PROVE Leads(key, score, n + 1)
  <2>1. (key = k /\ score = s) \/ Ahead(key, score, k, s)
    BY <1>1, <1>5, KeysAreRows, AheadTotal
  <2> QED
    BY <1>2, <1>3, <2>1 DEF Leads
<1> QED
  BY <1>4, <1>5

LEMMA LeadsStay ==
  ASSUME NEW n \in Nat, NEW key, NEW score, Leads(key, score, n),
         path[n + 1].key = path[n].key, path[n + 1].score = path[n].score
  PROVE  Leads(key, score, n + 1)
<1>1. \A m \in 0..(n + 1) : m \in 0..n \/ m = n + 1
  OBVIOUS
<1>2. n \in 0..n /\ \A m \in 0..n : m \in 0..(n + 1)
  OBVIOUS
<1> QED
  BY <1>1, <1>2 DEF Leads

\* A checkpoint with the key of the next place becomes, counted, a good one.
LEMMA CountedGood ==
  ASSUME Working, NEW cp, cp \in CheckpointType, cp.iteration < Iterations, Traced(cp),
         path[cp.iteration + 1].key = cp.key, path[cp.iteration + 1].score = cp.score,
         Leads(cp.best_key, cp.best_score, cp.iteration + 1)
  PROVE  /\ Good(Counted(cp)) /\ Counted(cp).iteration = cp.iteration + 1
         /\ Counted(cp).key = cp.key
<1> DEFINE n == cp.iteration + 1
           entry == <<n, cp.key, cp.best_key, cp.score, cp.best_score>>
           trace == IF n % TraceEvery = 0 THEN Append(cp.trace, entry) ELSE cp.trace
           new == [cp EXCEPT !.iteration = n, !.trace = trace]
<1>1. /\ cp.iteration \in Nat /\ n \in 0..Iterations /\ TraceEvery \in Nat \ {0}
      /\ cp.trace \in Seq(Entries) /\ entry \in Entries
  BY JobFacts, SearchBounds DEF CheckpointType, Entries
<1>2. Counted(cp) = new
  BY DEF Counted
<1>3. /\ new.iteration = n /\ new.key = cp.key /\ new.score = cp.score
      /\ new.best_key = cp.best_key /\ new.best_score = cp.best_score /\ new.trace = trace
      /\ new.job = cp.job
  BY DEF CheckpointType
<1>4. trace \in Seq(Entries)
  BY <1>1
<1>5. new \in CheckpointType
  BY <1>1, <1>4 DEF CheckpointType
<1>6. OnPath(new)
  BY <1>3 DEF OnPath
<1>7. Traced(new)
  <2>1. CASE n % TraceEvery = 0
    <3>1. /\ n \div TraceEvery = cp.iteration \div TraceEvery + 1
          /\ (cp.iteration \div TraceEvery + 1) * TraceEvery = n
      BY <1>1, <2>1, Division
    <3>2. /\ Len(trace) = Len(cp.trace) + 1 /\ DOMAIN trace = 1..(Len(cp.trace) + 1)
          /\ trace[Len(cp.trace) + 1] = entry
          /\ \A i \in 1..Len(cp.trace) : trace[i] = cp.trace[i]
      BY <1>1, <2>1, SMTT(30)
    <3>3. Len(cp.trace) = cp.iteration \div TraceEvery /\ DOMAIN cp.trace = 1..Len(cp.trace)
          /\ Len(cp.trace) \in Nat
      BY <1>1 DEF Traced
    <3>4. Entry(entry, n)
      BY <1>1 DEF Entry, CheckpointType
    <3>5. ASSUME NEW i \in DOMAIN trace PROVE Entry(trace[i], i * TraceEvery)
      <4>1. CASE i \in 1..Len(cp.trace)
        BY <3>2, <3>3, <4>1 DEF Traced
      <4>2. CASE i = Len(cp.trace) + 1
        <5>1. i * TraceEvery = n /\ trace[i] = entry
          BY <3>1, <3>2, <3>3, <4>2
        <5> QED
          BY <3>4, <5>1
      <4>3. i \in 1..(Len(cp.trace) + 1)
        BY <3>2
      <4>4. i \in 1..Len(cp.trace) \/ i = Len(cp.trace) + 1
        BY <3>3, <4>3
      <4> QED
        BY <4>1, <4>2, <4>4
    <3> HIDE DEF trace, entry, n, new
    <3> QED
      BY <1>3, <3>1, <3>2, <3>3, <3>5 DEF Traced
  <2>2. CASE n % TraceEvery # 0
    <3>1. n \div TraceEvery = cp.iteration \div TraceEvery
      BY <1>1, <2>2, Division
    <3> QED
      BY <1>3, <2>2, <3>1 DEF Traced
  <2> QED
    BY <2>1, <2>2
<1> HIDE DEF new, n, trace, entry
<1>8. Leads(new.best_key, new.best_score, new.iteration)
  BY <1>3 DEF n
<1> QED
  BY <1>2, <1>3, <1>5, <1>6, <1>7, <1>8 DEF Good, n

\* One proposal of the patched search is one step of the uninterrupted one with
\* full scores, and leaves the plaintext of its key behind.
LEMMA ProposalGood ==
  ASSUME Working, Road, NEW work, work = [cp |-> work.cp, plain |-> work.plain, end |-> work.end],
         Good(work.cp), work.plain = Decode(work.cp.key), work.cp.iteration < Iterations
  PROVE  /\ Good(Proposal(work).cp)
         /\ Proposal(work).plain = Decode(Proposal(work).cp.key)
         /\ Proposal(work).cp.iteration = work.cp.iteration + 1
         /\ Proposal(work) = [cp |-> Proposal(work).cp, plain |-> Proposal(work).plain,
                              end |-> work.end]
<1> DEFINE cp == work.cp
           n == cp.iteration
           d == stream.draw[n]
           old_a == cp.key[d.a]
           old_b == cp.key[d.b]
           new_a == IF Reassigns(d) THEN d.letter ELSE old_b
           new_b == IF Reassigns(d) THEN old_b ELSE old_a
           new == Replaced(cp.key, d, new_a, new_b)
           patched == Patch(work.plain, d, new_a, new_b)
           delta == ScoreOver(patched, Affected(d)) - ScoreOver(work.plain, Affected(d))
           place == path[n]
           next == path[n + 1]
<1>1. /\ cp \in CheckpointType /\ OnPath(cp) /\ Traced(cp)
      /\ Leads(cp.best_key, cp.best_score, n)
  BY DEF Good
<1>2. /\ n \in Nat /\ n < Iterations /\ n + 1 \in 1..Iterations /\ n \in 0..Iterations
      /\ n + 1 - 1 = n /\ n \in 0..(Iterations - 1)
      /\ cp.key \in AllKeys /\ cp.score \in Int /\ cp.best_key \in AllKeys /\ cp.best_score \in Int
  BY <1>1, JobFacts DEF CheckpointType
<1>3. /\ place \in Places /\ place.iteration = n /\ place.key = cp.key /\ place.score = cp.score
      /\ next = FullScored(place)
  BY <1>1, <1>2 DEF Road, OnPath
<1>4. /\ place = [iteration |-> n, key |-> cp.key, score |-> cp.score]
      /\ cp.score = Score(Decode(cp.key))
  BY <1>3 DEF Places
<1>5. d \in DrawsBelow(J.symbols)
  BY <1>2 DEF Road, DrawsFit
<1>6. /\ d.a \in 1..J.symbols /\ d.b \in 1..J.symbols /\ d.letter \in Letters /\ d.luck \in Nat
      /\ old_a \in Letters /\ old_b \in Letters
  BY <1>2, <1>5, SearchData DEF DrawsBelow, Letters, AllKeys
<1>7. new_a \in Letters /\ new_b \in Letters
  BY <1>6
<1> HIDE DEF cp, n, d, place, next
<1>8. ASSUME next = [place EXCEPT !.iteration = n + 1]
      PROVE  Good(Counted(cp)) /\ Counted(cp).iteration = n + 1 /\ Counted(cp).key = cp.key
  <2>1. next.key = cp.key /\ next.score = cp.score
    BY <1>4, <1>8
  <2>2. Leads(cp.best_key, cp.best_score, n + 1)
    BY <1>1, <1>2, <1>3, <2>1, LeadsStay DEF place, next
  <2> QED
    BY <1>1, <1>2, <2>1, <2>2, CountedGood DEF place, next, n
<1>9. CASE d.a = d.b
  <2>1. next = [place EXCEPT !.iteration = n + 1]
    BY <1>3, <1>9 DEF FullScored, d
  <2>2. Proposal(work) = [work EXCEPT !.cp = Counted(cp)]
    BY <1>9 DEF Proposal, d, n, cp
  <2> QED
    BY <1>8, <2>1, <2>2 DEF cp, n
<1>10. CASE d.a # d.b
  <2>1. /\ new \in AllKeys /\ patched = Decode(new)
        /\ \A i \in Windows \ Affected(d) : Window(Decode(cp.key), i) = Window(Decode(new), i)
    BY <1>2, <1>5, <1>7, <1>10, Patching DEF cp
  <2>2. Patch(patched, d, old_a, old_b) = Decode(cp.key)
    BY <1>2, <1>5, <1>7, <1>10, Unpatching DEF cp
  <2>3. Decode(new) \in Texts /\ Decode(cp.key) \in Texts
    BY <1>2, <2>1, DecodeType
  <2>4. /\ delta = Score(Decode(new)) - Score(Decode(cp.key))
        /\ Score(Decode(new)) \in Int /\ Score(Decode(cp.key)) \in Int
    BY <2>1, <2>3, Rescoring DEF cp
  <2>5. new = IF Reassigns(d) THEN [cp.key EXCEPT ![d.a] = d.letter]
              ELSE [cp.key EXCEPT ![d.a] = cp.key[d.b], ![d.b] = cp.key[d.a]]
    BY <1>2, <1>6, <1>10 DEF Replaced, AllKeys
  <2>6. place.iteration = n /\ place.key = cp.key /\ place.score = cp.score
    BY <1>3
  <2> HIDE DEF new, delta, patched, old_a, old_b, new_a, new_b
  <2>7. next = IF delta >= 0 \/ d.luck > -delta
               THEN [iteration |-> n + 1, key |-> new, score |-> Score(Decode(new))]
               ELSE [place EXCEPT !.iteration = n + 1]
    <3>1. FullScored(place)
            = IF d.a # d.b /\ (\/ Score(Decode(new)) - cp.score >= 0
                               \/ d.luck > -(Score(Decode(new)) - cp.score))
              THEN [iteration |-> n + 1, key |-> new, score |-> Score(Decode(new))]
              ELSE [place EXCEPT !.iteration = n + 1]
      BY <2>5, <2>6 DEF FullScored, d
    <3> QED
      BY <1>3, <1>4, <1>10, <2>4, <3>1
  <2>8. Proposal(work)
          = IF Accepts(delta, d)
            THEN [work EXCEPT !.cp = Counted(Moved(cp, d, new_a, new_b, delta)), !.plain = patched]
            ELSE [work EXCEPT !.cp = Counted(cp), !.plain = Patch(patched, d, old_a, old_b)]
    BY <1>10 DEF Proposal, d, n, cp, new, delta, patched, old_a, old_b, new_a, new_b
  <2>9. CASE ~ Accepts(delta, d)
    <3>1. next = [place EXCEPT !.iteration = n + 1]
      BY <2>7, <2>9 DEF Accepts
    <3>2. Proposal(work)
            = [work EXCEPT !.cp = Counted(cp), !.plain = Patch(patched, d, old_a, old_b)]
      BY <2>8, <2>9
    <3> QED
      BY <1>8, <2>2, <3>1, <3>2 DEF cp, n
  <2>10. CASE Accepts(delta, d)
    <3> DEFINE moved == Moved(cp, d, new_a, new_b, delta)
               score == cp.score + delta
               best == Improves(score, new, cp)
               best_key == IF best THEN new ELSE cp.best_key
               best_score == IF best THEN score ELSE cp.best_score
    <3>1. score = Score(Decode(new)) /\ score \in Int
      BY <1>2, <1>4, <2>4
    <3>2. next.key = new /\ next.score = score
      BY <2>7, <2>10, <3>1 DEF Accepts
    <3>3. moved = [cp EXCEPT !.key = new, !.score = score,
                             !.best_key = best_key, !.best_score = best_score]
      BY DEF Moved, new, Replaced
    <3> HIDE DEF moved, score
    <3>4. best <=> Ahead(next.key, next.score, cp.best_key, cp.best_score)
      BY <3>2 DEF Improves, Ahead
    <3>5. Leads(best_key, best_score, n + 1)
      <4>1. IF Ahead(next.key, next.score, cp.best_key, cp.best_score)
            THEN Leads(next.key, next.score, n + 1)
            ELSE Leads(cp.best_key, cp.best_score, n + 1)
        BY <1>1, <1>2, LeadsOn DEF next
      <4> QED
        BY <3>2, <3>4, <4>1
    <3> HIDE DEF best
    <3>6. /\ moved \in CheckpointType /\ moved.iteration = n /\ moved.trace = cp.trace
          /\ moved.key = new /\ moved.score = score
          /\ moved.best_key = best_key /\ moved.best_score = best_score
      BY <1>1, <1>2, <2>1, <3>1, <3>3 DEF CheckpointType, n
    <3>7. Traced(moved)
      BY <1>1, <3>6 DEF Traced, n
    <3>8. /\ Good(Counted(moved)) /\ Counted(moved).iteration = n + 1
          /\ Counted(moved).key = new
      BY <1>2, <3>2, <3>5, <3>6, <3>7, CountedGood DEF next
    <3>9. Proposal(work) = [work EXCEPT !.cp = Counted(moved), !.plain = patched]
      BY <2>8, <2>10 DEF moved
    <3> QED
      BY <2>1, <3>8, <3>9 DEF n, cp
  <2> QED
    BY <2>9, <2>10
<1> QED
  BY <1>9, <1>10

-----------------------------------------------------------------------------
(* The inductive invariant: every checkpoint of this job, wherever it is,  *)
(* and the work of a running call are where the uninterrupted search is.   *)

Kept(x) == (x # None /\ x.job = job) => Annealed /\ Good(x)
Sent(o) == (o # None /\ o.kind = "checkpoint") => Annealed /\ Good(o.value)

WorkGood(w) ==
    /\ w = [cp |-> w.cp, plain |-> w.plain, end |-> w.end]
    /\ Good(w.cp) /\ w.plain = Decode(w.cp.key)
    /\ w.end \in 0..Iterations /\ w.cp.iteration <= w.end
Asked(c) ==
    (c # None /\ "work" \in DOMAIN c) =>
        Annealed /\ c = [op |-> c.op, work |-> c.work] /\ WorkGood(c.work)

SearchInv ==
    /\ job \in DOMAIN Jobs /\ (Drawn => Road)
    /\ Kept(held) /\ Kept(file) /\ Sent(out) /\ Asked(call)

LEMMA GivenStays ==
  ASSUME UNCHANGED given
  PROVE  /\ (job \in DOMAIN Jobs /\ (Drawn => Road)) => (job \in DOMAIN Jobs /\ (Drawn => Road))'
         /\ \A x : x = held' => (Kept(held)' <=> Kept(x))
         /\ \A x : x = file' => (Kept(file)' <=> Kept(x))
         /\ \A x : x = out' => (Sent(out)' <=> Sent(x))
         /\ \A x : x = call' => (Asked(call)' <=> Asked(x))
<1>1. Annealed' = Annealed /\ Road' = Road /\ Drawn' = Drawn
  BY DEF given, Annealed, Working, Road, Drawn, ValidJob, Annealing, DrawsFit, DrawsBelow, FirstKey, Exchange,
         AllKeys, ValidKeys, ValidKey, Uses, Capacity, Places, FullScored, Reassigns, Iterations,
         Letters, Decode, Score, ScoreOver, SumOfWindows, J, Windows, Window, LastWindow
<1>2. ASSUME NEW x, x = held' PROVE Kept(held)' <=> Kept(x)
  BY <1>1, <1>2 DEF given, Kept, Good, CheckpointType, OnPath, Traced, Entry, Leads, Ahead, Precedes,
         Entries, AllKeys, Iterations, Letters, J
<1>3. ASSUME NEW x, x = file' PROVE Kept(file)' <=> Kept(x)
  BY <1>1, <1>3 DEF given, Kept, Good, CheckpointType, OnPath, Traced, Entry, Leads, Ahead, Precedes,
         Entries, AllKeys, Iterations, Letters, J
<1>4. ASSUME NEW x, x = out' PROVE Sent(out)' <=> Sent(x)
  BY <1>1, <1>4 DEF given, Sent, Good, CheckpointType, OnPath, Traced, Entry, Leads, Ahead, Precedes,
         Entries, AllKeys, Iterations, Letters, J
<1>5. ASSUME NEW x, x = call' PROVE Asked(call)' <=> Asked(x)
  BY <1>1, <1>5 DEF given, Asked, WorkGood, Good, CheckpointType, OnPath, Traced, Entry, Leads, Ahead, Precedes,
         Entries, AllKeys, Iterations, Letters, J, Decode
<1> QED
  BY <1>1, <1>2, <1>3, <1>4, <1>5 DEF given

LEMMA SearchStarts ==
  ASSUME Init
  PROVE  SearchInv
<1>1. ASSUME Drawn PROVE Road
  <2>1. Working /\ Annealed
    BY <1>1 DEF Init, Working, Annealed, Drawn
  <2>2. /\ stream.first \in Shuffles
        /\ stream.draw \in [0..(Iterations - 1) -> DrawsBelow(J.symbols)]
    BY <1>1 DEF Init, Streams
  <2>3. DrawsFit
    BY <2>2 DEF DrawsFit
  <2>4. FirstKey \in ValidKeys
    BY <2>1, <2>2, FirstKeyValid
  <2> QED
    BY <2>1, <2>3, <2>4, PathIs DEF Road, Init
<1> QED
  BY <1>1 DEF Init, SearchInv, Kept, Sent, Asked

\* A call starts its work where its checkpoint is.
LEMMA WorkStarts ==
  ASSUME Working, NEW cp, Good(cp), NEW proposals \in Nat
  PROVE  WorkGood(Work(cp, proposals))
<1>1. cp.iteration \in 0..Iterations /\ Iterations \in Nat
  BY JobFacts DEF Good, CheckpointType
<1>2. Work(cp, proposals).end \in 0..Iterations /\ cp.iteration <= Work(cp, proposals).end
  BY <1>1 DEF Work
<1> QED
  BY <1>2 DEF Work, WorkGood

\* The parts that an action leaves alone, or writes something that is allowed there.
LEMMA Rest ==
  ASSUME SearchInv, UNCHANGED given,
         Kept(held'), Kept(file'), Sent(out'), Asked(call')
  PROVE  SearchInv'
<1>1. (job \in DOMAIN Jobs /\ (Drawn => Road))'
  BY GivenStays DEF SearchInv
<1>2. Kept(held)' /\ Kept(file)'
  BY GivenStays
<1>3. Sent(out)' /\ Asked(call)'
  BY GivenStays
<1> QED
  BY <1>1, <1>2, <1>3 DEF SearchInv

LEMMA AskStepKeeps ==
  ASSUME SearchInv, NEW proposals \in Sizes, AskStep(proposals)
  PROVE  SearchInv'
<1> DEFINE cp == IF held = None THEN Initial ELSE held
<1>1. UNCHANGED given /\ Kept(held') /\ Kept(file')
  BY DEF AskStep, SearchInv
<1>2. CASE ValidJob /\ Annealing /\ (held # None => CheckpointMatches(held))
           /\ call' = [op |-> "step", work |-> Work(cp, proposals)] /\ UNCHANGED out
  <2>1. Working /\ Annealed /\ Road
    BY <1>2 DEF SearchInv, Annealed, Working, Drawn
  <2>2. Good(cp)
    BY <1>2, <2>1, InitialGood DEF SearchInv, Kept, CheckpointMatches
  <2>3. WorkGood(Work(cp, proposals))
    <3> HIDE DEF cp
    <3> QED
      BY <2>1, <2>2, WorkStarts, SearchBounds
  <2>4. Asked(call') /\ Sent(out')
    BY <1>2, <2>1, <2>3 DEF Asked, SearchInv
  <2> QED
    BY <1>1, <2>4, Rest
<1>3. CASE Refuse
  <2>1. Asked(call') /\ Sent(out')
    BY <1>3 DEF Refuse, Failure, SearchInv, Sent
  <2> QED
    BY <1>1, <2>1, Rest
<1> QED
  BY <1>2, <1>3 DEF AskStep

LEMMA AskRunKeeps ==
  ASSUME SearchInv, NEW op, AskRun(op)
  PROVE  SearchInv'
<1>1. UNCHANGED given /\ Kept(held') /\ Kept(file')
  BY DEF AskRun, SearchInv
<1>2. CASE ValidJob /\ UNCHANGED out
           /\ call' = IF Annealing THEN [op |-> op, work |-> Work(Initial, MaxProposals)]
                      ELSE [op |-> op, beam |-> StartBeam]
  <2>1. CASE Annealing
    <3>1. Working /\ Annealed /\ Road
      BY <1>2, <2>1 DEF SearchInv, Annealed, Working, Drawn
    <3>2. WorkGood(Work(Initial, MaxProposals))
      BY <3>1, InitialGood, WorkStarts, SearchBounds
    <3>3. Asked(call') /\ Sent(out')
      BY <1>2, <2>1, <3>1, <3>2 DEF Asked, SearchInv
    <3> QED
      BY <1>1, <3>3, Rest
  <2>2. CASE ~ Annealing
    <3>1. Asked(call') /\ Sent(out')
      BY <1>2, <2>2 DEF Asked, SearchInv
    <3> QED
      BY <1>1, <3>1, Rest
  <2> QED
    BY <2>1, <2>2
<1>3. CASE Refuse
  <2>1. Asked(call') /\ Sent(out')
    BY <1>3 DEF Refuse, Failure, SearchInv, Sent
  <2> QED
    BY <1>1, <2>1, Rest
<1> QED
  BY <1>2, <1>3 DEF AskRun

LEMMA ProposeKeeps ==
  ASSUME SearchInv, Propose
  PROVE  SearchInv'
<1>1. UNCHANGED given /\ Kept(held') /\ Kept(file') /\ Sent(out')
  BY DEF Propose, SearchInv
<1>2. /\ Working /\ Annealed /\ Road
      /\ call = [op |-> call.op, work |-> call.work] /\ WorkGood(call.work)
      /\ call.work.cp.iteration < call.work.end
  BY DEF Propose, SearchInv, Asked, Annealed, Working, Drawn
<1> DEFINE work == call.work
           next == Proposal(work)
<1>3. work.cp.iteration < Iterations /\ work.cp.iteration \in Nat /\ work.end \in Nat
  <2>1. Iterations \in Nat /\ work.end \in 0..Iterations /\ work.cp.iteration \in 0..Iterations
    BY <1>2, JobFacts DEF WorkGood, Good, CheckpointType
  <2> QED
    BY <1>2, <2>1
<1>4. /\ Good(next.cp) /\ next.plain = Decode(next.cp.key)
      /\ next.cp.iteration = work.cp.iteration + 1
      /\ next = [cp |-> next.cp, plain |-> next.plain, end |-> work.end]
  <2> HIDE DEF work
  <2>1. /\ work = [cp |-> work.cp, plain |-> work.plain, end |-> work.end]
        /\ Good(work.cp) /\ work.plain = Decode(work.cp.key)
    BY <1>2 DEF WorkGood, work
  <2> QED
    BY <1>2, <1>3, <2>1, ProposalGood
<1>5. call' = [op |-> call.op, work |-> next]
  BY <1>2 DEF Propose
<1>6. WorkGood(next)
  <2>1. next.end = work.end /\ work.end \in 0..Iterations
    BY <1>2, <1>4 DEF WorkGood
  <2> HIDE DEF next, work
  <2>2. next.cp.iteration <= next.end
    BY <1>2, <1>3, <1>4, <2>1 DEF work
  <2> QED
    BY <1>4, <2>1, <2>2 DEF WorkGood
<1>7. Asked(call')
  BY <1>2, <1>5, <1>6 DEF Asked
<1> QED
  BY <1>1, <1>7, Rest

LEMMA EndAdvanceKeeps ==
  ASSUME SearchInv, EndAdvance
  PROVE  SearchInv'
<1>1. UNCHANGED given /\ Kept(held') /\ Kept(file')
  BY DEF EndAdvance, SearchInv
<1>2. Working /\ Annealed /\ Good(call.work.cp)
  BY DEF EndAdvance, SearchInv, Asked, WorkGood, Annealed
<1>3. CASE out' = Answer("checkpoint", call.work.cp) /\ call' = None
  <2>1. Sent(out') /\ Asked(call')
    BY <1>2, <1>3 DEF Answer, Sent, Asked
  <2> QED
    BY <1>1, <2>1, Rest
<1>4. CASE call' = [call EXCEPT !.work = Work(call.work.cp, MaxProposals)] /\ UNCHANGED out
  <2>1. WorkGood(Work(call.work.cp, MaxProposals))
    BY <1>2, WorkStarts, SearchBounds
  <2>2. call = [op |-> call.op, work |-> call.work]
    BY DEF EndAdvance, SearchInv, Asked
  <2>3. call' = [op |-> call.op, work |-> Work(call.work.cp, MaxProposals)]
    BY <1>4, <2>2
  <2>4. Sent(out') /\ Asked(call')
    BY <1>2, <1>4, <2>1, <2>3 DEF SearchInv, Asked
  <2> QED
    BY <1>1, <2>4, Rest
<1>5. CASE Ends(CanFinish(call.work.cp), Finished(call.work.cp))
  <2>1. Sent(out') /\ Asked(call')
    BY <1>5 DEF Ends, Answer, Failure, Sent, Asked
  <2> QED
    BY <1>1, <2>1, Rest
<1> QED
  BY <1>3, <1>4, <1>5 DEF EndAdvance

LEMMA ExpandKeeps ==
  ASSUME SearchInv, Expand
  PROVE  SearchInv'
<1>1. UNCHANGED given /\ Kept(held') /\ Kept(file')
  BY DEF Expand, SearchInv
<1>2. CASE Ends(TRUE, BeamResult(call.beam))
  <2>1. Sent(out') /\ Asked(call')
    BY <1>2 DEF Ends, Answer, Failure, Sent, Asked
  <2> QED
    BY <1>1, <2>1, Rest
<1>3. CASE call' = [call EXCEPT !.beam = NextLevel(call.beam)] /\ UNCHANGED out
  <2>1. call # None /\ "beam" \in DOMAIN call /\ "work" \notin DOMAIN call
    <3>1. call # None /\ "beam" \in DOMAIN call
      BY DEF Expand
    <3>2. ASSUME "work" \in DOMAIN call PROVE FALSE
      <4>1. call = [op |-> call.op, work |-> call.work]
        BY <3>1, <3>2 DEF SearchInv, Asked
      <4>2. DOMAIN [op |-> call.op, work |-> call.work] = {"op", "work"}
        OBVIOUS
      <4> QED
        BY <3>1, <4>1, <4>2
    <3> QED
      BY <3>1, <3>2
  <2>2. Sent(out') /\ Asked(call')
    BY <1>3, <2>1 DEF SearchInv, Asked
  <2> QED
    BY <1>1, <2>2, Rest
<1> QED
  BY <1>2, <1>3 DEF Expand

\* The steps of the host: it reads, saves, dies, restores and asks for results.
LEMMA HostKeeps ==
  ASSUME SearchInv,
         AskFinish \/ AskVerificationFinish \/ Read \/ Save \/ Crash \/ Restore \/ RestoreForeign
  PROVE  SearchInv'
<1>1. CASE AskFinish \/ AskVerificationFinish
  <2>1. Sent(out') /\ Asked(call') /\ Kept(held') /\ Kept(file') /\ UNCHANGED given
    BY <1>1 DEF AskFinish, AskVerificationFinish, Answer, Failure, SearchInv, Sent
  <2> QED
    BY <2>1, Rest
<1>2. CASE Read
  <2>1. CASE out.kind = "checkpoint"
    <3>1. Kept(held')
      BY <1>2, <2>1 DEF Read, SearchInv, Sent, Kept
    <3> QED
      BY <1>2, <3>1, Rest DEF Read, SearchInv, Sent
  <2>2. CASE out.kind # "checkpoint"
    <3>1. Kept(held')
      BY <1>2, <2>2 DEF Read, SearchInv
    <3> QED
      BY <1>2, <3>1, Rest DEF Read, SearchInv, Sent
  <2> QED
    BY <2>1, <2>2
<1>3. CASE Save \/ Restore
  <2>1. Sent(out') /\ Asked(call') /\ Kept(held') /\ Kept(file') /\ UNCHANGED given
    BY <1>3 DEF Save, Restore, SearchInv
  <2> QED
    BY <2>1, Rest
<1>4. CASE Crash
  <2>1. Sent(out') /\ Asked(call') /\ Kept(held') /\ Kept(file') /\ UNCHANGED given
    BY <1>4 DEF Crash, SearchInv, Sent, Asked, Kept
  <2> QED
    BY <2>1, Rest
<1>5. CASE RestoreForeign
  <2>1. file \in CheckpointType
    BY <1>5 DEF RestoreForeign, SearchInv, Kept, Good
  <2>2. held'.job = 0
    BY <1>5, <2>1 DEF RestoreForeign, CheckpointType
  <2>3. job # 0
    BY SearchData DEF SearchInv
  <2>4. Kept(held')
    BY <2>2, <2>3 DEF Kept
  <2> QED
    BY <1>5, <2>4, Rest DEF RestoreForeign, SearchInv
<1> QED
  BY <1>1, <1>2, <1>3, <1>4, <1>5

\* Every step of the kernel and of its host keeps the invariant.
THEOREM SearchInvariance == Spec => []SearchInv
<1>1. Init => SearchInv
  BY SearchStarts
<1>2. SearchInv /\ [Next]_vars => SearchInv'
  <2> SUFFICES ASSUME SearchInv, [Next]_vars PROVE SearchInv'
    OBVIOUS
  <2>1. CASE \E n \in Sizes : AskStep(n)
    BY <2>1, AskStepKeeps
  <2>2. CASE \E op \in {"run", "verify"} : AskRun(op)
    BY <2>2, AskRunKeeps
  <2>3. CASE Propose
    BY <2>3, ProposeKeeps
  <2>4. CASE EndAdvance
    BY <2>4, EndAdvanceKeeps
  <2>5. CASE Expand
    BY <2>5, ExpandKeeps
  <2>6. CASE AskFinish \/ AskVerificationFinish \/ Read \/ Save \/ Crash \/ Restore \/ RestoreForeign
    BY <2>6, HostKeeps
  <2>7. CASE UNCHANGED vars
    <3>1. Sent(out') /\ Asked(call') /\ Kept(held') /\ Kept(file') /\ UNCHANGED given
      BY <2>7 DEF vars, given, SearchInv
    <3> QED
      BY <3>1, Rest
  <2> QED
    BY <2>1, <2>2, <2>3, <2>4, <2>5, <2>6, <2>7 DEF Next
<1> QED
  BY <1>1, <1>2, PTL DEF Spec

\* What is known of every checkpoint of this job.
LEMMA CheckpointsGood ==
  ASSUME SearchInv, NEW cp, cp \in Checkpoints
  PROVE  Annealed /\ Working /\ Road /\ Good(cp)
<1>1. CASE cp \in {held, file} \ {None} /\ cp.job = job
  BY <1>1 DEF SearchInv, Kept, Annealed, Working, Drawn
<1>2. CASE out # None /\ out.kind = "checkpoint" /\ cp = out.value
  BY <1>2 DEF SearchInv, Sent, Annealed, Working, Drawn
<1>3. CASE call # None /\ "work" \in DOMAIN call /\ cp = call.work.cp
  BY <1>3 DEF SearchInv, Asked, WorkGood, Annealed, Working, Drawn
<1> QED
  BY <1>1, <1>2, <1>3 DEF Checkpoints

\* However a search is cut into calls, lost and resumed, its checkpoints are those of
\* a search that is never stopped and scores every candidate in full.
THEOREM ResumedCorrect == Spec => []ResumedIsUninterrupted
<1>1. SearchInv => ResumedIsUninterrupted
  BY CheckpointsGood DEF ResumedIsUninterrupted, Good, OnPath, Traced, Entry
<1> QED
  BY <1>1, SearchInvariance, PTL

\* The best key of a checkpoint is the first in key order among the best scoring keys
\* the search has visited.
THEOREM BestCorrect == Spec => []BestIsBestVisited
<1>1. SearchInv => BestIsBestVisited
  <2> SUFFICES ASSUME SearchInv, NEW cp, cp \in Checkpoints
               PROVE  LET visited == {[key |-> path[n].key, score |-> path[n].score]
                                        : n \in 0..cp.iteration}
                      IN \E v \in visited :
                            /\ cp.best_key = v.key /\ cp.best_score = v.score
                            /\ \A w \in visited \ {v} : Better(v, w)
    BY DEF BestIsBestVisited
  <2> DEFINE visited == {[key |-> path[n].key, score |-> path[n].score] : n \in 0..cp.iteration}
             best == [key |-> cp.best_key, score |-> cp.best_score]
  <2>1. Leads(cp.best_key, cp.best_score, cp.iteration)
    BY CheckpointsGood DEF Good
  <2>2. best \in visited
    BY <2>1 DEF Leads
  <2>3. ASSUME NEW w \in visited, w # best PROVE Better(best, w)
    <3>1. PICK m \in 0..cp.iteration : w = [key |-> path[m].key, score |-> path[m].score]
      OBVIOUS
    <3>2. Ahead(cp.best_key, cp.best_score, path[m].key, path[m].score)
      BY <2>1, <2>3, <3>1 DEF Leads
    <3> QED
      BY <3>1, <3>2 DEF Ahead, Better
  <2> QED
    BY <2>2, <2>3
<1> QED
  BY <1>1, SearchInvariance, PTL

-----------------------------------------------------------------------------
(* What the kernel says of its own results.                                *)

LEMMA AheadAsymmetric ==
  ASSUME Working, NEW k, k \in Rows, NEW l, l \in Rows, NEW x \in Int, NEW y \in Int,
         Ahead(k, x, l, y), Ahead(l, y, k, x)
  PROVE  FALSE
<1>1. Precedes(k, l) /\ Precedes(l, k)
  BY DEF Ahead
<1>2. PICK s \in DOMAIN k : k[s] < k[s]
  BY <1>1, PrecedesTransitive DEF Precedes
<1> QED
  BY <1>2 DEF Rows

\* A checkpoint of this job is never refused.
LEMMA GoodMatches ==
  ASSUME Working, Road, NEW cp, Good(cp)
  PROVE  CheckpointMatches(cp)
<1>1. /\ cp.job = job /\ cp.iteration \in 0..Iterations /\ cp.score \in Int /\ cp.best_score \in Int
      /\ OnPath(cp) /\ Traced(cp) /\ Leads(cp.best_key, cp.best_score, cp.iteration)
  BY DEF Good, CheckpointType
<1>2. \A n \in 0..Iterations : /\ ValidKey(path[n].key)
                               /\ path[n].score = Score(Decode(path[n].key))
  BY DEF Road, Places, ValidKeys
<1>3. ValidKey(cp.key) /\ cp.score = Score(Decode(cp.key))
  BY <1>1, <1>2 DEF OnPath
<1>4. ValidKey(cp.best_key) /\ cp.best_score = Score(Decode(cp.best_key))
  <2>1. PICK m \in 0..cp.iteration : cp.best_key = path[m].key /\ cp.best_score = path[m].score
    BY <1>1 DEF Leads
  <2>2. m \in 0..Iterations
    BY <1>1, JobFacts
  <2> QED
    BY <1>2, <2>1, <2>2
<1>5. cp.best_score >= cp.score
  <2>1. cp.iteration \in 0..cp.iteration
    BY <1>1
  <2>2. cp.best_score = cp.score \/ Ahead(cp.best_key, cp.best_score, cp.key, cp.score)
    BY <1>1, <2>1 DEF Leads, OnPath
  <2> QED
    BY <1>1, <2>2 DEF Ahead
<1>6. cp.iteration <= Iterations /\ Len(cp.trace) = cp.iteration \div TraceEvery
  BY <1>1, JobFacts DEF Traced
<1> QED
  BY <1>1, <1>3, <1>4, <1>5, <1>6 DEF CheckpointMatches

LEMMA Multiples ==
  ASSUME NEW n \in Nat, NEW t \in Nat \ {0}, NEW i \in Nat, i <= n \div t
  PROVE  i * t \in 0..n
<1>1. t * (n \div t) <= n /\ n \div t \in Nat
  OBVIOUS
<1>2. i * t <= (n \div t) * t /\ (n \div t) * t = t * (n \div t)
  BY <1>1
<1>3. i * t \in Nat
  OBVIOUS
<1> QED
  BY <1>1, <1>2, <1>3

LEMMA LeadersAgree ==
  ASSUME Working, Road, NEW n \in 0..Iterations, NEW k, NEW x, NEW l, NEW y,
         Leads(k, x, n), Leads(l, y, n)
  PROVE  k = l /\ x = y
<1>1. \A m \in 0..n : path[m].key \in Rows /\ path[m].score \in Int
  BY JobFacts, KeysAreRows DEF Road, Places, ValidKeys
<1>2. PICK m \in 0..n : k = path[m].key /\ x = path[m].score
  BY DEF Leads
<1>3. PICK o \in 0..n : l = path[o].key /\ y = path[o].score
  BY DEF Leads
<1>4. (k = l /\ x = y) \/ (Ahead(k, x, l, y) /\ Ahead(l, y, k, x))
  BY <1>2, <1>3 DEF Leads
<1> QED
  BY <1>1, <1>2, <1>3, <1>4, AheadAsymmetric

\* Two ways to the end of the budget end in the same record.
LEMMA FinishedAgree ==
  ASSUME Working, Road, NEW cp, Good(cp), NEW other, Good(other),
         cp.iteration = Iterations, other.iteration = Iterations
  PROVE  Finished(cp) = Finished(other)
<1>1. Iterations \in Nat /\ Iterations \in 0..Iterations /\ TraceEvery \in Nat \ {0}
  BY JobFacts, SearchBounds
<1>2. cp.best_key = other.best_key
  BY <1>1, LeadersAgree DEF Good
<1>3. cp.trace = other.trace
  <2>1. cp.trace \in Seq(Entries) /\ other.trace \in Seq(Entries)
    BY DEF Good, CheckpointType
  <2>2. Len(cp.trace) = Len(other.trace) /\ Len(cp.trace) = Iterations \div TraceEvery
    BY DEF Good, Traced
  <2>3. ASSUME NEW i \in 1..Len(cp.trace) PROVE cp.trace[i] = other.trace[i]
    <3>1. i \in DOMAIN cp.trace /\ i \in DOMAIN other.trace
      <4>1. \A t \in Seq(Entries) : DOMAIN t = 1..Len(t)
        OBVIOUS
      <4> QED
        BY <2>1, <2>2, <2>3, <4>1, Zenon
    <3>2. Entry(cp.trace[i], i * TraceEvery) /\ Entry(other.trace[i], i * TraceEvery)
      BY <3>1 DEF Good, Traced
    <3>3. i * TraceEvery \in 0..Iterations
      <4>1. i \in Nat /\ i <= Iterations \div TraceEvery
        BY <1>1, <2>2
      <4> QED
        BY <1>1, <4>1, Multiples
    <3> QED
      BY <3>2, <3>3, LeadersAgree DEF Entry
  <2> QED
    BY <2>1, <2>2, <2>3, SeqEqual
<1> QED
  BY <1>2, <1>3 DEF Finished

LEMMA FinishedHolds ==
  ASSUME Working, Road, NEW cp, Good(cp), cp.iteration = Iterations
  PROVE  CandidateHolds(Finished(cp))
<1>1. ValidKey(cp.best_key) /\ Len(cp.trace) = Iterations \div TraceEvery
  BY GoodMatches DEF CheckpointMatches
<1>2. Iterations \in Nat /\ J.symbols \in Nat /\ TraceEvery \in Nat \ {0}
  BY JobFacts, SearchBounds
<1>3. Iterations \div TraceEvery \in Nat
  BY <1>2
<1>4. Len(cp.trace) <= (Iterations \div TraceEvery) + J.symbols
  BY <1>1, <1>2, <1>3
<1>5. /\ Finished(cp).key = cp.best_key /\ Finished(cp).evaluations = Iterations
      /\ Finished(cp).trace = cp.trace
      /\ Finished(cp) = Record(cp.best_key, Iterations, cp.trace)
  BY DEF Finished, Record
<1> QED
  BY <1>1, <1>2, <1>4, <1>5 DEF CandidateHolds

-----------------------------------------------------------------------------
(* Completing a partial key.                                               *)

LEMMA NumbersOrdered ==
  ASSUME NEW S, IsFiniteSet(S), S \subseteq Int
  PROVE  Orders([x \in S |-> {y \in S : y < x}], S)
<1>1. \A x, y, z \in S : /\ ~ x < x /\ (y < x /\ z < y => z < x)
                         /\ x = y \/ x < y \/ y < x
  OBVIOUS
<1> QED
  BY <1>1 DEF Orders

LEMMA SoonerOrders ==
  ASSUME NEW S, IsFiniteSet(S), S \subseteq Int \X Int
  PROVE  Orders([x \in S |-> {y \in S : Sooner(y, x)}], S)
<1>1. \A x \in S : x[1] \in Int /\ x[2] \in Int
  OBVIOUS
<1>2. \A x, y \in S : x = y \/ x[1] # y[1] \/ x[2] # y[2]
  OBVIOUS
<1>3. \A x \in S : ~ Sooner(x, x)
  BY <1>1 DEF Sooner
<1>4. \A x, y, z \in S : Sooner(y, x) /\ Sooner(z, y) => Sooner(z, x)
  BY <1>1 DEF Sooner
<1>5. \A x, y \in S : x = y \/ Sooner(x, y) \/ Sooner(y, x)
  BY <1>1, <1>2 DEF Sooner
<1> QED
  BY <1>3, <1>4, <1>5 DEF Orders

\* Keys some of whose symbols may have no letter yet, none used more often than allowed.
PartialKeys == [1..J.symbols -> Letters \cup {Blank}]
Roomy(key) == J.encoding # "homophonic" => \A c \in Letters : Uses(key, c) <= Share

Blanks(key) == {s \in 1..J.symbols : key[s] = Blank}
Left(key) == {p \in Letters \X (1..Share) : Uses(key, p[1]) + p[2] <= Share}

LEMMA PartialsAreRows == AllKeys \subseteq PartialKeys /\ PartialKeys \subseteq Rows
BY SearchBounds DEF AllKeys, PartialKeys, Rows, Letters

LEMMA UsesIs ==
  ASSUME Working, NEW key, key \in Rows, NEW c
  PROVE  /\ IsFiniteSet({s \in 1..J.symbols : key[s] = c})
         /\ Uses(key, c) = Cardinality({s \in 1..J.symbols : key[s] = c}) /\ Uses(key, c) \in Nat
<1>1. {s \in 1..J.symbols : key[s] = c} \in SUBSET (1..J.symbols)
  OBVIOUS
<1>2. IsFiniteSet({s \in 1..J.symbols : key[s] = c})
  BY <1>1, SymbolsFinite, FS_Subset
<1>3. DOMAIN key = 1..J.symbols
  BY DEF Rows
<1> QED
  BY <1>2, <1>3, FS_CardinalityType DEF Uses

\* One place for each symbol.
LEMMA ShareFits ==
  ASSUME Working, J.encoding # "homophonic"
  PROVE  /\ Share \in Nat
         /\ IsFiniteSet(Letters \X (1..Share))
         /\ Cardinality(Letters \X (1..Share)) = J.symbols
<1>1. A \in Nat \ {0} /\ J.symbols \in Nat /\ Capacity \in Nat
  BY SearchBounds, JobFacts, CapacityFits
<1>2. Share \in Nat /\ A * Share = J.symbols
  <2>1. CASE J.encoding = "substitution"
    <3>1. J.symbols = A /\ Share = 1
      BY <2>1 DEF Share, Working, ValidJob
    <3> QED
      BY <1>1, <3>1
  <2>2. CASE J.encoding = "balanced-homophonic"
    <3>1. Share = Capacity /\ J.symbols = A * Capacity
      BY <2>2, CapacityFits DEF Share
    <3> QED
      BY <1>1, <3>1
  <2>3. J.encoding \in {"substitution", "homophonic", "balanced-homophonic"}
    BY DEF Working, ValidJob, Encodings
  <2> QED
    BY <2>1, <2>2, <2>3
<1>3. IsFiniteSet(Letters) /\ Cardinality(Letters) = A
  <2>1. 0 \in Int /\ A - 1 \in Int /\ ~ 0 > A - 1 /\ A - 1 - 0 + 1 = A
    BY <1>1
  <2> QED
    BY <2>1, FS_Interval DEF Letters
<1>4. IsFiniteSet(1..Share) /\ Cardinality(1..Share) = Share
  <2>1. 1 \in Int /\ Share \in Int /\ (IF 1 > Share THEN 0 ELSE Share - 1 + 1) = Share
    BY <1>2
  <2> QED
    BY <2>1, FS_Interval
<1> QED
  BY <1>2, <1>3, <1>4, FS_Product

\* The places taken are as many as the symbols with a letter.
LEMMA TakenPlaces ==
  ASSUME Working, J.encoding # "homophonic", NEW key, key \in PartialKeys, Roomy(key)
  PROVE  Cardinality({s \in 1..J.symbols : key[s] # Blank})
           = Cardinality({p \in Letters \X (1..Share) : Uses(key, p[1]) + p[2] > Share})
<1> DEFINE known == {s \in 1..J.symbols : key[s] # Blank}
           taken == {p \in Letters \X (1..Share) : Uses(key, p[1]) + p[2] > Share}
           of(c) == {s \in 1..J.symbols : key[s] = c}
           below(c) == [s \in of(c) |-> {t \in of(c) : t < s}]
           f == [s \in known |-> <<key[s], Share - Cardinality(below(key[s])[s])>>]
<1>1. Share \in Nat
  BY ShareFits
<1>2. ASSUME NEW c \in Letters
      PROVE  /\ Uses(key, c) = Cardinality(of(c)) /\ Uses(key, c) \in Nat /\ Uses(key, c) <= Share
             /\ Orders(below(c), of(c))
  <2>1. key \in Rows
    BY PartialsAreRows
  <2>2. IsFiniteSet(of(c)) /\ of(c) \subseteq Int
    <3>1. of(c) \subseteq Int
      BY SymbolsFinite
    <3> QED
      BY <2>1, <3>1, UsesIs
  <2>3. Orders(below(c), of(c))
    <3> HIDE DEF of
    <3> QED
      BY <2>2, NumbersOrdered
  <2> QED
    BY <2>1, <2>3, UsesIs DEF Roomy
<1>3. \A s \in known : key[s] \in Letters /\ s \in of(key[s])
  BY DEF PartialKeys
<1>4. ASSUME NEW s \in known
      PROVE  /\ Cardinality(below(key[s])[s]) \in 0..(Uses(key, key[s]) - 1)
             /\ f[s] \in taken
  <2>1. Cardinality(below(key[s])[s]) \in 0..(Uses(key, key[s]) - 1)
    <3> HIDE DEF below, of
    <3> QED
      BY <1>2, <1>3, RanksGrow
  <2>2. /\ Uses(key, key[s]) \in Nat /\ Uses(key, key[s]) <= Share /\ key[s] \in Letters
        /\ f[s] = <<key[s], Share - Cardinality(below(key[s])[s])>>
    BY <1>2, <1>3
  <2> HIDE DEF below, f, known, of
  <2> QED
    BY <1>1, <2>1, <2>2
<1>5. ASSUME NEW s \in known, NEW t \in known, f[s] = f[t] PROVE s = t
  <2>1. key[s] = key[t] /\ key[s] \in Letters /\ s \in of(key[s]) /\ t \in of(key[s])
        /\ Share - Cardinality(below(key[s])[s]) = Share - Cardinality(below(key[t])[t])
    BY <1>3, <1>5
  <2>2. Cardinality(below(key[s])[s]) = Cardinality(below(key[s])[t])
    <3> HIDE DEF below, known, of, f
    <3> QED
      BY <1>1, <1>2, <1>4, <2>1
  <2> HIDE DEF below, known, of, f
  <2> QED
    BY <1>2, <2>1, <2>2, RanksGrow
<1>6. ASSUME NEW p \in taken PROVE \E s \in known : f[s] = p
  <2>1. /\ p[1] \in Letters /\ p[2] \in 1..Share /\ Uses(key, p[1]) + p[2] > Share
        /\ p = <<p[1], p[2]>>
    OBVIOUS
  <2>2. Share - p[2] \in 0..(Cardinality(of(p[1])) - 1)
    <3> HIDE DEF taken, of, below
    <3> QED
      BY <1>1, <1>2, <2>1
  <2>3. PICK s \in of(p[1]) : Cardinality(below(p[1])[s]) = Share - p[2]
    <3> HIDE DEF of, below, taken
    <3> QED
      BY <1>2, <2>1, <2>2, RanksFilled
  <2>4. s \in known /\ key[s] = p[1]
    BY <2>1, SearchBounds DEF Letters
  <2>5. f[s] = <<p[1], Share - (Share - p[2])>>
    BY <2>3, <2>4
  <2>6. Share - (Share - p[2]) = p[2]
    BY <1>1, <2>1
  <2> QED
    BY <2>1, <2>4, <2>5, <2>6
<1>7. f \in [known -> taken]
  BY <1>4
<1>8. IsFiniteSet(known)
  <2>1. known \in SUBSET (1..J.symbols)
    OBVIOUS
  <2> HIDE DEF known
  <2> QED
    BY <2>1, SymbolsFinite, FS_Subset
<1>9. Cardinality(known) = Cardinality(taken)
  <2> HIDE DEF known, taken, f
  <2>1. f \in Bijection(known, taken)
    BY <1>5, <1>6, <1>7, Zenon DEF Bijection, Injection, Surjection, IsInjective
  <2> QED
    BY <1>8, <2>1, FS_Bijection DEF ExistsBijection
<1> QED
  BY <1>9

\* So the places left are as many as the symbols without one.
LEMMA LeftPlaces ==
  ASSUME Working, J.encoding # "homophonic", NEW key, key \in PartialKeys, Roomy(key)
  PROVE  /\ IsFiniteSet(Blanks(key)) /\ IsFiniteSet(Left(key))
         /\ Cardinality(Blanks(key)) = Cardinality(Left(key))
<1> DEFINE all == Letters \X (1..Share)
           known == {s \in 1..J.symbols : key[s] # Blank}
           taken == {p \in all : Uses(key, p[1]) + p[2] > Share}
           S == 1..J.symbols
<1>1. IsFiniteSet(all) /\ Cardinality(all) = J.symbols /\ Share \in Nat
  BY ShareFits
<1>2. IsFiniteSet(S) /\ Cardinality(S) = J.symbols
  BY SymbolsFinite
<1>3. Cardinality(known) = Cardinality(taken)
  BY TakenPlaces
<1>4. Blanks(key) = S \ known /\ S \cap known = known
  BY DEF Blanks
<1>5. Left(key) = all \ taken /\ all \cap taken = taken
  <2>1. ASSUME NEW p \in all PROVE Uses(key, p[1]) \in Nat /\ p[2] \in Nat
    <3>1. key \in Rows
      BY PartialsAreRows
    <3>2. Uses(key, p[1]) \in Nat
      BY <3>1, UsesIs
    <3>3. p[2] \in 1..Share
      OBVIOUS
    <3> QED
      BY <3>2, <3>3
  <2> QED
    BY <1>1, <2>1 DEF Left
<1> HIDE DEF all, known, taken, S
<1>6. IsFiniteSet(Blanks(key)) /\ Cardinality(Blanks(key)) = J.symbols - Cardinality(known)
  BY <1>2, <1>4, FS_Difference
<1>7. IsFiniteSet(Left(key)) /\ Cardinality(Left(key)) = J.symbols - Cardinality(taken)
  <2>1. /\ IsFiniteSet(all \ taken)
        /\ Cardinality(all \ taken) = Cardinality(all) - Cardinality(all \cap taken)
    BY <1>1, FS_Difference
  <2> QED
    BY <1>1, <1>5, <2>1
<1> QED
  BY <1>3, <1>6, <1>7

\* Completion gives each of those symbols a place of its own.
LEMMA PlacesFilled ==
  ASSUME Working, J.encoding # "homophonic", NEW key, key \in PartialKeys, Roomy(key)
  PROVE  \E place \in Bijection(Blanks(key), Left(key)) :
           Complete(key) = [s \in 1..J.symbols |-> IF s \in Blanks(key) THEN place[s][1] ELSE key[s]]
<1> DEFINE blanks == Blanks(key)
           left == Left(key)
           before == [s \in blanks |-> {t \in blanks : t < s}]
           sooner == [p \in left |-> {q \in left : Sooner(q, p)}]
           place == [s \in blanks |-> CHOOSE p \in left : Cardinality(sooner[p]) = Cardinality(before[s])]
<1>1. IsFiniteSet(blanks) /\ IsFiniteSet(left) /\ Cardinality(blanks) = Cardinality(left)
  BY LeftPlaces
<1>2. Orders(before, blanks)
  <2>1. blanks \subseteq Int
    BY DEF Blanks
  <2> HIDE DEF blanks
  <2> QED
    BY <1>1, <2>1, NumbersOrdered
<1>3. Orders(sooner, left)
  <2>1. left \subseteq Int \X Int
    BY SearchBounds DEF Left, Letters
  <2> HIDE DEF left
  <2> QED
    BY <1>1, <2>1, SoonerOrders
<1>4. Complete(key) = [s \in 1..J.symbols |-> IF s \in blanks THEN place[s][1] ELSE key[s]]
  <2> DEFINE pick(s, b) == CHOOSE p \in left :
                Cardinality({q \in left : Sooner(q, p)}) = Cardinality({t \in b : t < s})
             raw == {s \in DOMAIN key : key[s] = Blank}
  <2>1. Complete(key) = [s \in DOMAIN key |-> IF s \notin raw THEN key[s]
                                              ELSE IF J.encoding = "homophonic" THEN 0
                                              ELSE pick(s, raw)[1]]
    BY Zenon DEF Complete, Left
  <2>2. DOMAIN key = 1..J.symbols
    BY DEF PartialKeys
  <2>3. raw = blanks
    BY <2>2 DEF Blanks
  <2>4. ASSUME NEW s \in blanks PROVE place[s] = pick(s, blanks)
    <3>1. before[s] = {t \in blanks : t < s}
      OBVIOUS
    <3>2. \A p \in left : sooner[p] = {q \in left : Sooner(q, p)}
      OBVIOUS
    <3>3. place[s] = CHOOSE p \in left : Cardinality(sooner[p]) = Cardinality(before[s])
      OBVIOUS
    <3>4. \A p \in left : (Cardinality(sooner[p]) = Cardinality(before[s]))
             <=> (Cardinality({q \in left : Sooner(q, p)}) = Cardinality({t \in blanks : t < s}))
      BY <3>1, <3>2
    <3> HIDE DEF left, blanks, before, sooner, place
    <3> QED
      BY <3>3, <3>4
  <2> HIDE DEF place, pick, raw
  <2> QED
    BY <2>1, <2>2, <2>3, <2>4
<1> HIDE DEF blanks, left, before, sooner
<1>5. ASSUME NEW s \in blanks
      PROVE  place[s] \in left /\ Cardinality(sooner[place[s]]) = Cardinality(before[s])
  <2>1. Cardinality(before[s]) \in 0..(Cardinality(left) - 1)
    BY <1>1, <1>2, RanksGrow
  <2>2. \E p \in left : Cardinality(sooner[p]) = Cardinality(before[s])
    BY <1>3, <2>1, RanksFilled
  <2>3. place[s] = CHOOSE p \in left : Cardinality(sooner[p]) = Cardinality(before[s])
    OBVIOUS
  <2> QED
    BY <2>2, <2>3
<1>6. place \in [blanks -> left]
  BY <1>5
<1>7. \A s, t \in blanks : place[s] = place[t] => s = t
  <2>1. \A s, t \in blanks : Cardinality(before[s]) = Cardinality(before[t]) => s = t
    BY <1>2, RanksGrow
  <2> HIDE DEF place
  <2> QED
    BY <1>5, <2>1
<1> HIDE DEF place
<1>8. place \in Injection(blanks, left)
  BY <1>6, <1>7, Zenon DEF Injection, IsInjective
<1>9. place \in Surjection(blanks, left)
  BY <1>1, <1>8, FS_Injection
<1>10. place \in Bijection(blanks, left)
  BY <1>8, <1>9 DEF Bijection
<1> QED
  BY <1>4, <1>10 DEF blanks, left

\* Completed keys use each letter as often as they may.
LEMMA CompleteFills ==
  ASSUME Working, J.encoding # "homophonic", NEW key, key \in PartialKeys, Roomy(key)
  PROVE  /\ Complete(key) \in AllKeys
         /\ \A c \in Letters : Uses(Complete(key), c) = Share
<1>1. PICK place \in Bijection(Blanks(key), Left(key)) :
        Complete(key) = [s \in 1..J.symbols |-> IF s \in Blanks(key) THEN place[s][1] ELSE key[s]]
  BY PlacesFilled
<1> DEFINE whole == Complete(key)
<1>2. \A s \in Blanks(key) : place[s] \in Left(key)
  BY <1>1 DEF Bijection, Injection
<1>3. \A s, t \in Blanks(key) : place[s] = place[t] => s = t
  BY <1>1 DEF Bijection, Injection, IsInjective
<1>4. \A p \in Left(key) : \E s \in Blanks(key) : place[s] = p
  BY <1>1, Zenon DEF Bijection, Surjection
<1>5. \A p \in Left(key) : /\ p[1] \in Letters /\ p[2] \in 1..Share /\ p = <<p[1], p[2]>>
                           /\ Uses(key, p[1]) + p[2] <= Share
  BY DEF Left
<1>6. \A s \in 1..J.symbols : s \notin Blanks(key) => key[s] \in Letters
  BY DEF Blanks, PartialKeys
<1>7. whole \in AllKeys
  <2>1. \A s \in 1..J.symbols : (IF s \in Blanks(key) THEN place[s][1] ELSE key[s]) \in Letters
    BY <1>2, <1>5, <1>6
  <2> QED
    BY <1>1, <2>1 DEF AllKeys
<1>8. ASSUME NEW c \in Letters PROVE Uses(whole, c) = Share
  <2> DEFINE given_c == {s \in 1..J.symbols : key[s] = c}
             filled == {s \in Blanks(key) : place[s][1] = c}
             both == {s \in 1..J.symbols : whole[s] = c}
             more == 1..(Share - Uses(key, c))
             f == [s \in filled |-> place[s][2]]
  <2>1. /\ IsFiniteSet(given_c) /\ Uses(key, c) = Cardinality(given_c)
        /\ Uses(key, c) \in Nat /\ Uses(key, c) <= Share /\ Share \in Nat
    BY UsesIs, PartialsAreRows, ShareFits DEF Roomy
  <2>2. both = given_c \cup filled /\ given_c \cap filled = {}
    <3>1. c # Blank
      BY SearchBounds DEF Letters
    <3> QED
      BY <1>1, <3>1 DEF Blanks
  <2>3. f \in [filled -> more]
    <3>1. ASSUME NEW s \in filled PROVE place[s][2] \in more
      <4>1. place[s] \in Left(key) /\ place[s][1] = c
        BY <1>2
      <4> QED
        BY <1>5, <2>1, <4>1
    <3> QED
      BY <3>1
  <2>4. \A s, t \in filled : f[s] = f[t] => s = t
    <3>1. ASSUME NEW s \in filled, NEW t \in filled, f[s] = f[t] PROVE s = t
      <4>1. place[s] = <<c, f[s]>> /\ place[t] = <<c, f[t]>>
        BY <1>2, <1>5
      <4> QED
        BY <1>3, <3>1, <4>1
    <3> QED
      BY <3>1
  <2>5. \A n \in more : \E s \in filled : f[s] = n
    <3>1. ASSUME NEW n \in more PROVE \E s \in filled : f[s] = n
      <4>1. <<c, n>> \in Left(key)
        BY <2>1 DEF Left
      <4>2. PICK s \in Blanks(key) : place[s] = <<c, n>>
        BY <1>4, <4>1
      <4> QED
        BY <4>2
    <3> QED
      BY <3>1
  <2>6. IsFiniteSet(more) /\ Cardinality(more) = Share - Uses(key, c)
    <3>1. /\ 1 \in Int /\ Share - Uses(key, c) \in Int
          /\ (IF 1 > Share - Uses(key, c) THEN 0 ELSE Share - Uses(key, c) - 1 + 1) = Share - Uses(key, c)
      BY <2>1
    <3> QED
      BY <3>1, FS_Interval
  <2> HIDE DEF given_c, filled, both, more, f
  <2>7. f \in Injection(filled, more) /\ f \in Surjection(filled, more)
    BY <2>3, <2>4, <2>5, Zenon DEF Injection, Surjection, IsInjective
  <2>8. IsFiniteSet(filled) /\ Cardinality(filled) = Share - Uses(key, c)
    BY <2>6, <2>7, FS_Injection
  <2>9. Cardinality(given_c \cap filled) = 0
    BY <2>2, FS_EmptySet
  <2>10. Cardinality(both) = Uses(key, c) + (Share - Uses(key, c)) - 0
    BY <2>1, <2>2, <2>8, <2>9, FS_Union
  <2>11. Uses(whole, c) = Cardinality(both)
    BY <1>7, KeysAreRows, UsesIs DEF both
  <2> QED
    BY <2>1, <2>10, <2>11
<1> QED
  BY <1>7, <1>8

LEMMA CompleteValid ==
  ASSUME Working, NEW key, key \in PartialKeys, Roomy(key)
  PROVE  Complete(key) \in ValidKeys
<1>1. CASE J.encoding = "homophonic"
  <2>1. DOMAIN key = 1..J.symbols /\ \A s \in 1..J.symbols : key[s] \in Letters \cup {Blank}
    BY DEF PartialKeys
  <2>2. 0 \in Letters
    BY SearchBounds DEF Letters
  <2>3. Complete(key) = [s \in 1..J.symbols |-> IF key[s] = Blank THEN 0 ELSE key[s]]
    BY <1>1, <2>1 DEF Complete
  <2>4. Complete(key) \in AllKeys
    BY <2>1, <2>2, <2>3 DEF AllKeys
  <2> QED
    BY <1>1, <2>4, ValidIs DEF ValidKeys
<1>2. CASE J.encoding # "homophonic"
  <2>1. Complete(key) \in AllKeys /\ \A c \in Letters : Uses(Complete(key), c) = Share
    BY <1>2, CompleteFills
  <2>2. ASSUME J.encoding = "substitution", NEW s \in 1..J.symbols, NEW t \in 1..J.symbols,
               Complete(key)[s] = Complete(key)[t]
        PROVE  s = t
    <3> DEFINE c == Complete(key)[s]
               users == {r \in 1..J.symbols : Complete(key)[r] = c}
    <3>1. c \in Letters
      BY <2>1 DEF AllKeys
    <3>2. IsFiniteSet(users) /\ Cardinality(users) = 1
      BY <2>1, <2>2, <3>1, KeysAreRows, UsesIs DEF Share
    <3>3. s \in users /\ t \in users
      BY <2>2
    <3> HIDE DEF users
    <3>4. PICK x : users = {x}
      BY <3>2, FS_Singleton
    <3> QED
      BY <3>3, <3>4
  <2>3. J.encoding = "balanced-homophonic" => \A c \in Letters : Uses(Complete(key), c) = Capacity
    BY <2>1 DEF Share
  <2> QED
    BY <2>1, <2>2, <2>3, ValidIs DEF ValidKeys
<1> QED
  BY <1>1, <1>2

-----------------------------------------------------------------------------
(* One level of the beam search.                                           *)

PartialTexts == [DOMAIN J.ciphertext -> Letters \cup {Blank}]

LEMMA PartialScoreType ==
  ASSUME Working, NEW key, key \in PartialKeys
  PROVE  PartialScore(key) \in Int
<1> DEFINE text == Decode(key)
           value == [i \in Windows |-> PartialWindow(Window(text, i))]
<1>1. /\ LastWindow \in Nat /\ DOMAIN J.ciphertext = 1..(LastWindow + 3)
      /\ J.quad \in [[1..4 -> Letters] -> Int]
  BY JobFacts
<1>2. J.uni \in [Letters -> Int] /\ BlankScore \in Int
  BY SearchData, SearchBounds DEF Working, J, Letters
<1>3. text \in PartialTexts
  BY JobFacts DEF Decode, PartialTexts, PartialKeys
<1>4. ASSUME NEW i \in Windows PROVE PartialWindow(Window(text, i)) \in Int
  <2> DEFINE window == Window(text, i)
             part == [k \in 1..4 |-> IF window[k] = Blank THEN BlankScore ELSE J.uni[window[k]]]
  <2>1. \A k \in 1..4 : i + k - 1 \in DOMAIN J.ciphertext
    BY <1>1 DEF Windows
  <2>2. window \in [1..4 -> Letters \cup {Blank}]
    BY <1>3, <2>1 DEF Window, PartialTexts
  <2> HIDE DEF window
  <2>3. part \in [1..4 -> Int]
    BY <1>2, <2>2
  <2>4. part[1] + part[2] + part[3] + part[4] \in Int
    BY <2>3
  <2>5. CASE \E k \in 1..4 : window[k] = Blank
    BY <2>4, <2>5 DEF PartialWindow, window
  <2>6. CASE ~ \E k \in 1..4 : window[k] = Blank
    <3>1. window \in [1..4 -> Letters]
      BY <2>2, <2>6
    <3>2. J.quad[window] \in Int
      BY <1>1, <3>1
    <3>3. PartialWindow(window) = J.quad[window]
      BY <2>6 DEF PartialWindow
    <3> QED
      BY <3>2, <3>3 DEF window
  <2> QED
    BY <2>5, <2>6
<1>5. value \in [Windows -> Int]
  BY <1>4
<1> HIDE DEF value, text
<1>6. SumOfWindows(value) \in Int
  BY <1>1, <1>5, SumsDiffer
<1> QED
  BY <1>6 DEF PartialScore, value, text

Candidates == [key : {key \in PartialKeys : Roomy(key)}, score : Int]

LEMMA BetterOrders ==
  ASSUME Working, NEW S, IsFiniteSet(S), S \subseteq [key : Rows, score : Int]
  PROVE  Orders([x \in S |-> {y \in S : Better(y, x)}], S)
<1>1. \A x \in S : x.key \in Rows /\ x.score \in Int /\ x = [key |-> x.key, score |-> x.score]
  OBVIOUS
<1>2. \A x, y \in S : Better(x, y) <=> Ahead(x.key, x.score, y.key, y.score)
  BY DEF Better, Ahead
<1>3. ASSUME NEW x \in S PROVE ~ Better(x, x)
  BY <1>1, <1>2, AheadAsymmetric
<1>4. ASSUME NEW x \in S, NEW y \in S, NEW z \in S, Better(y, x), Better(z, y) PROVE Better(z, x)
  BY <1>1, <1>2, <1>4, AheadTransitive
<1>5. ASSUME NEW x \in S, NEW y \in S PROVE x = y \/ Better(x, y) \/ Better(y, x)
  <2>1. (x.key = y.key /\ x.score = y.score) \/ Ahead(x.key, x.score, y.key, y.score)
        \/ Ahead(y.key, y.score, x.key, x.score)
    BY <1>1, AheadTotal
  <2>2. x.key = y.key /\ x.score = y.score => x = y
    BY <1>1, Zenon
  <2> QED
    BY <1>2, <2>1, <2>2
<1> DEFINE below == [x \in S |-> {y \in S : Better(y, x)}]
<1>6. below \in [S -> SUBSET S] /\ \A x \in S : x \notin below[x]
  BY <1>3
<1>7. \A x, y \in S : y \in below[x] => below[y] \subseteq below[x]
  BY <1>4
<1>8. \A x, y \in S : x = y \/ x \in below[y] \/ y \in below[x]
  BY <1>5
<1> QED
  BY <1>6, <1>7, <1>8 DEF Orders

LEMMA RankedCandidates ==
  ASSUME Working, NEW S, IsFiniteSet(S), S \subseteq [key : Rows, score : Int]
  PROVE  Lists(Ranked(S, Better), S)
<1> DEFINE below == [x \in S |-> {y \in S : Better(y, x)}]
           rank == [x \in S |-> Cardinality({y \in S : Better(y, x)})]
           list == [n \in 1..Cardinality(S) |-> CHOOSE x \in S : Cardinality(below[x]) = n - 1]
<1>1. Orders(below, S)
  BY BetterOrders
<1>2. Ranked(S, Better) = [n \in 1..Cardinality(S) |-> CHOOSE x \in S : rank[x] = n - 1]
  BY DEF Ranked
<1>3. \A x \in S : rank[x] = Cardinality(below[x])
  OBVIOUS
<1> HIDE DEF below, rank
<1>4. ASSUME NEW n \in 1..Cardinality(S)
      PROVE  (CHOOSE x \in S : rank[x] = n - 1) = CHOOSE x \in S : Cardinality(below[x]) = n - 1
  BY <1>3
<1>5. Ranked(S, Better) = list
  BY <1>2, <1>4
<1>6. list = [n \in 1..Cardinality(S) |-> CHOOSE x \in S : Cardinality(below[x]) = n - 1]
  OBVIOUS
<1> HIDE DEF list
<1>7. Lists(list, S)
  BY <1>1, <1>6, RankedIs
<1> QED
  BY <1>5, <1>7

LEMMA OrderIs ==
  ASSUME Working
  PROVE  Lists(Order, 1..J.symbols)
<1> DEFINE S == 1..J.symbols
           below == [x \in S |-> {y \in S : MoreFrequent(y, x)}]
           rank == [x \in S |-> Cardinality({y \in S : MoreFrequent(y, x)})]
           list == [n \in 1..Cardinality(S) |-> CHOOSE x \in S : Cardinality(below[x]) = n - 1]
<1>1. \A s \in S : Count(s) \in Nat
  <2>1. ASSUME NEW s \in S PROVE Count(s) \in Nat
    <3>1. LastWindow + 3 \in Int /\ 1 \in Int /\ DOMAIN J.ciphertext = 1..(LastWindow + 3)
      BY JobFacts
    <3>2. IsFiniteSet(DOMAIN J.ciphertext)
      BY <3>1, FS_Interval
    <3>3. {i \in DOMAIN J.ciphertext : J.ciphertext[i] = s} \in SUBSET DOMAIN J.ciphertext
      OBVIOUS
    <3>4. IsFiniteSet({i \in DOMAIN J.ciphertext : J.ciphertext[i] = s})
      BY <3>2, <3>3, FS_Subset
    <3> QED
      BY <3>4, FS_CardinalityType DEF Count
  <2> QED
    BY <2>1
<1>2. Orders(below, S)
  <2>1. \A x, y, z \in S : /\ ~ MoreFrequent(x, x)
                           /\ MoreFrequent(y, x) /\ MoreFrequent(z, y) => MoreFrequent(z, x)
                           /\ x = y \/ MoreFrequent(x, y) \/ MoreFrequent(y, x)
    BY <1>1 DEF MoreFrequent
  <2>2. IsFiniteSet(S)
    BY SymbolsFinite
  <2> HIDE DEF S
  <2> QED
    BY <2>1, <2>2 DEF Orders
<1>3. Order = [n \in 1..Cardinality(S) |-> CHOOSE x \in S : rank[x] = n - 1]
  BY DEF Order, Ranked
<1> HIDE DEF S
<1>4. \A x \in S : rank[x] = Cardinality(below[x])
  OBVIOUS
<1> HIDE DEF below, rank
<1>5. ASSUME NEW n \in 1..Cardinality(S)
      PROVE  (CHOOSE x \in S : rank[x] = n - 1) = CHOOSE x \in S : Cardinality(below[x]) = n - 1
  BY <1>4
<1>6. Order = list
  BY <1>3, <1>5
<1>7. list = [n \in 1..Cardinality(S) |-> CHOOSE x \in S : Cardinality(below[x]) = n - 1]
  OBVIOUS
<1> HIDE DEF list
<1>8. Lists(list, S)
  BY <1>2, <1>7, RankedIs
<1> QED
  BY <1>6, <1>8 DEF S

\* A letter for one more symbol.
LEMMA ChildFits ==
  ASSUME Working, NEW key, key \in PartialKeys, Roomy(key), NEW c \in Letters, Room(key, c), NEW s
  PROVE  LET new == [key EXCEPT ![s] = c] IN new \in PartialKeys /\ Roomy(new)
<1> DEFINE new == [key EXCEPT ![s] = c]
<1>1. new \in PartialKeys
  BY DEF PartialKeys
<1>2. ASSUME J.encoding # "homophonic", NEW d \in Letters PROVE Uses(new, d) <= Share
  <2> DEFINE of == {t \in 1..J.symbols : key[t] = d}
             now == {t \in 1..J.symbols : new[t] = d}
  <2>1. key \in Rows /\ new \in Rows /\ Share \in Nat
    BY <1>1, <1>2, PartialsAreRows, ShareFits
  <2>2. IsFiniteSet(of) /\ Uses(key, d) = Cardinality(of) /\ Uses(key, d) \in Nat /\ Uses(key, d) <= Share
    BY <1>2, <2>1, UsesIs DEF Roomy
  <2>3. Uses(new, d) = Cardinality(now)
    <3> HIDE DEF new
    <3> QED
      BY <2>1, UsesIs
  <2>4. CASE d = c
    <3>1. now \in SUBSET (of \cup {s})
      OBVIOUS
    <3> HIDE DEF of, now, new
    <3>2. Uses(key, d) < Share
      BY <1>2, <2>4 DEF Room
    <3>3. IsFiniteSet(of \cup {s}) /\ Cardinality(of \cup {s}) <= Uses(key, d) + 1
      <4>1. Cardinality(of \cup {s}) = IF s \in of THEN Cardinality(of) ELSE Cardinality(of) + 1
        BY <2>2, FS_AddElement
      <4>2. IsFiniteSet(of \cup {s})
        BY <2>2, FS_AddElement
      <4> QED
        BY <2>2, <4>1, <4>2
    <3>4. IsFiniteSet(now) /\ Cardinality(now) <= Cardinality(of \cup {s})
      BY <3>1, <3>3, FS_Subset
    <3>5. Cardinality(now) \in Nat /\ Cardinality(of \cup {s}) \in Nat
      BY <3>3, <3>4, FS_CardinalityType
    <3> QED
      BY <2>1, <2>2, <2>3, <3>2, <3>3, <3>4, <3>5
  <2>5. CASE d # c
    <3>1. now \in SUBSET of
      BY <2>5 DEF PartialKeys
    <3> HIDE DEF of, now, new
    <3>2. IsFiniteSet(now) /\ Cardinality(now) <= Cardinality(of)
      BY <2>2, <3>1, FS_Subset
    <3>3. Cardinality(now) \in Nat
      BY <3>2, FS_CardinalityType
    <3> QED
      BY <2>1, <2>2, <2>3, <3>2, <3>3
  <2> QED
    BY <2>4, <2>5
<1> QED
  BY <1>1, <1>2 DEF Roomy

-----------------------------------------------------------------------------
(* The whole beam search.                                                  *)

LEMMA PrefixIs ==
  ASSUME NEW S, NEW list, list \in Seq(S), NEW n \in Nat
  PROVE  LET first == Prefix(list, n) IN
         /\ first \in Seq(S)
         /\ Len(first) = IF n < Len(list) THEN n ELSE Len(list)
         /\ \A i \in 1..Len(first) : first[i] = list[i]
<1> DEFINE m == IF n < Len(list) THEN n ELSE Len(list)
<1>1. Len(list) \in Nat /\ m \in Nat /\ m <= Len(list)
  OBVIOUS
<1>2. \A i \in 1..m : list[i] \in S
  <2>1. DOMAIN list = 1..Len(list)
    OBVIOUS
  <2> QED
    BY <1>1, <2>1
<1>3. Prefix(list, n) = SubSeq(list, 1, m)
  BY DEF Prefix
<1>4. SubSeq(list, 1, m) = [i \in 1..m |-> list[i]]
  <2>1. m - 1 + 1 = m /\ \A i \in 1..m : 1 + i - 1 = i
    BY <1>1
  <2> HIDE DEF m
  <2> QED
    BY <1>1, <2>1
<1> HIDE DEF m
<1>5. [i \in 1..m |-> list[i]] \in Seq(S) /\ Len([i \in 1..m |-> list[i]]) = m
  BY <1>1, <1>2
<1> QED
  BY <1>3, <1>4, <1>5 DEF m

\* A beam in the middle of its search.
BeamFits(b) ==
    /\ b = [beam |-> b.beam, level |-> b.level, evaluations |-> b.evaluations, trace |-> b.trace]
    /\ b.level \in 1..(J.symbols + 1) /\ b.evaluations \in 0..Iterations
    /\ b.trace \in Seq(Seq(Candidates)) /\ Len(b.trace) = b.level - 1
    /\ b.beam \in Seq(Candidates) /\ b.beam # <<>>

LEMMA StartFits ==
  ASSUME Working
  PROVE  BeamFits(StartBeam)
<1> DEFINE blank == [s \in 1..J.symbols |-> Blank]
           first == [key |-> blank, score |-> 0]
<1>1. blank \in PartialKeys
  BY DEF PartialKeys
<1>2. Roomy(blank)
  <2>1. ASSUME NEW c \in Letters, J.encoding # "homophonic" PROVE Uses(blank, c) <= Share
    <3>1. {s \in 1..J.symbols : blank[s] = c} = {}
      BY SearchBounds DEF Letters
    <3>2. blank \in Rows
      BY <1>1, PartialsAreRows
    <3> HIDE DEF blank
    <3>3. Uses(blank, c) = 0
      BY <3>1, <3>2, UsesIs, FS_EmptySet
    <3> QED
      BY <2>1, <3>3, ShareFits
  <2> QED
    BY <2>1 DEF Roomy
<1>3. first \in Candidates
  BY <1>1, <1>2 DEF Candidates
<1>4. J.symbols \in Nat /\ Iterations \in Nat
  BY JobFacts
<1>5. StartBeam = [beam |-> <<first>>, level |-> 1, evaluations |-> 0, trace |-> <<>>]
  BY DEF StartBeam
<1> HIDE DEF first
<1>6. <<first>> \in Seq(Candidates) /\ <<first>> # <<>> /\ <<>> \in Seq(Seq(Candidates))
      /\ Len(<<>>) = 0
  BY <1>3
<1> QED
  BY <1>4, <1>5, <1>6 DEF BeamFits

LEMMA TriesAre ==
  ASSUME Working, NEW b, BeamFits(b)
  PROVE  /\ Possible(b) \subseteq (1..Len(b.beam)) \X Letters /\ IsFiniteSet(Possible(b))
         /\ Tries(b) \subseteq Possible(b)
         /\ IsFiniteSet(Tries(b)) /\ Cardinality(Tries(b)) \in Nat
         /\ b.evaluations + Cardinality(Tries(b)) <= Iterations
<1> DEFINE possible == Possible(b)
           n == Iterations - b.evaluations
           sooner == [t \in possible |-> {u \in possible : Sooner(u, t)}]
<1>1. /\ Len(b.beam) \in Nat /\ DOMAIN b.beam = 1..Len(b.beam)
      /\ b.evaluations \in Nat /\ Iterations \in Nat /\ n \in Nat
  BY JobFacts DEF BeamFits
<1>2. possible \subseteq (1..Len(b.beam)) \X Letters
  BY <1>1 DEF Possible
<1>3. IsFiniteSet(possible)
  <2>1. 1 \in Int /\ Len(b.beam) \in Int /\ 0 \in Int /\ A - 1 \in Int
    BY <1>1, SearchBounds
  <2>2. IsFiniteSet(1..Len(b.beam)) /\ IsFiniteSet(Letters)
    BY <2>1, FS_Interval DEF Letters
  <2>3. IsFiniteSet((1..Len(b.beam)) \X Letters)
    BY <2>2, FS_Product
  <2> QED
    BY <1>2, <2>3, FS_Subset
<1>4. Orders(sooner, possible)
  <2>1. possible \subseteq Int \X Int
    BY <1>2, SearchBounds DEF Letters
  <2> HIDE DEF possible
  <2> QED
    BY <1>3, <2>1, SoonerOrders
<1>5. Tries(b) = {t \in possible : Cardinality(sooner[t]) < n}
  <2>1. Tries(b) = {t \in possible : b.evaluations + Cardinality(sooner[t]) < Iterations}
    BY DEF Tries
  <2>2. \A t \in possible : Cardinality(sooner[t]) \in Int
    <3> HIDE DEF sooner, possible
    <3> QED
      BY <1>4, RanksGrow
  <2>3. \A t \in possible :
            (b.evaluations + Cardinality(sooner[t]) < Iterations) <=> Cardinality(sooner[t]) < n
    BY <1>1, <2>2
  <2> HIDE DEF sooner, possible, n
  <2> QED
    BY <2>1, <2>3
<1>6. IsFiniteSet(Tries(b)) /\ Cardinality(Tries(b)) <= n
  <2> HIDE DEF sooner, possible, n
  <2>1. /\ IsFiniteSet({t \in possible : Cardinality(sooner[t]) < n})
        /\ Cardinality({t \in possible : Cardinality(sooner[t]) < n}) <= n
    BY <1>1, <1>4, RanksBelow, Zenon
  <2> QED
    BY <1>5, <2>1
<1> HIDE DEF sooner, possible
<1>7. Cardinality(Tries(b)) \in Nat
  BY <1>6, FS_CardinalityType
<1> QED
  BY <1>1, <1>2, <1>3, <1>5, <1>6, <1>7 DEF possible

\* The children of a level, whose best are the next beam.
Children(b) == {Child(b, t) : t \in Tries(b)}

LEMMA ChildrenAre ==
  ASSUME Working, NEW b, BeamFits(b)
  PROVE  /\ Children(b) \subseteq Candidates /\ IsFiniteSet(Children(b))
         /\ Lists(Ranked(Children(b), Better), Children(b))
<1>1. ASSUME NEW t \in Tries(b) PROVE Child(b, t) \in Candidates
  <2>1. t[1] \in DOMAIN b.beam /\ t[2] \in Letters /\ Room(b.beam[t[1]].key, t[2])
    <3>1. t \in Possible(b)
      BY <1>1, TriesAre
    <3> QED
      BY <3>1 DEF Possible
  <2>2. b.beam[t[1]] \in Candidates
    BY <2>1 DEF BeamFits
  <2> DEFINE key == b.beam[t[1]].key
             new == [key EXCEPT ![Order[b.level]] = t[2]]
  <2>3. key \in PartialKeys /\ Roomy(key)
    BY <2>2 DEF Candidates
  <2>4. new \in PartialKeys /\ Roomy(new)
    <3> HIDE DEF key
    <3> QED
      BY <2>1, <2>3, ChildFits DEF key
  <2>5. PartialScore(new) \in Int
    <3> HIDE DEF new
    <3> QED
      BY <2>4, PartialScoreType
  <2>6. Child(b, t) = [key |-> new, score |-> PartialScore(new)]
    BY DEF Child
  <2> HIDE DEF new
  <2> QED
    BY <2>4, <2>5, <2>6 DEF Candidates
<1>2. Children(b) \subseteq Candidates
  BY <1>1 DEF Children
<1>3. IsFiniteSet(Children(b))
  <2> DEFINE f == [t \in Tries(b) |-> Child(b, t)]
  <2>1. f \in Surjection(Tries(b), Children(b))
    BY DEF Surjection, Children
  <2> HIDE DEF f
  <2> QED
    BY <2>1, TriesAre, FS_Surjection
<1>4. Children(b) \subseteq [key : Rows, score : Int]
  BY <1>2, PartialsAreRows DEF Candidates
<1> QED
  BY <1>2, <1>3, <1>4, RankedCandidates

LEMMA LevelFits ==
  ASSUME Working, NEW b, BeamFits(b), ~ BeamDone(b)
  PROVE  BeamFits(NextLevel(b))
<1> DEFINE children == Children(b)
           list == Ranked(children, Better)
           kept == Prefix(list, J.width)
           next == NextLevel(b)
<1>1. /\ children \subseteq Candidates /\ IsFiniteSet(children) /\ Cardinality(children) \in Nat
      /\ list \in [1..Cardinality(children) -> children]
  BY ChildrenAre DEF Lists
<1>2. children # {}
  BY DEF BeamDone, Children
<1>3. Cardinality(children) > 0
  <2> HIDE DEF children
  <2> QED
    BY <1>1, <1>2, FS_EmptySet
<1>4. list \in Seq(Candidates) /\ Len(list) = Cardinality(children)
  <2> HIDE DEF children, list
  <2> QED
    BY <1>1
<1>5. J.width \in Nat /\ J.width > 0
  <2>1. J.width \in 1..MaxWidth
    BY DEF Working, ValidJob
  <2> QED
    BY <2>1
<1>6. next = [beam |-> kept, level |-> b.level + 1,
              evaluations |-> b.evaluations + Cardinality(Tries(b)), trace |-> Append(b.trace, kept)]
  BY DEF NextLevel, Children
<1> HIDE DEF children, list
<1>7. kept \in Seq(Candidates) /\ kept # <<>>
  <2>1. kept \in Seq(Candidates) /\ Len(kept) = IF J.width < Len(list) THEN J.width ELSE Len(list)
    BY <1>4, <1>5, PrefixIs
  <2>2. Len(kept) > 0
    BY <1>1, <1>3, <1>4, <1>5, <2>1
  <2> HIDE DEF kept
  <2> QED
    BY <2>1, <2>2
<1> HIDE DEF kept
<1>8. Append(b.trace, kept) \in Seq(Seq(Candidates)) /\ Len(Append(b.trace, kept)) = b.level
  <2>1. b.trace \in Seq(Seq(Candidates)) /\ Len(b.trace) = b.level - 1 /\ b.level \in Int
    BY JobFacts DEF BeamFits
  <2>2. \A T : \A s \in Seq(T), x \in T : Append(s, x) \in Seq(T) /\ Len(Append(s, x)) = Len(s) + 1
    OBVIOUS
  <2> QED
    BY <1>7, <2>1, <2>2
<1>9. b.level + 1 \in 1..(J.symbols + 1) /\ b.level + 1 - 1 = b.level
  <2>1. b.level \in 1..(J.symbols + 1)
    BY DEF BeamFits
  <2>2. ~ b.level > J.symbols
    BY DEF BeamDone
  <2>3. J.symbols \in Nat
    BY JobFacts
  <2> QED
    BY <2>1, <2>2, <2>3
<1>10. b.evaluations + Cardinality(Tries(b)) \in 0..Iterations
  <2>1. b.evaluations \in 0..Iterations /\ Iterations \in Nat
    BY JobFacts DEF BeamFits
  <2>2. /\ Cardinality(Tries(b)) \in Nat
        /\ b.evaluations + Cardinality(Tries(b)) <= Iterations
    BY TriesAre
  <2> QED
    BY <2>1, <2>2
<1> HIDE DEF next
<1> QED
  BY <1>6, <1>7, <1>8, <1>9, <1>10 DEF BeamFits, next

\* Some candidate is better than all others.
LEMMA BestIs ==
  ASSUME Working, NEW S, IsFiniteSet(S), S # {}, S \subseteq [key : Rows, score : Int]
  PROVE  Best(S) \in S /\ \A y \in S \ {Best(S)} : Better(Best(S), y)
<1> DEFINE below == [x \in S |-> {y \in S : Better(y, x)}]
<1>1. Orders(below, S)
  BY BetterOrders
<1>2. \A x \in S : below[x] = {y \in S : Better(y, x)}
  OBVIOUS
<1> HIDE DEF below
<1>3. PICK x \in S : Cardinality(below[x]) = 0
  <2>1. Cardinality(S) \in Nat /\ Cardinality(S) # 0
    BY FS_CardinalityType, FS_EmptySet
  <2>2. 0 \in 0..(Cardinality(S) - 1)
    BY <2>1
  <2> QED
    BY <1>1, <2>2, RanksFilled
<1>4. below[x] = {}
  <2>1. below[x] \in SUBSET S
    BY <1>2
  <2>2. IsFiniteSet(below[x])
    BY <2>1, FS_Subset
  <2> QED
    BY <1>3, <2>2, FS_EmptySet
<1>5. \A y \in S \ {x} : Better(x, y)
  BY <1>1, <1>2, <1>4 DEF Orders
<1> QED
  BY <1>5 DEF Best

Scored(key) == [key |-> key, score |-> Score(Decode(key))]
Completed(b) == {Complete(b.beam[i].key) : i \in DOMAIN b.beam}

LEMMA CompletedValid ==
  ASSUME Working, NEW b, BeamFits(b)
  PROVE  Completed(b) \subseteq ValidKeys /\ IsFiniteSet(Completed(b)) /\ Completed(b) # {}
<1>1. /\ b.beam \in Seq(Candidates) /\ b.beam # <<>>
  BY DEF BeamFits
<1>2. Len(b.beam) \in Nat /\ Len(b.beam) # 0 /\ DOMAIN b.beam = 1..Len(b.beam)
  BY <1>1
<1>3. ASSUME NEW i \in DOMAIN b.beam PROVE Complete(b.beam[i].key) \in ValidKeys
  <2>1. b.beam[i] \in Candidates
    BY <1>1, <1>3
  <2>2. b.beam[i].key \in PartialKeys /\ Roomy(b.beam[i].key)
    BY <2>1 DEF Candidates
  <2> QED
    BY <2>2, CompleteValid
<1>4. IsFiniteSet(DOMAIN b.beam) /\ DOMAIN b.beam # {}
  <2>1. 1 \in Int /\ Len(b.beam) \in Int /\ 1 \in 1..Len(b.beam)
    BY <1>2
  <2> QED
    BY <1>2, <2>1, FS_Interval
<1>5. IsFiniteSet(Completed(b))
  <2> DEFINE f == [i \in DOMAIN b.beam |-> Complete(b.beam[i].key)]
  <2>1. f \in Surjection(DOMAIN b.beam, Completed(b))
    BY DEF Surjection, Completed
  <2> HIDE DEF f
  <2> QED
    BY <1>4, <2>1, FS_Surjection
<1> QED
  BY <1>3, <1>4, <1>5 DEF Completed

\* The record is of the best of the completed keys.
LEMMA BeamEnds ==
  ASSUME Working, NEW b, BeamFits(b)
  PROVE  \E key \in Completed(b) :
           /\ BeamResult(b) = Record(key, b.evaluations, b.trace)
           /\ \A other \in Completed(b) \ {key} : Better(Scored(key), Scored(other))
<1> DEFINE S == {Scored(key) : key \in Completed(b)}
<1>1. ASSUME NEW key \in Completed(b) PROVE Scored(key) \in [key : Rows, score : Int]
  <2>1. key \in AllKeys
    BY CompletedValid DEF ValidKeys
  <2>2. Decode(key) \in Texts
    BY <2>1, DecodeType
  <2>3. Score(Decode(key)) \in Int
    BY <2>2, Rescoring
  <2> QED
    BY <2>1, <2>3, KeysAreRows DEF Scored
<1>2. IsFiniteSet(S) /\ S # {}
  <2> DEFINE f == [key \in Completed(b) |-> Scored(key)]
  <2>1. f \in Surjection(Completed(b), S)
    BY DEF Surjection
  <2>2. S # {}
    BY CompletedValid
  <2> HIDE DEF f, S
  <2> QED
    BY <2>1, <2>2, CompletedValid, FS_Surjection
<1>3. S \subseteq [key : Rows, score : Int]
  BY <1>1
<1>4. BeamResult(b) = Record(Best(S).key, b.evaluations, b.trace)
  BY DEF BeamResult, Completed, Scored
<1>5. Best(S) \in S /\ \A y \in S \ {Best(S)} : Better(Best(S), y)
  <2> HIDE DEF S
  <2> QED
    BY <1>2, <1>3, BestIs
<1>6. PICK key \in Completed(b) : Best(S) = Scored(key)
  BY <1>5
<1>7. Scored(key).key = key
  BY DEF Scored
<1>8. \A other \in Completed(b) \ {key} : Scored(other) \in S /\ Scored(other) # Scored(key)
  BY DEF Scored
<1> HIDE DEF S
<1> QED
  BY <1>4, <1>5, <1>6, <1>7, <1>8

LEMMA BeamHolds ==
  ASSUME Working, NEW b, BeamFits(b)
  PROVE  CandidateHolds(BeamResult(b))
<1>1. PICK key \in Completed(b) : BeamResult(b) = Record(key, b.evaluations, b.trace)
  BY BeamEnds
<1>2. ValidKey(key)
  BY CompletedValid DEF ValidKeys
<1>3. b.evaluations <= Iterations /\ Len(b.trace) <= (Iterations \div TraceEvery) + J.symbols
  <2>1. Iterations \in Nat /\ J.symbols \in Nat /\ TraceEvery \in Nat \ {0}
    BY JobFacts, SearchBounds
  <2>2. Iterations \div TraceEvery \in Nat
    BY <2>1
  <2>3. b.level \in 1..(J.symbols + 1) /\ b.evaluations \in 0..Iterations /\ Len(b.trace) = b.level - 1
    BY DEF BeamFits
  <2> QED
    BY <2>1, <2>2, <2>3
<1>4. /\ BeamResult(b).key = key /\ BeamResult(b).evaluations = b.evaluations
      /\ BeamResult(b).trace = b.trace
  BY <1>1 DEF Record
<1> QED
  BY <1>1, <1>2, <1>3, <1>4 DEF CandidateHolds

-----------------------------------------------------------------------------
(* A beam that never had to cut anything.                                  *)

LEMMA KeysFinite ==
  ASSUME Working
  PROVE  IsFiniteSet(Keys) /\ Cardinality(Keys) \in Nat /\ Cardinality(Keys) > 0 /\ Keys = AllKeys
<1> DEFINE S == 1..J.symbols
           P == SUBSET (S \X Letters)
           f == [key \in Keys |-> {<<s, key[s]>> : s \in S}]
<1>1. IsFiniteSet(S) /\ IsFiniteSet(Letters)
  <2>1. 0 \in Int /\ A - 1 \in Int
    BY SearchBounds
  <2> QED
    BY <2>1, SymbolsFinite, FS_Interval DEF Letters
<1>2. IsFiniteSet(P)
  BY <1>1, FS_Product, FS_SUBSET
<1>3. f \in [Keys -> P]
  <2>1. ASSUME NEW key \in Keys PROVE {<<s, key[s]>> : s \in S} \in P
    <3>1. \A s \in S : key[s] \in Letters
      BY DEF Keys
    <3> QED
      BY <3>1
  <2> HIDE DEF P
  <2> QED
    BY <2>1
<1>4. ASSUME NEW k \in Keys, NEW l \in Keys, f[k] = f[l] PROVE k = l
  <2>1. ASSUME NEW s \in S PROVE k[s] = l[s]
    <3>1. <<s, k[s]>> \in f[l]
      BY <1>4
    <3> QED
      BY <3>1
  <2>2. k = [s \in S |-> k[s]] /\ l = [s \in S |-> l[s]]
    BY DEF Keys
  <2> QED
    BY <2>1, <2>2
<1> HIDE DEF S, P, f
<1>5. f \in Injection(Keys, P)
  BY <1>3, <1>4, Zenon DEF Injection, IsInjective
<1>6. IsFiniteSet(Keys)
  BY <1>2, <1>5, FS_Injection
<1>7. Keys # {}
  BY FirstLettersValid DEF ValidKeys, AllKeys, Keys
<1>8. Cardinality(Keys) \in Nat /\ Cardinality(Keys) # 0
  BY <1>6, <1>7, FS_CardinalityType, FS_EmptySet
<1> QED
  BY <1>6, <1>8 DEF Keys, AllKeys

\* The symbols that have a letter at a level, and the keys that may be met there.
Known(l) == {Order[k] : k \in 1..(l - 1)}
Met(l) == {key \in PartialKeys : Roomy(key) /\ \A s \in 1..J.symbols : key[s] # Blank <=> s \in Known(l)}

LEMMA KnownGrows ==
  ASSUME Working, NEW l \in 1..J.symbols
  PROVE  /\ Order[l] \in 1..J.symbols /\ Order[l] \notin Known(l)
         /\ Known(l + 1) = Known(l) \cup {Order[l]}
<1>1. Cardinality(1..J.symbols) = J.symbols /\ J.symbols \in Nat
  BY SymbolsFinite, JobFacts
<1>2. /\ Order \in [1..J.symbols -> 1..J.symbols]
      /\ \A m, n \in 1..J.symbols : Order[m] = Order[n] => m = n
  BY <1>1, OrderIs DEF Lists
<1>3. Order[l] \notin Known(l)
  <2> SUFFICES ASSUME Order[l] \in Known(l) PROVE FALSE
    OBVIOUS
  <2>1. PICK k \in 1..(l - 1) : Order[l] = Order[k]
    BY DEF Known
  <2>2. k \in 1..J.symbols /\ k # l
    BY <1>1
  <2> QED
    BY <1>2, <2>1, <2>2
<1>4. 1..(l + 1 - 1) = (1..(l - 1)) \cup {l}
  BY <1>1
<1>5. Known(l + 1) = Known(l) \cup {Order[l]}
  BY <1>4 DEF Known
<1> QED
  BY <1>2, <1>3, <1>5

LEMMA KnownEnds ==
  ASSUME Working
  PROVE  Known(1) = {} /\ Known(J.symbols + 1) = 1..J.symbols
<1>1. Cardinality(1..J.symbols) = J.symbols /\ J.symbols \in Nat
  BY SymbolsFinite, JobFacts
<1>2. /\ Order \in [1..J.symbols -> 1..J.symbols]
      /\ \A s \in 1..J.symbols : \E n \in 1..J.symbols : Order[n] = s
  BY <1>1, OrderIs DEF Lists
<1>3. PICK n \in Int : n = J.symbols + 1 /\ n - 1 = J.symbols
  BY <1>1
<1>4. Known(J.symbols + 1) = {Order[k] : k \in 1..J.symbols}
  <2>1. Known(n) = {Order[k] : k \in 1..(n - 1)}
    BY DEF Known
  <2>2. Known(n) = {Order[k] : k \in 1..J.symbols}
    BY <1>3, <2>1, Zenon
  <2> QED
    BY <1>3, <2>2, Zenon
<1>5. \A k \in 1..J.symbols : Order[k] \in 1..J.symbols
  BY <1>2
<1>6. Known(J.symbols + 1) = 1..J.symbols
  BY <1>2, <1>4, <1>5
<1> QED
  BY <1>6 DEF Known

\* They are no more than all keys.
LEMMA FewMet ==
  ASSUME Working, NEW l
  PROVE  IsFiniteSet(Met(l)) /\ Cardinality(Met(l)) \in Nat /\ Cardinality(Met(l)) <= Cardinality(Keys)
<1> DEFINE S == 1..J.symbols
           f == [key \in Met(l) |-> [s \in S |-> IF key[s] = Blank THEN 0 ELSE key[s]]]
<1>1. f \in [Met(l) -> Keys]
  <2>1. ASSUME NEW key \in Met(l)
        PROVE  [s \in S |-> IF key[s] = Blank THEN 0 ELSE key[s]] \in Keys
    <3>1. \A s \in S : key[s] \in Letters \cup {Blank}
      BY DEF Met, PartialKeys
    <3>2. 0 \in Letters
      BY SearchBounds DEF Letters
    <3> QED
      BY <3>1, <3>2 DEF Keys
  <2> QED
    BY <2>1
<1>2. ASSUME NEW k \in Met(l), NEW m \in Met(l), f[k] = f[m] PROVE k = m
  <2>1. ASSUME NEW s \in S PROVE k[s] = m[s]
    <3>1. (k[s] # Blank <=> s \in Known(l)) /\ (m[s] # Blank <=> s \in Known(l))
      BY DEF Met
    <3>2. f[k][s] = f[m][s]
      BY <1>2
    <3> QED
      BY <3>1, <3>2
  <2>2. k = [s \in S |-> k[s]] /\ m = [s \in S |-> m[s]]
    BY DEF Met, PartialKeys
  <2> QED
    BY <2>1, <2>2
<1> HIDE DEF f, S
<1>3. f \in Injection(Met(l), Keys)
  BY <1>1, <1>2, Zenon DEF Injection, IsInjective
<1> QED
  BY <1>3, KeysFinite, FS_Injection, FS_CardinalityType

\* A letter taken back.
LEMMA ParentMet ==
  ASSUME Working, NEW l \in 1..J.symbols, NEW key, key \in Met(l + 1)
  PROVE  LET parent == [key EXCEPT ![Order[l]] = Blank]
             c == key[Order[l]]
         IN /\ parent \in Met(l) /\ c \in Letters /\ Room(parent, c)
            /\ [parent EXCEPT ![Order[l]] = c] = key
<1> DEFINE s == Order[l]
           parent == [key EXCEPT ![s] = Blank]
           c == key[s]
<1>1. s \in 1..J.symbols /\ s \notin Known(l) /\ Known(l + 1) = Known(l) \cup {s}
  BY KnownGrows
<1>2. /\ key \in PartialKeys /\ Roomy(key)
      /\ \A t \in 1..J.symbols : key[t] # Blank <=> t \in Known(l + 1)
  BY DEF Met
<1> HIDE DEF s
<1>3. c \in Letters
  BY <1>1, <1>2 DEF PartialKeys
<1>4. parent \in PartialKeys /\ [parent EXCEPT ![s] = c] = key
  BY <1>1, <1>2 DEF PartialKeys
<1>5. \A t \in 1..J.symbols : parent[t] # Blank <=> t \in Known(l)
  BY <1>1, <1>2 DEF PartialKeys
<1>6. ASSUME NEW d \in Letters, J.encoding # "homophonic"
      PROVE  /\ Uses(parent, d) <= Share /\ (d = c => Uses(parent, d) < Share)
  <2> DEFINE of == {t \in 1..J.symbols : key[t] = d}
             now == {t \in 1..J.symbols : parent[t] = d}
  <2>1. key \in Rows /\ parent \in Rows /\ Share \in Nat
    BY <1>2, <1>4, <1>6, PartialsAreRows, ShareFits
  <2>2. IsFiniteSet(of) /\ Uses(key, d) = Cardinality(of) /\ Uses(key, d) \in Nat /\ Uses(key, d) <= Share
    BY <1>2, <1>6, <2>1, UsesIs DEF Roomy
  <2>3. Uses(parent, d) = Cardinality(now)
    <3> HIDE DEF parent
    <3> QED
      BY <2>1, UsesIs
  <2>4. d # Blank
    BY SearchBounds DEF Letters
  <2>5. now \in SUBSET of
    BY <1>2, <2>4 DEF PartialKeys
  <2>6. d = c => now \in SUBSET (of \ {s}) /\ s \in of
    BY <1>1, <1>2, <2>4 DEF PartialKeys
  <2> HIDE DEF of, now, parent, c
  <2>7. Cardinality(now) \in Nat /\ Cardinality(now) <= Cardinality(of)
    BY <2>2, <2>5, FS_Subset, FS_CardinalityType
  <2>8. ASSUME d = c PROVE Cardinality(now) < Share
    <3>1. IsFiniteSet(of \ {s}) /\ Cardinality(of \ {s}) = Cardinality(of) - 1
      BY <2>2, <2>6, <2>8, FS_RemoveElement
    <3>2. Cardinality(now) <= Cardinality(of \ {s})
      BY <2>6, <2>8, <3>1, FS_Subset
    <3> QED
      BY <2>1, <2>2, <2>7, <3>1, <3>2
  <2> QED
    BY <2>1, <2>2, <2>3, <2>7, <2>8
<1>7. Roomy(parent) /\ Room(parent, c)
  BY <1>3, <1>6 DEF Roomy, Room
<1> QED
  BY <1>3, <1>4, <1>5, <1>7 DEF Met, s

LEMMA ChildMet ==
  ASSUME Working, NEW l \in 1..J.symbols, NEW key, key \in Met(l), NEW c \in Letters, Room(key, c)
  PROVE  [key EXCEPT ![Order[l]] = c] \in Met(l + 1)
<1> DEFINE s == Order[l]
           new == [key EXCEPT ![s] = c]
<1>1. s \in 1..J.symbols /\ s \notin Known(l) /\ Known(l + 1) = Known(l) \cup {s}
  BY KnownGrows
<1>2. /\ key \in PartialKeys /\ Roomy(key)
      /\ \A t \in 1..J.symbols : key[t] # Blank <=> t \in Known(l)
  BY DEF Met
<1> HIDE DEF s
<1>3. new \in PartialKeys /\ Roomy(new)
  BY <1>2, ChildFits
<1>4. c # Blank
  BY SearchBounds DEF Letters
<1>5. \A t \in 1..J.symbols : new[t] # Blank <=> t \in Known(l + 1)
  BY <1>1, <1>2, <1>4 DEF PartialKeys
<1> QED
  BY <1>3, <1>5 DEF Met, s

\* Every valid key is met, as far as it is known, at each level.
LEMMA ValidMet ==
  ASSUME Working, NEW key, key \in ValidKeys, NEW l
  PROVE  [s \in 1..J.symbols |-> IF s \in Known(l) THEN key[s] ELSE Blank] \in Met(l)
<1> DEFINE part == [s \in 1..J.symbols |-> IF s \in Known(l) THEN key[s] ELSE Blank]
<1>1. key \in AllKeys /\ ValidKey(key)
  BY DEF ValidKeys
<1>2. part \in PartialKeys
  BY <1>1 DEF PartialKeys, AllKeys
<1>3. \A s \in 1..J.symbols : part[s] # Blank <=> s \in Known(l)
  BY <1>1, SearchBounds DEF AllKeys, Letters
<1>4. ASSUME NEW c \in Letters, J.encoding # "homophonic" PROVE Uses(part, c) <= Share
  <2> DEFINE of == {t \in 1..J.symbols : key[t] = c}
             now == {t \in 1..J.symbols : part[t] = c}
  <2>1. key \in Rows /\ part \in Rows /\ Share \in Nat
    BY <1>1, <1>2, <1>4, KeysAreRows, PartialsAreRows, ShareFits
  <2>2. IsFiniteSet(of) /\ Uses(key, c) = Cardinality(of) /\ Uses(key, c) \in Nat
    BY <2>1, UsesIs
  <2>3. Uses(part, c) = Cardinality(now)
    <3> HIDE DEF part
    <3> QED
      BY <2>1, UsesIs
  <2>4. now \in SUBSET of
    <3>1. c # Blank
      BY SearchBounds DEF Letters
    <3> QED
      BY <3>1
  <2>5. Cardinality(of) <= Share
    <3>1. CASE J.encoding = "balanced-homophonic"
      BY <1>1, <2>1, <2>2, <3>1, ValidIs DEF Share
    <3>2. CASE J.encoding = "substitution"
      <4>1. \A s, t \in of : s = t
        BY <1>1, <3>2, ValidIs
      <4>2. Share = 1
        BY <3>2 DEF Share
      <4>3. CASE of = {}
        BY <4>2, <4>3, FS_EmptySet
      <4>4. CASE of # {}
        <5>1. PICK s \in of : of = {s}
          <6> HIDE DEF of
          <6> QED
            BY <4>1, <4>4
        <5> HIDE DEF of
        <5>2. Cardinality(of) = 1
          BY <5>1, FS_Singleton
        <5> QED
          BY <4>2, <5>2
      <4> QED
        BY <4>3, <4>4
    <3>3. J.encoding \in {"substitution", "homophonic", "balanced-homophonic"}
      BY DEF Working, ValidJob, Encodings
    <3> QED
      BY <1>4, <3>1, <3>2, <3>3
  <2> HIDE DEF of, now, part
  <2>6. Cardinality(now) \in Nat /\ Cardinality(now) <= Cardinality(of)
    BY <2>2, <2>4, FS_Subset, FS_CardinalityType
  <2> QED
    BY <2>1, <2>2, <2>3, <2>5, <2>6
<1>5. Roomy(part)
  BY <1>4 DEF Roomy
<1> QED
  BY <1>2, <1>3, <1>5 DEF Met

\* A beam that holds every key that may be met at its level, once.
Full(b) ==
    /\ \A i \in DOMAIN b.beam : b.beam[i].key \in Met(b.level)
    /\ \A i, j \in DOMAIN b.beam : b.beam[i].key = b.beam[j].key => i = j
    /\ \A key \in Met(b.level) : \E i \in DOMAIN b.beam : b.beam[i].key = key
    /\ b.evaluations <= A * Cardinality(Keys) * (b.level - 1)

LEMMA StartFull ==
  ASSUME Working
  PROVE  Full(StartBeam)
<1> DEFINE blank == [s \in 1..J.symbols |-> Blank]
<1>1. /\ StartBeam.beam = <<[key |-> blank, score |-> 0]>> /\ StartBeam.level = 1
      /\ StartBeam.evaluations = 0
  BY DEF StartBeam
<1>2. DOMAIN StartBeam.beam = {1} /\ StartBeam.beam[1].key = blank
  <2>1. \A x : DOMAIN <<x>> = {1} /\ <<x>>[1] = x
    OBVIOUS
  <2>2. [key |-> blank, score |-> 0].key = blank
    OBVIOUS
  <2> HIDE DEF blank
  <2> QED
    BY <1>1, <2>1, <2>2, Zenon
<1>3. Known(1) = {}
  BY KnownEnds
<1>4. blank \in Met(1)
  <2>1. Known(1) = {} => [s \in 1..J.symbols |-> IF s \in Known(1) THEN 0 ELSE Blank] = blank
    OBVIOUS
  <2>2. PICK key \in ValidKeys : TRUE
    BY FirstLettersValid
  <2>3. [s \in 1..J.symbols |-> IF s \in Known(1) THEN key[s] ELSE Blank] = blank
    BY <1>3
  <2> HIDE DEF blank
  <2> QED
    BY <2>2, <2>3, ValidMet
<1>5. ASSUME NEW key \in Met(1) PROVE key = blank
  <2>1. \A s \in 1..J.symbols : key[s] = Blank
    BY <1>3, <1>5 DEF Met
  <2>2. key = [s \in 1..J.symbols |-> key[s]]
    BY <1>5 DEF Met, PartialKeys
  <2> QED
    BY <2>1, <2>2
<1>6. A \in Nat /\ Cardinality(Keys) \in Nat
  BY SearchBounds, KeysFinite
<1>7. 0 <= A * Cardinality(Keys) * (1 - 1)
  BY <1>6
<1> HIDE DEF blank
<1> QED
  BY <1>1, <1>2, <1>4, <1>5, <1>7 DEF Full

LEMMA Budgeting ==
  ASSUME NEW m \in Nat, NEW l \in Nat, NEW n \in Nat, 0 < l, l <= n
  PROVE  m * (l - 1) + m = m * l /\ m * l <= m * n
<1>1. m * (l - 1) + m = m * l
  OBVIOUS
<1>2. m * n = m * l + m * (n - l) /\ m * (n - l) \in Nat
  <2>1. n - l \in Nat /\ n = l + (n - l)
    OBVIOUS
  <2> QED
    BY <2>1
<1>3. m * l \in Nat
  OBVIOUS
<1> QED
  BY <1>1, <1>2, <1>3

\* There are letters enough to try and budget enough to try them all.
LEMMA AllTried ==
  ASSUME Working, RoomForAll, NEW b, BeamFits(b), Full(b), b.level <= J.symbols
  PROVE  /\ Tries(b) = Possible(b) /\ Tries(b) # {} /\ ~ BeamDone(b)
         /\ b.evaluations + Cardinality(Tries(b)) <= A * Cardinality(Keys) * b.level
<1> DEFINE n == Len(b.beam)
           M == A * Cardinality(Keys)
           S == 1..n
           possible == Possible(b)
<1>1. /\ n \in Nat /\ DOMAIN b.beam = S /\ b.level \in 1..J.symbols /\ b.level \in Nat
      /\ b.evaluations \in Nat /\ J.symbols \in Nat /\ Iterations \in Nat
  BY JobFacts DEF BeamFits
<1>2. /\ A \in Nat \ {0} /\ Cardinality(Keys) \in Nat /\ Cardinality(Keys) > 0
  BY SearchBounds, KeysFinite
<1>3. IsFiniteSet(S) /\ Cardinality(S) = n
  <2>1. 1 \in Int /\ n \in Int /\ (IF 1 > n THEN 0 ELSE n - 1 + 1) = n
    BY <1>1
  <2> HIDE DEF n
  <2> QED
    BY <2>1, FS_Interval
<1>4. n <= Cardinality(Keys)
  <2> DEFINE f == [i \in S |-> b.beam[i].key]
  <2>1. f \in [S -> Met(b.level)] /\ \A i, j \in S : f[i] = f[j] => i = j
    BY <1>1 DEF Full
  <2> HIDE DEF f, S
  <2>2. f \in Injection(S, Met(b.level))
    BY <2>1, Zenon DEF Injection, IsInjective
  <2>3. Cardinality(S) <= Cardinality(Met(b.level))
    BY <2>2, FewMet, FS_Injection
  <2> HIDE DEF n
  <2>4. /\ Cardinality(Met(b.level)) \in Nat
        /\ Cardinality(Met(b.level)) <= Cardinality(Keys)
    BY FewMet
  <2> QED
    BY <1>1, <1>2, <1>3, <2>3, <2>4
<1>5. M \in Nat /\ M > 0 /\ n * A <= M
  <2>1. \A a \in Nat \ {0}, k \in Nat : k > 0 => a * k \in Nat /\ a * k > 0
    OBVIOUS
  <2>2. \A a, k, m \in Nat : m <= k => m * a <= a * k
    OBVIOUS
  <2> HIDE DEF n
  <2> QED
    BY <1>1, <1>2, <1>4, <2>1, <2>2
<1>6. IsFiniteSet(possible) /\ Cardinality(possible) \in Nat /\ Cardinality(possible) <= M
  <2>1. IsFiniteSet(Letters) /\ Cardinality(Letters) = A
    <3>1. 0 \in Int /\ A - 1 \in Int /\ ~ 0 > A - 1 /\ A - 1 - 0 + 1 = A
      BY <1>2
    <3> QED
      BY <3>1, FS_Interval DEF Letters
  <2>2. IsFiniteSet(S \X Letters) /\ Cardinality(S \X Letters) = n * A
    <3> HIDE DEF S, n
    <3> QED
      BY <1>3, <2>1, FS_Product
  <2>3. possible \in SUBSET (S \X Letters)
    BY TriesAre
  <2> HIDE DEF S, n, possible, M
  <2>4. IsFiniteSet(possible) /\ Cardinality(possible) <= n * A
    BY <2>2, <2>3, FS_Subset
  <2>5. Cardinality(possible) \in Nat /\ n * A \in Nat
    BY <1>1, <1>2, <2>4, FS_CardinalityType
  <2> QED
    BY <1>5, <2>4, <2>5
<1>7. /\ b.evaluations <= M * (b.level - 1) /\ Iterations >= M * J.symbols
      /\ M * (b.level - 1) + M = M * b.level /\ M * b.level <= M * J.symbols
      /\ M * (b.level - 1) \in Int /\ M * b.level \in Int /\ M * J.symbols \in Int
  <2>1. b.evaluations <= M * (b.level - 1) /\ Iterations >= M * J.symbols
    BY DEF Full, RoomForAll, Iterations
  <2> HIDE DEF M
  <2>2. 0 < b.level /\ b.level <= J.symbols
    BY <1>1
  <2>3. M * (b.level - 1) + M = M * b.level /\ M * b.level <= M * J.symbols
    BY <1>1, <1>5, <2>2, Budgeting
  <2>4. \A m, x \in Int : m * x \in Int
    OBVIOUS
  <2>5. M \in Int /\ b.level \in Int /\ b.level - 1 \in Int /\ J.symbols \in Int
    BY <1>1, <1>5
  <2>6. M * (b.level - 1) \in Int /\ M * b.level \in Int /\ M * J.symbols \in Int
    BY <2>4, <2>5
  <2> QED
    BY <2>1, <2>3, <2>6
<1>8. b.evaluations + Cardinality(possible) <= M * b.level /\ b.evaluations + Cardinality(possible) <= Iterations
      /\ b.evaluations < Iterations
  <2>1. PICK x \in Int, y \in Int, z \in Int :
          x = M * (b.level - 1) /\ y = M * b.level /\ z = M * J.symbols
    BY <1>7
  <2>2. PICK c \in Int, m \in Int : c = Cardinality(possible) /\ m = M
    BY <1>5, <1>6
  <2> HIDE DEF M, possible
  <2>3. b.evaluations <= x /\ c <= m /\ 0 < m /\ x + m = y /\ y <= z /\ z <= Iterations
    BY <1>5, <1>6, <1>7, <2>1, <2>2
  <2>4. b.evaluations \in Int /\ Iterations \in Int
    BY <1>1
  <2>5. b.evaluations + c <= y /\ b.evaluations + c <= Iterations /\ b.evaluations < Iterations
    BY ONLY <2>3, <2>4, x \in Int, y \in Int, z \in Int, c \in Int, m \in Int
  <2> QED
    BY <2>1, <2>2, <2>5
<1>9. ASSUME NEW t \in possible PROVE t \in Tries(b)
  <2> DEFINE sooner == {u \in possible : Sooner(u, t)}
  <2>1. t \notin sooner
    <3>1. t[1] \in Int /\ t[2] \in Int
      BY TriesAre, <1>1, <1>9, SearchBounds DEF Letters
    <3> QED
      BY <3>1 DEF Sooner
  <2>2. sooner \in SUBSET (possible \ {t})
    BY <2>1
  <2> HIDE DEF sooner, possible
  <2>3. IsFiniteSet(possible \ {t}) /\ Cardinality(possible \ {t}) = Cardinality(possible) - 1
    BY <1>6, <1>9, FS_RemoveElement
  <2>4. IsFiniteSet(sooner) /\ Cardinality(sooner) <= Cardinality(possible) - 1
    BY <2>2, <2>3, FS_Subset
  <2>5. Cardinality(sooner) \in Nat
    BY <2>4, FS_CardinalityType
  <2>6. b.evaluations + Cardinality(sooner) < Iterations
    BY <1>1, <1>6, <1>8, <2>4, <2>5
  <2> QED
    BY <1>9, <2>6 DEF Tries, sooner, possible
<1>10. Tries(b) = possible
  BY <1>9, TriesAre
<1>11. possible # {}
  <2>1. PICK key \in Met(b.level + 1) : TRUE
    BY FirstLettersValid, ValidMet
  <2>2. PICK parent : parent \in Met(b.level) /\ \E c \in Letters : Room(parent, c)
    BY <1>1, ParentMet
  <2>3. PICK i \in DOMAIN b.beam : b.beam[i].key = parent
    BY <2>2 DEF Full
  <2>4. PICK c \in Letters : Room(parent, c)
    BY <2>2
  <2>5. <<i, c>> \in possible
    BY <2>3, <2>4 DEF Possible
  <2> QED
    BY <2>5
<1>12. ~ BeamDone(b)
  BY <1>1, <1>8, <1>10, <1>11 DEF BeamDone
<1> QED
  BY <1>8, <1>10, <1>11, <1>12

LEMMA LevelFull ==
  ASSUME Working, RoomForAll, NEW b, BeamFits(b), Full(b), b.level <= J.symbols
  PROVE  Full(NextLevel(b))
<1> DEFINE l == b.level
           children == Children(b)
           list == Ranked(children, Better)
           kept == Prefix(list, J.width)
           next == NextLevel(b)
<1>1. l \in 1..J.symbols /\ J.symbols \in Nat /\ l + 1 - 1 = l
  BY JobFacts DEF BeamFits
<1>2. Tries(b) = Possible(b) /\ b.evaluations + Cardinality(Tries(b)) <= A * Cardinality(Keys) * l
  BY AllTried
<1>3. ASSUME NEW t \in Tries(b)
      PROVE  /\ Child(b, t).key \in Met(l + 1)
             /\ Child(b, t) = [key |-> Child(b, t).key, score |-> PartialScore(Child(b, t).key)]
  <2>1. t[1] \in DOMAIN b.beam /\ t[2] \in Letters /\ Room(b.beam[t[1]].key, t[2])
    <3>1. t \in Possible(b)
      BY <1>2, <1>3
    <3> QED
      BY <3>1 DEF Possible
  <2>2. b.beam[t[1]].key \in Met(l)
    BY <2>1 DEF Full
  <2>3. [b.beam[t[1]].key EXCEPT ![Order[l]] = t[2]] \in Met(l + 1)
    <3> HIDE DEF l
    <3> QED
      BY <1>1, <2>1, <2>2, ChildMet
  <2> QED
    BY <2>3 DEF Child
<1>4. ASSUME NEW key \in Met(l + 1)
      PROVE  \E c \in children : c.key = key
  <2> DEFINE parent == [key EXCEPT ![Order[l]] = Blank]
             c == key[Order[l]]
  <2>1. /\ parent \in Met(l) /\ c \in Letters /\ Room(parent, c)
        /\ [parent EXCEPT ![Order[l]] = c] = key
    <3> HIDE DEF l
    <3> QED
      BY <1>1, <1>4, ParentMet
  <2>2. PICK i \in DOMAIN b.beam : b.beam[i].key = parent
    BY <2>1 DEF Full
  <2>3. <<i, c>> \in Tries(b)
    BY <1>2, <2>1, <2>2 DEF Possible
  <2>4. Child(b, <<i, c>>).key = key
    BY <2>1, <2>2 DEF Child
  <2> QED
    BY <2>3, <2>4 DEF Children
<1>5. \A c \in children : c.key \in Met(l + 1) /\ c = [key |-> c.key, score |-> PartialScore(c.key)]
  BY <1>3 DEF Children
<1>6. Lists(list, children) /\ IsFiniteSet(children)
  BY ChildrenAre
<1> HIDE DEF children, list, l
<1>7. Cardinality(children) \in Nat /\ Cardinality(children) <= Cardinality(Keys)
  <2> DEFINE f == [c \in children |-> c.key]
  <2>1. f \in [children -> Met(l + 1)]
    BY <1>5
  <2>2. \A c, d \in children : f[c] = f[d] => c = d
    BY <1>5, Zenon
  <2> HIDE DEF f
  <2>3. f \in Injection(children, Met(l + 1))
    BY <2>1, <2>2, Zenon DEF Injection, IsInjective
  <2>4. Cardinality(children) <= Cardinality(Met(l + 1))
    BY <2>3, FewMet, FS_Injection
  <2>5. /\ Cardinality(Met(l + 1)) \in Nat /\ Cardinality(Met(l + 1)) <= Cardinality(Keys)
        /\ Cardinality(Keys) \in Nat
    BY FewMet, KeysFinite
  <2>6. Cardinality(children) \in Nat
    BY <1>6 DEF Lists
  <2> QED
    BY <2>4, <2>5, <2>6
<1>8. kept = list
  <2>1. list \in Seq(children) /\ Len(list) = Cardinality(children)
    BY <1>6, <1>7 DEF Lists
  <2>2. J.width \in Nat /\ J.width >= Cardinality(children)
    <3>1. J.width \in 1..MaxWidth /\ J.width >= Cardinality(Keys) /\ Cardinality(Keys) \in Nat
      BY KeysFinite DEF Working, ValidJob, RoomForAll
    <3> QED
      BY <1>7, <3>1
  <2>3. /\ kept \in Seq(children) /\ Len(kept) = Len(list)
        /\ \A i \in 1..Len(kept) : kept[i] = list[i]
    BY <1>7, <2>1, <2>2, PrefixIs
  <2> HIDE DEF kept
  <2> QED
    BY <2>1, <2>3, SeqEqual
<1>9. /\ next.beam = kept /\ next.level = l + 1
      /\ next.evaluations = b.evaluations + Cardinality(Tries(b))
  BY DEF NextLevel, Children, children, list, l
<1> HIDE DEF kept, next
<1>10. /\ DOMAIN next.beam = 1..Cardinality(children)
       /\ \A i \in DOMAIN next.beam : next.beam[i] \in children
       /\ \A i, j \in DOMAIN next.beam : next.beam[i] = next.beam[j] => i = j
       /\ \A c \in children : \E i \in DOMAIN next.beam : next.beam[i] = c
  BY <1>6, <1>8, <1>9 DEF Lists
<1>11. \A i \in DOMAIN next.beam : next.beam[i].key \in Met(next.level)
  BY <1>5, <1>9, <1>10
<1>12. \A i, j \in DOMAIN next.beam : next.beam[i].key = next.beam[j].key => i = j
  <2> SUFFICES ASSUME NEW i \in DOMAIN next.beam, NEW j \in DOMAIN next.beam,
                      next.beam[i].key = next.beam[j].key
               PROVE  i = j
    OBVIOUS
  <2>1. \A c, d \in children : c.key = d.key => c = d
    BY <1>5, Zenon
  <2>2. next.beam[i] = next.beam[j]
    BY <1>10, <2>1
  <2> QED
    BY <1>10, <2>2
<1>13. \A key \in Met(next.level) : \E i \in DOMAIN next.beam : next.beam[i].key = key
  BY <1>4, <1>9, <1>10
<1>14. next.evaluations <= A * Cardinality(Keys) * (next.level - 1)
  BY <1>1, <1>2, <1>9
<1> QED
  BY <1>11, <1>12, <1>13, <1>14 DEF Full, next

\* At the end it holds every valid key.
LEMMA FullEnds ==
  ASSUME Working, NEW b, BeamFits(b), Full(b), ~ b.level <= J.symbols
  PROVE  ValidKeys \subseteq Completed(b)
<1>1. b.level = J.symbols + 1
  BY JobFacts DEF BeamFits
<1>2. ASSUME NEW key \in ValidKeys PROVE key \in Completed(b)
  <2>1. key \in AllKeys /\ DOMAIN key = 1..J.symbols
    BY DEF ValidKeys, AllKeys
  <2>2. [s \in 1..J.symbols |-> IF s \in Known(b.level) THEN key[s] ELSE Blank] = key
    BY <1>1, <2>1, KnownEnds DEF AllKeys
  <2>3. key \in Met(b.level)
    BY <2>2, ValidMet
  <2>4. PICK i \in DOMAIN b.beam : b.beam[i].key = key
    BY <2>3 DEF Full
  <2>5. {s \in DOMAIN key : key[s] = Blank} = {}
    BY <2>1, SearchBounds DEF AllKeys, Letters
  <2>6. Complete(key) = [s \in DOMAIN key |-> key[s]]
    BY <2>5 DEF Complete
  <2>7. Complete(key) = key
    BY <2>1, <2>6 DEF AllKeys
  <2> QED
    BY <2>4, <2>7 DEF Completed
<1> QED
  BY <1>2

\* What is known of a beam in the middle of its search.
BeamGood(b) == BeamFits(b) /\ (RoomForAll => Full(b))

LEMMA StartGood ==
  ASSUME Working
  PROVE  BeamGood(StartBeam)
BY StartFits, StartFull DEF BeamGood

LEMMA LevelGood ==
  ASSUME Working, NEW b, BeamGood(b), ~ BeamDone(b)
  PROVE  BeamGood(NextLevel(b))
<1>1. BeamFits(b) /\ BeamFits(NextLevel(b))
  BY LevelFits DEF BeamGood
<1>2. b.level <= J.symbols
  <2>1. b.level \in 1..(J.symbols + 1)
    BY DEF BeamGood, BeamFits
  <2>2. ~ b.level > J.symbols
    BY DEF BeamDone
  <2>3. J.symbols \in Nat
    BY JobFacts
  <2> QED
    BY <2>1, <2>2, <2>3
<1> QED
  BY <1>1, <1>2, LevelFull DEF BeamGood

\* Where there was room for all, the end of the search is better than any other key.
LEMMA BestOfAll ==
  ASSUME Working, RoomForAll, NEW b, BeamGood(b), BeamDone(b),
         NEW key \in Keys, ValidKey(key), key # BeamResult(b).key
  PROVE  Better(BeamResult(b), Scored(key))
<1>1. BeamFits(b) /\ Full(b)
  BY DEF BeamGood
<1>2. ~ b.level <= J.symbols
  BY <1>1, AllTried
<1>3. key \in Completed(b)
  BY <1>1, <1>2, FullEnds, KeysFinite DEF ValidKeys
<1>4. PICK best \in Completed(b) :
        /\ BeamResult(b) = Record(best, b.evaluations, b.trace)
        /\ \A other \in Completed(b) \ {best} : Better(Scored(best), Scored(other))
  BY <1>1, BeamEnds
<1>5. BeamResult(b).key = best /\ BeamResult(b).score = Score(Decode(best))
  BY <1>4 DEF Record
<1>6. Better(Scored(best), Scored(key))
  BY <1>3, <1>4, <1>5
<1>7. Scored(best).key = best /\ Scored(best).score = Score(Decode(best))
  BY DEF Scored
<1> QED
  BY <1>5, <1>6, <1>7 DEF Better

-----------------------------------------------------------------------------
(* The beams of one job follow one another in one way.                     *)

Levels(f, n) ==
    /\ f[0] = StartBeam
    /\ \A i \in 1..n : ~ BeamDone(f[i - 1]) /\ f[i] = NextLevel(f[i - 1])
Reached(b) == \E n \in Nat : \E f : Levels(f, n) /\ f[n] = b

LEMMA StartReached == Reached(StartBeam)
<1>1. Levels([i \in {0} |-> StartBeam], 0) /\ [i \in {0} |-> StartBeam][0] = StartBeam
  BY DEF Levels
<1> QED
  BY <1>1 DEF Reached

LEMMA NextReached ==
  ASSUME NEW b, Reached(b), ~ BeamDone(b)
  PROVE  Reached(NextLevel(b))
<1>1. PICK n \in Nat : \E f : Levels(f, n) /\ f[n] = b
  BY DEF Reached
<1>2. PICK f : Levels(f, n) /\ f[n] = b
  BY <1>1
<1> DEFINE g == [i \in 0..(n + 1) |-> IF i = n + 1 THEN NextLevel(b) ELSE f[i]]
<1>3. \A i \in 0..n : g[i] = f[i]
  OBVIOUS
<1>4. g[n + 1] = NextLevel(b)
  OBVIOUS
<1> HIDE DEF g
<1>5. Levels(g, n + 1)
  <2>1. g[0] = StartBeam
    BY <1>2, <1>3 DEF Levels
  <2>2. ASSUME NEW i \in 1..(n + 1) PROVE ~ BeamDone(g[i - 1]) /\ g[i] = NextLevel(g[i - 1])
    <3>1. CASE i = n + 1
      <4>1. i - 1 = n /\ n \in 0..n
        BY <3>1
      <4> QED
        BY <1>2, <1>3, <1>4, <3>1, <4>1
    <3>2. CASE i # n + 1
      <4>1. i \in 1..n /\ i \in 0..n /\ i - 1 \in 0..n
        BY <3>2
      <4> QED
        BY <1>2, <1>3, <4>1 DEF Levels
    <3> QED
      BY <3>1, <3>2
  <2> QED
    BY <2>1, <2>2 DEF Levels
<1>6. n + 1 \in Nat
  OBVIOUS
<1> QED
  BY <1>4, <1>5, <1>6 DEF Reached

LEMMA LevelsAgree ==
  ASSUME NEW n \in Nat, NEW f, Levels(f, n), BeamDone(f[n]),
         NEW m \in Nat, NEW g, Levels(g, m), BeamDone(g[m]), n <= m
  PROVE  f[n] = g[m]
<1>1. f[0] = g[0]
  BY DEF Levels
<1>2. \A i \in 1..n : f[i - 1] = g[i - 1] => f[i] = g[i]
  BY DEF Levels
<1>3. \A i \in 0..n : f[i] = g[i]
  BY ONLY <1>1, <1>2, n \in Nat, Agreement
<1>4. f[n] = g[n]
  BY <1>3
<1>5. n = m
  <2> SUFFICES ASSUME n # m PROVE FALSE
    OBVIOUS
  <2>1. n + 1 \in 1..m /\ n + 1 - 1 = n
    OBVIOUS
  <2>2. ~ BeamDone(g[n + 1 - 1])
    BY <2>1 DEF Levels
  <2> QED
    BY <1>4, <2>1, <2>2
<1> QED
  BY <1>4, <1>5

LEMMA ReachedAgree ==
  ASSUME NEW b, Reached(b), BeamDone(b), NEW c, Reached(c), BeamDone(c)
  PROVE  b = c
<1>1. PICK n \in Nat : \E f : Levels(f, n) /\ f[n] = b
  BY DEF Reached
<1>2. PICK f : Levels(f, n) /\ f[n] = b
  BY <1>1
<1>3. PICK m \in Nat : \E g : Levels(g, m) /\ g[m] = c
  BY DEF Reached
<1>4. PICK g : Levels(g, m) /\ g[m] = c
  BY <1>3
<1>5. n <= m \/ m <= n
  OBVIOUS
<1> QED
  BY <1>2, <1>4, <1>5, LevelsAgree

\* A beam's course is the job's, which no step changes.
LEMMA BeamStays ==
  ASSUME UNCHANGED given, NEW b
  PROVE  /\ (BeamDone(b))' = BeamDone(b) /\ (NextLevel(b))' = NextLevel(b)
         /\ StartBeam' = StartBeam /\ (BeamGood(b))' = BeamGood(b)
<1>1. J' = J
  BY DEF given, J
<1>2. Order' = Order
  BY <1>1 DEF Order, Ranked, MoreFrequent, Count
<1>3. ASSUME NEW k PROVE (PartialScore(k))' = PartialScore(k)
  BY <1>1 DEF PartialScore, SumOfWindows, Windows, LastWindow, PartialWindow, Window, Decode
<1>4. ASSUME NEW k, NEW c PROVE (Room(k, c))' = Room(k, c)
  BY <1>1 DEF Room, Share, Capacity, Uses
<1>5. (Tries(b))' = Tries(b)
  BY <1>1, <1>4 DEF Tries, Possible, Iterations, Sooner
<1>6. ASSUME NEW t PROVE (Child(b, t))' = Child(b, t)
  BY <1>2, <1>3 DEF Child
<1>7. (Children(b))' = Children(b)
  BY <1>5, <1>6 DEF Children
<1>8. /\ NextLevel(b) = [beam |-> Prefix(Ranked(Children(b), Better), J.width), level |-> b.level + 1,
                         evaluations |-> b.evaluations + Cardinality(Tries(b)),
                         trace |-> Append(b.trace, Prefix(Ranked(Children(b), Better), J.width))]
      /\ (NextLevel(b))' = [beam |-> Prefix(Ranked((Children(b))', Better), J.width'), level |-> b.level + 1,
                         evaluations |-> b.evaluations + Cardinality((Tries(b))'),
                         trace |-> Append(b.trace, Prefix(Ranked((Children(b))', Better), J.width'))]
  BY DEF NextLevel, Children
<1>9. (NextLevel(b))' = NextLevel(b)
  BY <1>1, <1>5, <1>7, <1>8
<1>10. (BeamDone(b))' = BeamDone(b)
  BY <1>1, <1>5 DEF BeamDone, Iterations
<1>11. StartBeam' = StartBeam
  BY <1>1 DEF StartBeam
<1>12. (BeamFits(b))' = BeamFits(b)
  BY <1>1, <1>4 DEF BeamFits, Candidates, PartialKeys, Roomy, Uses, Share, Capacity, Iterations
<1>13. RoomForAll' = RoomForAll /\ Keys' = Keys
  BY <1>1 DEF RoomForAll, Keys
<1>14. ASSUME NEW l PROVE (Met(l))' = Met(l)
  BY <1>1, <1>2 DEF Met, Known, PartialKeys, Roomy, Uses, Share, Capacity
<1>15. (Full(b))' = Full(b)
  BY <1>13, <1>14 DEF Full
<1> QED
  BY <1>9, <1>10, <1>11, <1>12, <1>13, <1>15 DEF BeamGood

LEMMA ReachedStays ==
  ASSUME UNCHANGED given, NEW b
  PROVE  (Reached(b))' = Reached(b)
BY BeamStays DEF Reached, Levels

LEMMA ResultStays ==
  ASSUME UNCHANGED given, NEW b
  PROVE  (BeamResult(b))' = BeamResult(b)
<1>1. J' = J /\ job' = job
  BY DEF given, J
<1>2. ASSUME NEW k PROVE (Decode(k))' = Decode(k) /\ (Score(Decode(k)))' = Score(Decode(k))
  BY <1>1 DEF Score, ScoreOver, SumOfWindows, Windows, LastWindow, Window, Decode
<1>3. ASSUME NEW k PROVE (Complete(k))' = Complete(k)
  BY <1>1 DEF Complete, Share, Capacity, Uses
<1>4. (Completed(b))' = Completed(b)
  BY <1>3 DEF Completed
<1>5. ASSUME NEW k, NEW n, NEW t PROVE (Record(k, n, t))' = Record(k, n, t)
  BY <1>1, <1>2 DEF Record
<1>6. /\ BeamResult(b) = Record(Best({[key |-> key, score |-> Score(Decode(key))] : key \in Completed(b)}).key, b.evaluations, b.trace)
      /\ (BeamResult(b))' = (Record(Best({[key |-> key, score |-> Score(Decode(key))] : key \in Completed(b)}).key, b.evaluations, b.trace))'
  BY DEF BeamResult, Completed
<1>7. {[key |-> key, score |-> Score(Decode(key))] : key \in Completed(b)}' = {[key |-> key, score |-> Score(Decode(key))] : key \in Completed(b)}
  BY <1>2, <1>4
<1> QED
  BY <1>5, <1>6, <1>7

-----------------------------------------------------------------------------
(* The second invariant: every result is the one end of the job's search,  *)
(* and a running call is on the way to it.                                 *)

Ending(r) ==
    IF Annealing THEN Road /\ \E cp : Good(cp) /\ cp.iteration = Iterations /\ r = Finished(cp)
    ELSE \E b : Reached(b) /\ BeamGood(b) /\ BeamDone(b) /\ r = BeamResult(b)
Ended(r) == Working /\ Ending(r)

Returned(o) ==
    o # None => /\ o.kind = "result" => Ended(o.value)
                /\ o.kind = "verdict" => o.value = TRUE
Received(r) == r # None => Ended(r)
Agreed(v) == v # None => v.value = TRUE
Running(c, r) ==
    c # None =>
      /\ Working
      /\ "beam" \in DOMAIN c =>
            /\ ~ Annealing /\ c = [op |-> c.op, beam |-> c.beam]
            /\ Reached(c.beam) /\ BeamGood(c.beam)
      /\ c.op = "verify" => Ended(r)

VerifyInv ==
    /\ SearchInv
    /\ Returned(out) /\ Received(result) /\ Agreed(verdict) /\ Running(call, result)

LEMMA EndingsAgree ==
  ASSUME NEW r, Ended(r), NEW s, Ended(s)
  PROVE  r = s
<1>1. CASE Annealing
  <2>1. PICK cp : Good(cp) /\ cp.iteration = Iterations /\ r = Finished(cp)
    BY <1>1 DEF Ended, Ending
  <2>2. PICK other : Good(other) /\ other.iteration = Iterations /\ s = Finished(other)
    BY <1>1 DEF Ended, Ending
  <2>3. Working /\ Road
    BY <1>1 DEF Ended, Ending
  <2>4. Finished(cp) = Finished(other)
    BY <2>1, <2>2, <2>3, FinishedAgree
  <2> QED
    BY <2>1, <2>2, <2>4
<1>2. CASE ~ Annealing
  <2>1. PICK b : Reached(b) /\ BeamDone(b) /\ r = BeamResult(b)
    BY <1>2 DEF Ended, Ending
  <2>2. PICK c : Reached(c) /\ BeamDone(c) /\ s = BeamResult(c)
    BY <1>2 DEF Ended, Ending
  <2> QED
    BY <2>1, <2>2, ReachedAgree
<1> QED
  BY <1>1, <1>2

LEMMA EndedHolds ==
  ASSUME NEW r, Ended(r)
  PROVE  CandidateHolds(r)
<1>1. CASE Annealing
  BY <1>1, FinishedHolds DEF Ended, Ending
<1>2. CASE ~ Annealing
  BY <1>2, BeamHolds DEF Ended, Ending, BeamGood
<1> QED
  BY <1>1, <1>2

LEMMA EndedStays ==
  ASSUME UNCHANGED given, NEW r
  PROVE  (Ended(r))' = Ended(r)
<1>1. Working' = Working /\ Annealing' = Annealing /\ Road' = Road
  BY DEF given, Working, Road, ValidJob, Annealing, DrawsFit, DrawsBelow, FirstKey, Exchange,
         AllKeys, ValidKeys, ValidKey, Uses, Capacity, Places, FullScored, Reassigns, Iterations,
         Letters, Decode, Score, ScoreOver, SumOfWindows, J, Windows, Window, LastWindow
<1>2. ASSUME NEW cp PROVE (Good(cp))' = Good(cp)
  BY DEF given, Good, CheckpointType, OnPath, Traced, Entry, Leads, Ahead, Precedes,
         Entries, AllKeys, Iterations, Letters, J
<1>3. ASSUME NEW cp PROVE (Finished(cp))' = Finished(cp)
  BY DEF given, Finished, Record, Decode, Score, ScoreOver, SumOfWindows, J, Windows, Window, LastWindow
<1>4. Iterations' = Iterations
  BY DEF given, Iterations, J
<1>5. ASSUME NEW b
      PROVE  /\ (Reached(b))' = Reached(b) /\ (BeamGood(b))' = BeamGood(b)
             /\ (BeamDone(b))' = BeamDone(b) /\ (BeamResult(b))' = BeamResult(b)
  BY BeamStays, ReachedStays, ResultStays
<1>6. (Ending(r))' = Ending(r)
  BY <1>1, <1>2, <1>3, <1>4, <1>5 DEF Ending
<1> QED
  BY <1>1, <1>6 DEF Ended

LEMMA RestVerified ==
  ASSUME VerifyInv, SearchInv', UNCHANGED given,
         Returned(out'), Received(result'), Agreed(verdict'), Running(call', result')
  PROVE  VerifyInv'
<1>1. ASSUME NEW r PROVE (Ended(r))' = Ended(r)
  BY EndedStays
<1>2. ASSUME NEW b PROVE (Reached(b))' = Reached(b) /\ (BeamGood(b))' = BeamGood(b)
  BY BeamStays, ReachedStays
<1>3. Working' = Working /\ Annealing' = Annealing
  BY DEF given, Working, ValidJob, Annealing, J
<1>4. Returned(out)' /\ Received(result)'
  BY <1>1 DEF Returned, Received
<1>5. Agreed(verdict)'
  BY DEF Agreed
<1>6. Running(call, result)'
  BY <1>1, <1>2, <1>3 DEF Running
<1> QED
  BY <1>4, <1>5, <1>6 DEF VerifyInv

LEMMA VerifyStarts ==
  ASSUME Init
  PROVE  VerifyInv
BY SearchStarts DEF Init, VerifyInv, Returned, Received, Agreed, Running

LEMMA FailureReturned == Returned(Failure) /\ Returned(None)
BY DEF Returned, Failure

LEMMA AskStepVerified ==
  ASSUME VerifyInv, NEW proposals \in Sizes, AskStep(proposals)
  PROVE  VerifyInv'
<1>1. SearchInv' /\ UNCHANGED given /\ Received(result') /\ Agreed(verdict')
  BY AskStepKeeps DEF VerifyInv, AskStep
<1>2. Returned(out') /\ Running(call', result')
  <2>1. CASE Refuse
    BY <2>1, FailureReturned DEF VerifyInv, AskStep, Refuse
  <2>2. CASE ValidJob /\ UNCHANGED out
             /\ call' = [op |-> "step", work |-> Work(IF held = None THEN Initial ELSE held, proposals)]
    <3>1. Working
      BY <2>2 DEF VerifyInv, SearchInv, Working
    <3>2. call'.op = "step" /\ "beam" \notin DOMAIN call'
      BY <2>2
    <3> QED
      BY <2>2, <3>1, <3>2 DEF VerifyInv, Running
  <2> QED
    BY <2>1, <2>2 DEF AskStep
<1> QED
  BY <1>1, <1>2, RestVerified

LEMMA AskRunVerified ==
  ASSUME VerifyInv, NEW op, AskRun(op), op = "verify" => result # None
  PROVE  VerifyInv'
<1>1. SearchInv' /\ UNCHANGED given /\ UNCHANGED result /\ Received(result') /\ Agreed(verdict')
  BY AskRunKeeps DEF VerifyInv, AskRun
<1>2. Returned(out') /\ Running(call', result')
  <2>1. CASE Refuse
    BY <1>1, <2>1, FailureReturned DEF VerifyInv, AskRun, Refuse
  <2>2. CASE ValidJob /\ UNCHANGED out
             /\ call' = IF Annealing THEN [op |-> op, work |-> Work(Initial, MaxProposals)]
                        ELSE [op |-> op, beam |-> StartBeam]
    <3>1. Working
      BY <2>2 DEF VerifyInv, SearchInv, Working
    <3>2. op = "verify" => Ended(result')
      BY <1>1 DEF VerifyInv, Received
    <3>3. Returned(out')
      BY <2>2 DEF VerifyInv
    <3>4. CASE Annealing
      <4>1. call'.op = op /\ "beam" \notin DOMAIN call'
        BY <2>2, <3>4
      <4> QED
        BY <3>1, <3>2, <3>3, <4>1 DEF Running
    <3>5. CASE ~ Annealing
      <4>1. call' = [op |-> op, beam |-> StartBeam]
        BY <2>2, <3>5
      <4>2. Reached(StartBeam) /\ BeamGood(StartBeam)
        BY <3>1, StartReached, StartGood
      <4>3. call'.op = op /\ call'.beam = StartBeam /\ call' = [op |-> call'.op, beam |-> call'.beam]
        BY <4>1
      <4> QED
        BY <3>1, <3>2, <3>3, <3>5, <4>2, <4>3 DEF Running
    <3> QED
      BY <3>4, <3>5
  <2> QED
    BY <2>1, <2>2 DEF AskRun
<1> QED
  BY <1>1, <1>2, RestVerified

\* A checkpoint of this job that may be finished is the end of the search.
LEMMA FinishEnds ==
  ASSUME VerifyInv, NEW cp, Kept(cp), cp # None, ValidJob, CanFinish(cp)
  PROVE  Ended(Finished(cp))
<1>1. cp.job = job /\ cp.iteration = Iterations
  BY DEF CanFinish, CheckpointMatches
<1>2. Annealed /\ Good(cp) /\ Working /\ Road
  BY <1>1 DEF Kept, Annealed, Working, VerifyInv, SearchInv, Drawn
<1> QED
  BY <1>1, <1>2 DEF Ended, Ending, Annealed

LEMMA AskFinishVerified ==
  ASSUME VerifyInv, AskFinish
  PROVE  VerifyInv'
<1>1. /\ SearchInv' /\ UNCHANGED given /\ Received(result') /\ Agreed(verdict')
      /\ Running(call', result')
  BY HostKeeps DEF VerifyInv, AskFinish
<1>2. Returned(out')
  <2>1. CASE ValidJob /\ CanFinish(held) /\ out' = Answer("result", Finished(held))
    <3>1. Ended(Finished(held))
      BY <2>1, FinishEnds DEF AskFinish, VerifyInv, SearchInv
    <3> QED
      BY <2>1, <3>1 DEF Answer, Returned
  <2>2. CASE out' = Failure
    BY <2>2, FailureReturned
  <2> QED
    BY <2>1, <2>2 DEF AskFinish
<1> QED
  BY <1>1, <1>2, RestVerified

LEMMA AskVerificationFinishVerified ==
  ASSUME VerifyInv, AskVerificationFinish
  PROVE  VerifyInv'
<1>1. /\ SearchInv' /\ UNCHANGED given /\ Received(result') /\ Agreed(verdict')
      /\ Running(call', result')
  BY HostKeeps DEF VerifyInv, AskVerificationFinish
<1>2. Returned(out')
  <2>1. CASE ValidJob /\ CanFinish(held) /\ out' = Answer("verdict", Finished(held) = result)
    <3>1. Ended(Finished(held)) /\ Ended(result)
      BY <2>1, FinishEnds DEF AskVerificationFinish, VerifyInv, SearchInv, Received
    <3>2. (Finished(held) = result) = TRUE
      BY <3>1, EndingsAgree
    <3> QED
      BY <2>1, <3>2 DEF Answer, Returned
  <2>2. CASE out' = Failure
    BY <2>2, FailureReturned
  <2> QED
    BY <2>1, <2>2 DEF AskVerificationFinish
<1> QED
  BY <1>1, <1>2, RestVerified

\* A call that ends with a record ends with that of the job.
LEMMA EndsVerified ==
  ASSUME VerifyInv, NEW possible \in BOOLEAN, NEW r, call # None, Ends(possible, r), Ended(r)
  PROVE  Returned(out') /\ Running(call', result')
<1>1. Running(call', result')
  BY DEF Ends, Running
<1>2. CASE ~ possible
  BY <1>1, <1>2, FailureReturned DEF Ends
<1>3. CASE possible /\ call.op = "verify"
  <2>1. Ended(result)
    BY <1>3 DEF VerifyInv, Running
  <2>2. (r = result) = TRUE
    BY <2>1, EndingsAgree
  <2>3. out' = Answer("verdict", r = result)
    BY <1>3 DEF Ends
  <2> QED
    BY <1>1, <2>2, <2>3 DEF Answer, Returned
<1>4. CASE possible /\ call.op # "verify"
  <2>1. out' = Answer("result", r)
    BY <1>4 DEF Ends
  <2> QED
    BY <1>1, <2>1 DEF Answer, Returned
<1> QED
  BY <1>2, <1>3, <1>4

LEMMA ProposeVerified ==
  ASSUME VerifyInv, Propose
  PROVE  VerifyInv'
<1>1. /\ SearchInv' /\ UNCHANGED given /\ Received(result') /\ Agreed(verdict')
      /\ Returned(out')
  BY ProposeKeeps DEF VerifyInv, Propose
<1>2. Running(call', result')
  <2>1. call = [op |-> call.op, work |-> call.work] /\ call # None
    BY DEF Propose, VerifyInv, SearchInv, Asked
  <2>2. call' = [op |-> call.op, work |-> Proposal(call.work)]
    BY <2>1 DEF Propose
  <2>3. call'.op = call.op /\ "beam" \notin DOMAIN call'
    BY <2>2
  <2> QED
    BY <2>1, <2>3 DEF VerifyInv, Running, Propose
<1> QED
  BY <1>1, <1>2, RestVerified

LEMMA EndAdvanceVerified ==
  ASSUME VerifyInv, EndAdvance
  PROVE  VerifyInv'
<1>1. /\ SearchInv' /\ UNCHANGED given /\ Received(result') /\ Agreed(verdict')
  BY EndAdvanceKeeps DEF VerifyInv, EndAdvance
<1>2. /\ call = [op |-> call.op, work |-> call.work] /\ call # None
      /\ Working /\ Annealed /\ WorkGood(call.work) /\ Good(call.work.cp)
      /\ call.work.cp.iteration = call.work.end
  BY DEF EndAdvance, VerifyInv, SearchInv, Asked, WorkGood, Annealed
<1>3. CASE out' = Answer("checkpoint", call.work.cp) /\ call' = None
  <2>1. Returned(out') /\ Running(call', result')
    BY <1>3 DEF Answer, Returned, Running
  <2> QED
    BY <1>1, <2>1, RestVerified
<1>4. CASE call' = [call EXCEPT !.work = Work(call.work.cp, MaxProposals)] /\ UNCHANGED out
  <2>1. call' = [op |-> call.op, work |-> Work(call.work.cp, MaxProposals)]
    BY <1>2, <1>4
  <2>2. call'.op = call.op /\ "beam" \notin DOMAIN call'
    BY <2>1
  <2>3. Returned(out') /\ Running(call', result')
    BY <1>2, <1>4, <2>2 DEF VerifyInv, Running, EndAdvance
  <2> QED
    BY <1>1, <2>3, RestVerified
<1>5. CASE ~ call.work.end < Iterations /\ Ends(CanFinish(call.work.cp), Finished(call.work.cp))
  <2>1. call.work.cp.iteration = Iterations
    BY <1>2, <1>5, JobFacts DEF WorkGood
  <2>2. Road
    BY <1>2 DEF VerifyInv, SearchInv, Drawn, Annealed, Working
  <2>3. Ended(Finished(call.work.cp))
    BY <1>2, <2>1, <2>2 DEF Ended, Ending, Annealed
  <2>4. CanFinish(call.work.cp) \in BOOLEAN
    BY DEF CanFinish
  <2>5. Returned(out') /\ Running(call', result')
    BY <1>2, <1>5, <2>3, <2>4, EndsVerified
  <2> QED
    BY <1>1, <2>5, RestVerified
<1> QED
  BY <1>3, <1>4, <1>5 DEF EndAdvance

LEMMA ExpandVerified ==
  ASSUME VerifyInv, Expand
  PROVE  VerifyInv'
<1>1. /\ SearchInv' /\ UNCHANGED given /\ Received(result') /\ Agreed(verdict')
  BY ExpandKeeps DEF VerifyInv, Expand
<1>2. /\ call = [op |-> call.op, beam |-> call.beam] /\ call # None /\ Working /\ ~ Annealing
      /\ Reached(call.beam) /\ BeamGood(call.beam)
  BY DEF Expand, VerifyInv, Running
<1>3. CASE BeamDone(call.beam) /\ Ends(TRUE, BeamResult(call.beam))
  <2>1. Ended(BeamResult(call.beam))
    BY <1>2, <1>3 DEF Ended, Ending
  <2>2. Returned(out') /\ Running(call', result')
    BY <1>2, <1>3, <2>1, EndsVerified
  <2> QED
    BY <1>1, <2>2, RestVerified
<1>4. CASE ~ BeamDone(call.beam) /\ call' = [call EXCEPT !.beam = NextLevel(call.beam)] /\ UNCHANGED out
  <2>1. call' = [op |-> call.op, beam |-> NextLevel(call.beam)]
    BY <1>2, <1>4
  <2>2. Reached(NextLevel(call.beam)) /\ BeamGood(NextLevel(call.beam))
    BY <1>2, <1>4, NextReached, LevelGood
  <2>3. call'.op = call.op /\ call'.beam = NextLevel(call.beam)
    BY <2>1
  <2>4. Returned(out') /\ Running(call', result')
    BY <1>2, <1>4, <2>1, <2>2, <2>3 DEF VerifyInv, Running, Expand
  <2> QED
    BY <1>1, <2>4, RestVerified
<1> QED
  BY <1>3, <1>4 DEF Expand

LEMMA HostVerified ==
  ASSUME VerifyInv, Read \/ Save \/ Crash \/ Restore \/ RestoreForeign
  PROVE  VerifyInv'
<1>1. SearchInv' /\ UNCHANGED given
  BY HostKeeps DEF VerifyInv, Read, Save, Crash, Restore, RestoreForeign
<1>2. CASE Read
  <2>1. Returned(out')
    BY <1>2, FailureReturned DEF Read
  <2>2. Received(result')
    BY <1>2 DEF Read, VerifyInv, Received, Returned
  <2>3. Agreed(verdict')
    BY <1>2 DEF Read, VerifyInv, Agreed, Returned, Answer
  <2>4. Running(call', result')
    <3>1. Ended(result) => Ended(result')
      BY <1>2 DEF Read, VerifyInv, Returned
    <3> QED
      BY <1>2, <3>1 DEF Read, VerifyInv, Running
  <2> QED
    BY <1>1, <2>1, <2>2, <2>3, <2>4, RestVerified
<1>3. CASE Crash
  <2>1. Returned(out') /\ Received(result') /\ Agreed(verdict') /\ Running(call', result')
    BY <1>3 DEF Crash, VerifyInv, Returned, Received, Agreed, Running
  <2> QED
    BY <1>1, <2>1, RestVerified
<1>4. CASE Save \/ Restore \/ RestoreForeign
  <2>1. Returned(out') /\ Received(result') /\ Agreed(verdict') /\ Running(call', result')
    BY <1>4 DEF Save, Restore, RestoreForeign, VerifyInv
  <2> QED
    BY <1>1, <2>1, RestVerified
<1> QED
  BY <1>2, <1>3, <1>4

\* Every step keeps the one result of the job.
THEOREM VerifyInvariance == Spec => []VerifyInv
<1>1. Init => VerifyInv
  BY VerifyStarts
<1>2. VerifyInv /\ [Next]_vars => VerifyInv'
  <2> SUFFICES ASSUME VerifyInv, [Next]_vars PROVE VerifyInv'
    OBVIOUS
  <2>1. CASE \E n \in Sizes : AskStep(n)
    BY <2>1, AskStepVerified
  <2>2. CASE AskFinish
    BY <2>2, AskFinishVerified
  <2>3. CASE AskRun("run")
    BY <2>3, AskRunVerified
  <2>4. CASE result # None /\ AskRun("verify")
    BY <2>4, AskRunVerified
  <2>5. CASE AskVerificationFinish
    BY <2>5, AskVerificationFinishVerified
  <2>6. CASE Propose
    BY <2>6, ProposeVerified
  <2>7. CASE EndAdvance
    BY <2>7, EndAdvanceVerified
  <2>8. CASE Expand
    BY <2>8, ExpandVerified
  <2>9. CASE Read \/ Save \/ Crash \/ Restore \/ RestoreForeign
    BY <2>9, HostVerified
  <2>10. CASE UNCHANGED vars
    <3>1. SearchInv' /\ UNCHANGED given
      <4>1. Sent(out') /\ Asked(call') /\ Kept(held') /\ Kept(file') /\ UNCHANGED given
        BY <2>10 DEF vars, given, VerifyInv, SearchInv
      <4> QED
        BY <4>1, Rest DEF VerifyInv
    <3>2. Returned(out') /\ Received(result') /\ Agreed(verdict') /\ Running(call', result')
      BY <2>10 DEF vars, VerifyInv
    <3> QED
      BY <3>1, <3>2, RestVerified
  <2> QED
    BY <2>1, <2>2, <2>3, <2>4, <2>5, <2>6, <2>7, <2>8, <2>9, <2>10 DEF Next
<1> QED
  BY <1>1, <1>2, PTL DEF Spec

\* What the kernel returns it accepts, and a verification never disagrees.
THEOREM ResultsCorrect == Spec => []ResultsVerify
<1>1. VerifyInv => ResultsVerify
  <2> SUFFICES ASSUME VerifyInv PROVE ResultsVerify
    OBVIOUS
  <2>1. \A cp \in Checkpoints : CheckpointMatches(cp)
    BY CheckpointsGood, GoodMatches DEF VerifyInv
  <2>2. result # None => CandidateHolds(result)
    BY EndedHolds DEF VerifyInv, Received
  <2> QED
    BY <2>1, <2>2 DEF ResultsVerify, VerifyInv, Agreed
<1> QED
  BY <1>1, VerifyInvariance, PTL

\* A beam search that had room for all returns the best of all keys, and one that had
\* not a key, within its budget.
THEOREM BeamCorrect == Spec => []BeamFindsBest
<1>1. VerifyInv => BeamFindsBest
  <2> SUFFICES ASSUME VerifyInv, result # None, result.algorithm = "beam-v1"
               PROVE  /\ ValidKey(result.key) /\ result.evaluations <= Iterations
                      /\ RoomForAll =>
                            \A key \in Keys : ValidKey(key) /\ key # result.key =>
                                Better(result, [key |-> key, score |-> Score(Decode(key))])
    BY DEF BeamFindsBest
  <2>1. Ended(result) /\ Working /\ CandidateHolds(result)
    BY EndedHolds DEF VerifyInv, Received, Ended
  <2>2. result.algorithm = J.algorithm
    BY <2>1 DEF CandidateHolds, Record
  <2>3. ~ Annealing
    BY <2>2 DEF Annealing
  <2>4. PICK b : BeamGood(b) /\ BeamDone(b) /\ result = BeamResult(b)
    BY <2>1, <2>3 DEF Ended, Ending
  <2>5. ASSUME RoomForAll, NEW key \in Keys, ValidKey(key), key # result.key
        PROVE  Better(result, [key |-> key, score |-> Score(Decode(key))])
    BY <2>1, <2>4, <2>5, BestOfAll DEF Scored
  <2>6. ValidKey(result.key) /\ result.evaluations <= Iterations
    BY <2>1 DEF CandidateHolds
  <2> QED
    BY <2>5, <2>6
<1> QED
  BY <1>1, VerifyInvariance, PTL

=============================================================================
