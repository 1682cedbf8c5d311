-------------------------- MODULE UserAccountsProofs --------------------------
(***************************************************************************)
(* What is proved of the accounts for any number of users, workers and     *)
(* requests, and any lengths of names, ends of the process included.       *)
(*                                                                         *)
(* The argument: a worker gives users_mutex_ back between the check of a   *)
(* password, the save and the session, so the invariant says what a worker *)
(* at each place still may rely on.  Registered users stay registered      *)
(* until the process ends, and then the worker is gone: so a session is of *)
(* a user.  Every line of a buffer was true when it was written, and what  *)
(* was true once stays known.  A flush puts whole lines at the beginning   *)
(* of the file and leaves the ends of others behind them only if the file  *)
(* is not empty; it is empty as long as no other save has opened it since. *)
(* So a line is whole unless saves overlap, and what is left of a line     *)
(* that was cut is refused or names an ending of its user.                 *)
(***************************************************************************)
EXTENDS UserAccounts, FiniteSetTheorems, SequenceTheorems, WellFoundedInduction, TLAPS

\* Numbers have a smallest one, which Min returns.
LEMMA Smallest ==
    ASSUME NEW T, T \subseteq Nat, T # {}
    PROVE  \E x \in T : \A y \in T : x <= y
  <1>1. PICK x \in T :  \A y \in T : <<y, x>> \notin OpToRel(<, Nat)
    <2>1. IsWellFoundedOn(OpToRel(<, Nat), Nat)
      BY NatLessThanWellFounded, Zenon
    <2> QED BY <2>1, WFMin, Zenon
  <1>2. \A y \in T : ~(y < x)
    BY <1>1, Zenon DEF OpToRel
  <1> QED BY <1>2

LEMMA MinIndex ==
    ASSUME NEW S, S \subseteq Nat, S # {}
    PROVE  Min(S) \in S /\ \A i \in S : Min(S) <= i
  <1>1. \E x \in S : \A y \in S : x <= y
    BY Smallest
  <1>2. Min(S) = CHOOSE x \in S : \A y \in S : x <= y
    BY DEF Min
  <1> QED BY <1>1, <1>2

\* Induction, with what is to be shown of i in the definition of T.
LEMMA AllUpTo ==
    ASSUME NEW n \in Nat, NEW T, 0 \in T,
           \A i \in 0..n : i \in T /\ i < n => i + 1 \in T
    PROVE  0..n \subseteq T
  <1> SUFFICES ASSUME (0..n) \ T # {} PROVE FALSE
    OBVIOUS
  <1>1. PICK x \in (0..n) \ T : \A y \in (0..n) \ T : x <= y
    <2> DEFINE U == (0..n) \ T
    <2>1. U \subseteq Nat /\ U # {}
      OBVIOUS
    <2> HIDE DEF U
    <2> QED BY <2>1, Smallest DEF U
  <1>2. x # 0 /\ x - 1 \in 0..n /\ x - 1 \notin (0..n) \ T
    BY <1>1
  <1> QED BY <1>1, <1>2

\* The ends of lines are numbers of a set A, if the lines' lengths stay in it.
LEMMA EndsAreNumbers ==
    ASSUME NEW f \in Seq(Line), NEW A, 0 \in A,
           \A i \in 1..Len(f), x \in A : x + Length(f[i]) \in A
    PROVE  Ends(f) \in [0..Len(f) -> A] /\ Ends(f)[0] = 0
  <1> DEFINE n == Len(f)
             Sums(g, m) == /\ g \in [0..m -> A]
                          /\ g[0] = 0
                          /\ \A i \in 1..m : g[i] = g[i - 1] + Length(f[i])
             Body(g) == [i \in 0..n |-> IF i = 0 THEN 0 ELSE g[i - 1] + Length(f[i])]
             T == {m \in 0..n : \E g : Sums(g, m)}
  <1>0. n \in Nat
    OBVIOUS
  <1>1. 0 \in T
    <2>1. Sums([i \in 0..0 |-> 0], 0)
      OBVIOUS
    <2> HIDE DEF Sums
    <2> QED BY <1>0, <2>1
  <1>2. ASSUME NEW m \in 0..n, m \in T, m < n PROVE m + 1 \in T
    <2>1. PICK g : Sums(g, m)
      BY <1>2
    <2> DEFINE h == [i \in 0..(m + 1) |-> IF i = m + 1 THEN g[m] + Length(f[m + 1]) ELSE g[i]]
    <2>2. g[m] + Length(f[m + 1]) \in A
      BY <1>0, <1>2, <2>1
    <2>3. h \in [0..(m + 1) -> A] /\ h[0] = 0
      BY <1>0, <1>2, <2>1, <2>2
    <2>4. ASSUME NEW i \in 1..(m + 1) PROVE h[i] = h[i - 1] + Length(f[i])
      <3>1. CASE i = m + 1
        BY <1>0, <1>2, <2>1, <3>1
      <3>2. CASE i # m + 1
        BY <1>0, <1>2, <2>1, <3>2
      <3> QED BY <3>1, <3>2
    <2>5. Sums(h, m + 1)
      BY <2>3, <2>4
    <2> HIDE DEF h, Sums
    <2> QED BY <1>0, <1>2, <2>5
  <1>3. \E g : g = Body(g)
    <2>1. n \in T
      <3> HIDE DEF T
      <3>1. 0..n \subseteq T
        BY <1>0, <1>1, <1>2, AllUpTo
      <3> QED BY <1>0, <3>1
    <2>2. PICK g : Sums(g, n)
      BY <2>1
    <2>3. g = [i \in 0..n |-> g[i]] /\ \A i \in 0..n : g[i] = Body(g)[i]
      BY <1>0, <2>2
    <2> QED BY <2>3
  <1>4. Ends(f) = Body(Ends(f))
    <2>1. Ends(f) = CHOOSE g : g = Body(g)
      BY DEF Ends
    <2> HIDE DEF Body
    <2> QED BY <1>3, <2>1
  <1> DEFINE e == Ends(f)
             U == {i \in 0..n : e[i] \in A}
  <1>5. /\ e = [i \in 0..n |-> e[i]] /\ e[0] = 0
        /\ \A i \in 1..n : e[i] = e[i - 1] + Length(f[i])
    <2> HIDE DEF e
    <2>1. e = Body(e)
      BY <1>4 DEF e
    <2>2. \A i \in 0..n : e[i] = IF i = 0 THEN 0 ELSE e[i - 1] + Length(f[i])
      BY <2>1
    <2>3. e = [i \in 0..n |-> e[i]]
      BY <2>1
    <2>4. e[0] = 0
      BY <1>0, <2>2
    <2>5. \A i \in 1..n : i \in 0..n /\ i # 0
      BY <1>0
    <2> QED BY <2>2, <2>3, <2>4, <2>5
  <1>6. ASSUME NEW i \in 0..n, i \in U, i < n PROVE i + 1 \in U
    <2>1. i + 1 \in 1..n /\ i + 1 \in 0..n /\ (i + 1) - 1 = i
      BY <1>0, <1>6
    <2> HIDE DEF e
    <2>2. e[i + 1] = e[i] + Length(f[i + 1])
      BY <1>5, <2>1
    <2>3. e[i + 1] \in A
      BY <1>6, <2>1, <2>2
    <2> QED BY <2>1, <2>3
  <1>7. 0..n \subseteq U
    <2>1. 0 \in U
      BY <1>0, <1>5
    <2> HIDE DEF U
    <2> QED BY <1>0, <1>6, <2>1, AllUpTo
  <1> QED BY <1>5, <1>7
-----------------------------------------------------------------------------
\* What a line says, and of whom.
AccountOf(l) == [user |-> l.user, password |-> l.password]

\* The ending of a name from any group on is a name.
LEMMA EndingsAreNames ==
    ASSUME NEW u \in Users
    PROVE  /\ Len(u) \in Nat /\ SubSeq(u, 1, Len(u)) = u
           /\ \A k \in 1..(Len(u) + 1) : SubSeq(u, k, Len(u)) \in Suffixes(u)
  <1>1. u \in Seq(Groups)
    BY AccountsAssumption
  <1>2. SubSeq(u, Len(u) + 1, Len(u)) = <<>>
    BY <1>1
  <1>3. SubSeq(u, 1, Len(u)) = u
    BY <1>1
  <1>4. ASSUME NEW k \in 1..(Len(u) + 1) PROVE SubSeq(u, k, Len(u)) \in Suffixes(u)
    <2>1. CASE k \in 1..Len(u)
      BY <2>1 DEF Suffixes
    <2>2. CASE k = Len(u) + 1
      BY <1>2, <2>2 DEF Suffixes
    <2> QED BY <1>1, <2>1, <2>2
  <1> QED BY <1>1, <1>3, <1>4

\* What a flush leaves in a file is of the buffer, whole, or what is left of a line
\* that was there.
LEMMA RestLine ==
    ASSUME NEW f \in Seq(Line), NEW n \in Nat
    PROVE  /\ Rest(f, n) \in Seq(Line)
           /\ \A i \in 1..Len(Rest(f, n)) : \E j \in 1..Len(f) :
                  AccountOf(Rest(f, n)[i]) = AccountOf(f[j])
  <1> DEFINE e == Ends(f)
             beyond == {i \in 1..Len(f) : e[i] > n}
             torn == Min(beyond)
             first == [f[torn] EXCEPT !.cut = @ + (n - e[torn - 1])]
             later == SubSeq(f, torn + 1, Len(f))
  <1>1. e \in [0..Len(f) -> Int] /\ e[0] = 0
    <2>1. \A i \in 1..Len(f), x \in Int : x + Length(f[i]) \in Int
      <3>1. ASSUME NEW i \in 1..Len(f) PROVE Length(f[i]) \in Int
        <4>1. f[i] \in Line
          OBVIOUS
        <4>2. f[i].user \in Users /\ f[i].cut \in Nat
          BY <4>1 DEF Line
        <4>3. Len(f[i].user) \in Nat /\ TailLength \in Nat
          BY <4>2, EndingsAreNames, AccountsAssumption
        <4>4. \A x, y, z \in Nat : 4 * x + y - z \in Int
          OBVIOUS
        <4> QED BY <4>2, <4>3, <4>4, Zenon DEF Length
      <3> QED BY <3>1
    <2>2. 0 \in Int
      OBVIOUS
    <2>3. Ends(f) \in [0..Len(f) -> Int] /\ Ends(f)[0] = 0
      BY <2>1, <2>2, EndsAreNumbers, Zenon
    <2> QED BY <2>3
  <1>2. CASE beyond = {}
    BY <1>2 DEF Rest
  <1>3. CASE beyond # {}
    <2>1. Rest(f, n) = <<first>> \o later
      BY <1>3 DEF Rest
    <2>2. torn \in 1..Len(f) /\ \A i \in beyond : torn <= i
      <3>1. beyond \subseteq Nat /\ beyond \subseteq 1..Len(f)
        OBVIOUS
      <3> HIDE DEF beyond
      <3> QED BY <1>3, <3>1, MinIndex
    <2>3. e[torn - 1] <= n
      <3>1. CASE torn = 1
        BY <1>1, <3>1
      <3>2. CASE torn > 1
        <4>1. torn - 1 \in 1..Len(f) /\ ~(torn <= torn - 1)
          BY <2>2, <3>2
        <4>2. torn - 1 \notin beyond
          BY <2>2, <4>1, Zenon
        <4>3. ~(e[torn - 1] > n)
          BY <4>1, <4>2
        <4>4. e[torn - 1] \in Int
          BY <1>1, <4>1
        <4> QED BY <4>3, <4>4
      <3> HIDE DEF torn
      <3> QED BY <2>2, <3>1, <3>2
    <2> HIDE DEF torn
    <2>4. f[torn] \in Line /\ e[torn - 1] \in Int
      BY <1>1, <2>2
    <2> HIDE DEF e
    <2>5. first \in Line /\ AccountOf(first) = AccountOf(f[torn])
      <3>1. f[torn].cut + (n - e[torn - 1]) \in Nat
        BY <2>3, <2>4 DEF Line
      <3> QED BY <2>4, <3>1 DEF Line, AccountOf
    <2>6. /\ later \in Seq(Line)
          /\ \A i \in 1..Len(later) : \E j \in 1..Len(f) : later[i] = f[j]
      <3>1. \A i \in (torn + 1)..Len(f) : f[i] \in Line
        BY <2>2, ElementOfSeq
      <3>2. /\ later \in Seq(Line)
            /\ Len(later) = IF torn + 1 <= Len(f) THEN Len(f) - (torn + 1) + 1 ELSE 0
            /\ \A i \in 1..(Len(f) - (torn + 1) + 1) : later[i] = f[(torn + 1) + i - 1]
        BY <2>2, <3>1, SubSeqProperties
      <3> HIDE DEF later
      <3>3. ASSUME NEW i \in 1..Len(later) PROVE torn + i \in 1..Len(f) /\ later[i] = f[torn + i]
        BY <2>2, <3>2
      <3> QED BY <3>2, <3>3
    <2> HIDE DEF first, later
    <2>7. /\ <<first>> \o later \in Seq(Line)
          /\ Len(<<first>> \o later) = 1 + Len(later)
          /\ \A i \in 1..(1 + Len(later)) :
                (<<first>> \o later)[i] = IF i <= 1 THEN first ELSE later[i - 1]
      <3>1. <<first>> \in Seq(Line) /\ Len(<<first>>) = 1 /\ <<first>>[1] = first
        BY <2>5
      <3> QED BY <2>6, <3>1
    <2>8. ASSUME NEW i \in 1..(1 + Len(later))
          PROVE  \E j \in 1..Len(f) : AccountOf((<<first>> \o later)[i]) = AccountOf(f[j])
      <3>1. CASE i = 1
        BY <2>2, <2>5, <2>7, <3>1
      <3>2. CASE i > 1
        <4>1. i - 1 \in 1..Len(later) /\ (<<first>> \o later)[i] = later[i - 1]
          BY <2>6, <2>7, <3>2
        <4> QED BY <2>6, <4>1
      <3> QED BY <2>6, <3>1, <3>2
    <2> QED BY <2>1, <2>7, <2>8
  <1> QED BY <1>2, <1>3

LEMMA OverwrittenLine ==
    ASSUME NEW f \in Seq(Line), NEW b \in Seq(Line),
           \A i \in 1..Len(b) : b[i].cut = 0
    PROVE  /\ Overwrite(f, b) \in Seq(Line)
           /\ \A i \in 1..Len(Overwrite(f, b)) :
                 \/ \E j \in 1..Len(b) : AccountOf(Overwrite(f, b)[i]) = AccountOf(b[j])
                 \/ \E j \in 1..Len(f) : AccountOf(Overwrite(f, b)[i]) = AccountOf(f[j])
  <1> DEFINE n == Ends(b)[Len(b)]
             r == Rest(f, n)
  <1>1. n \in Nat
    <2>1. \A i \in 1..Len(b), x \in Nat : x + Length(b[i]) \in Nat
      <3>1. ASSUME NEW i \in 1..Len(b) PROVE Length(b[i]) \in Nat
        <4>1. b[i] \in Line /\ b[i].cut = 0
          OBVIOUS
        <4>2. Len(b[i].user) \in Nat /\ TailLength \in Nat
          BY <4>1, EndingsAreNames, AccountsAssumption DEF Line
        <4>3. \A x, y, z \in Nat : z = 0 => 4 * x + y - z \in Nat
          OBVIOUS
        <4>4. b[i].cut \in Nat
          BY <4>1
        <4> QED BY <4>1, <4>2, <4>3, <4>4, Zenon DEF Length
      <3> QED BY <3>1
    <2>2. 0 \in Nat
      OBVIOUS
    <2>3. Ends(b) \in [0..Len(b) -> Nat] /\ Ends(b)[0] = 0
      BY <2>1, <2>2, EndsAreNumbers, Zenon
    <2> QED BY <2>3
  <1> HIDE DEF n
  <1>2. /\ r \in Seq(Line) /\ Len(r) \in Nat
        /\ \A i \in 1..Len(r) : \E j \in 1..Len(f) : AccountOf(r[i]) = AccountOf(f[j])
    BY <1>1, RestLine
  <1> HIDE DEF r
  <1>3. /\ b \o r \in Seq(Line)
        /\ Len(b \o r) = Len(b) + Len(r)
        /\ \A i \in 1..(Len(b) + Len(r)) :
              (b \o r)[i] = IF i <= Len(b) THEN b[i] ELSE r[i - Len(b)]
    BY <1>2, ConcatProperties
  <1>4. ASSUME NEW i \in 1..Len(b \o r)
        PROVE  \/ \E j \in 1..Len(b) : AccountOf((b \o r)[i]) = AccountOf(b[j])
               \/ \E j \in 1..Len(f) : AccountOf((b \o r)[i]) = AccountOf(f[j])
    <2>1. CASE i <= Len(b)
      BY <1>3, <2>1
    <2>2. CASE i > Len(b)
      <3>1. i - Len(b) \in 1..Len(r) /\ (b \o r)[i] = r[i - Len(b)]
        BY <1>2, <1>3, <2>2
      <3> QED BY <1>2, <3>1
    <2> QED BY <1>3, <2>1, <2>2
  <1> QED BY <1>3, <1>4 DEF Overwrite, r, n

\* A file that is empty is replaced by what is written at its beginning.
LEMMA OverwriteEmpty ==
    ASSUME NEW b \in Seq(Line)
    PROVE  Overwrite(<<>>, b) = b
  <1>1. \A n : Rest(<<>>, n) = <<>>
    BY DEF Rest
  <1> QED BY <1>1 DEF Overwrite

\* A nonempty set of indices has a greatest element, which Max returns.
LEMMA MaxIndex ==
    ASSUME NEW n \in Nat, NEW S \in SUBSET (1..n), S # {}
    PROVE  Max(S) \in S
  <1> DEFINE T == {n - i : i \in S}
  <1>1. T \subseteq Nat /\ T # {}
    OBVIOUS
  <1>2. PICK t \in T : \A y \in T : t <= y
    BY <1>1, Smallest
  <1>3. PICK m \in S : t = n - m
    OBVIOUS
  <1>4. ASSUME NEW i \in S PROVE m >= i
    <2>1. n - i \in T
      OBVIOUS
    <2>2. n - m <= n - i
      BY <1>2, <1>3, <2>1
    <2> QED BY <2>2
  <1>5. \E x \in S : \A y \in S : x >= y
    BY <1>4
  <1> QED BY <1>5 DEF Max

\* What loadUsers returns is in the file: in a whole line of the user, or in what is
\* left of a line of one whose name has that ending.
LEMMA LoadedLine ==
    ASSUME NEW f \in Seq(Line)
    PROVE  /\ Load(f) \in [Users -> Passwords \cup {NoPassword}]
           /\ \A u \in Users : Load(f)[u] # NoPassword
                  => \E i \in 1..Len(f) :
                        /\ f[i].password = Load(f)[u]
                        /\ u \in Suffixes(f[i].user)
                        /\ f[i].cut = 0 => f[i].user = u
  <1>1. ASSUME NEW u \in Users
        PROVE  /\ Load(f)[u] \in Passwords \cup {NoPassword}
               /\ Load(f)[u] # NoPassword
                  => \E i \in 1..Len(f) :
                        /\ f[i].password = Load(f)[u]
                        /\ u \in Suffixes(f[i].user)
                        /\ f[i].cut = 0 => f[i].user = u
    <2> DEFINE lines == {i \in 1..Len(f) : HasThreeParts(f[i]) /\ NameIn(f[i]) = u}
    <2>1. CASE lines = {} \/ ~Readable(f)
      BY <2>1 DEF Load
    <2>2. CASE lines # {} /\ Readable(f)
      <3> DEFINE m == Max(lines)
      <3>1. m \in lines
        <4>1. lines \in SUBSET (1..Len(f)) /\ Len(f) \in Nat
          OBVIOUS
        <4> HIDE DEF lines
        <4> QED BY <2>2, <4>1, MaxIndex
      <3>2. Load(f)[u] = f[m].password
        BY <2>2 DEF Load
      <3> HIDE DEF m
      <3>3. /\ m \in 1..Len(f) /\ HasThreeParts(f[m]) /\ NameIn(f[m]) = u
            /\ f[m] \in Line
        BY <3>1
      <3>4. /\ f[m].password \in Passwords /\ f[m].cut \in Nat
            /\ f[m].user \in Users /\ Len(f[m].user) \in Nat
        BY <3>3, EndingsAreNames DEF Line
      <3>5. u \in Suffixes(f[m].user)
        <4>1. f[m].cut \div 4 + 1 \in 1..(Len(f[m].user) + 1)
          BY <3>3, <3>4 DEF HasThreeParts
        <4> QED BY <3>3, <3>4, <4>1, EndingsAreNames DEF NameIn
      <3>6. f[m].cut = 0 => f[m].user = u
        BY <3>3, <3>4, EndingsAreNames DEF NameIn
      <3> QED BY <3>2, <3>3, <3>4, <3>5, <3>6
    <2> QED BY <2>1, <2>2
  <1>2. Load(f) = [u \in Users |-> Load(f)[u]]
    BY DEF Load
  <1> QED BY <1>1, <1>2

LEMMA AccountsAreFinite ==
    ASSUME NEW table
    PROVE  IsFiniteSet(AccountsIn(table))
  <1> DEFINE R == {v \in Users : table[v] # NoPassword}
             m == [u \in R |-> [user |-> u, password |-> table[u]]]
  <1>1. IsFiniteSet(R)
    BY AccountsAssumption, FS_Subset
  <1>2. m \in Surjection(R, AccountsIn(table))
    BY DEF Surjection, AccountsIn
  <1> QED BY <1>1, <1>2, FS_Surjection

\* What a loop over users_ writes: a whole line for each account, as it is.
Whole(a) == [user |-> a.user, password |-> a.password, cut |-> 0]

LEMMA ListedLine ==
    ASSUME NEW l \in Listings,
           users \in [Users -> Passwords \cup {NoPassword}]
    PROVE  /\ l \in Seq(Line)
           /\ \A i \in 1..Len(l) : AccountOf(l[i]) \in AccountsIn(users) /\ l[i].cut = 0
           /\ \A a \in AccountsIn(users) : \E i \in 1..Len(l) : l[i] = Whole(a)
  <1> DEFINE S == {Whole(a) : a \in AccountsIn(users)}
  <1>1. IsFiniteSet(S)
    <2> DEFINE m == [a \in AccountsIn(users) |-> Whole(a)]
    <2>1. m \in Surjection(AccountsIn(users), S)
      BY DEF Surjection
    <2> HIDE DEF S
    <2> QED BY AccountsAreFinite, <2>1, FS_Surjection
  <1>2. Cardinality(S) \in Nat
    BY <1>1, FS_CardinalityType
  <1>3. \A x \in S : x \in Line /\ AccountOf(x) \in AccountsIn(users) /\ x.cut = 0
    <2>1. ASSUME NEW a \in AccountsIn(users)
          PROVE  Whole(a) \in Line /\ AccountOf(Whole(a)) = a /\ Whole(a).cut = 0
      <3>1. PICK u \in Users : users[u] # NoPassword /\ a = [user |-> u, password |-> users[u]]
        BY DEF AccountsIn
      <3> QED BY <3>1 DEF Whole, AccountOf, Line
    <2> QED BY <2>1
  <1>4. l \in Injection(1..Cardinality(S), S)
    <2>1. l \in SetToSeqs(S)
      BY DEF Listings, Whole
    <2> HIDE DEF S
    <2> QED BY <2>1 DEF SetToSeqs, Injection, IsInjective
  <1> HIDE DEF S
  <1>5. l \in Surjection(1..Cardinality(S), S)
    <2>1. Cardinality(1..Cardinality(S)) = Cardinality(S) /\ IsFiniteSet(1..Cardinality(S))
      BY <1>2, FS_Interval
    <2> QED BY <1>1, <1>4, <2>1, FS_Injection
  <1>6. l \in Seq(S) /\ Len(l) = Cardinality(S)
    BY <1>2, <1>4, SeqDef DEF Injection
  <1>7. l \in Seq(Line)
    BY <1>3, <1>6
  <1>8. \A i \in 1..Len(l) : l[i] \in S
    BY <1>6
  <1>9. \A x \in S : \E i \in 1..Len(l) : l[i] = x
    BY <1>5, <1>6 DEF Surjection
  <1> QED BY <1>3, <1>7, <1>8, <1>9 DEF S
-----------------------------------------------------------------------------
(* Types.  A worker at each place has a request of the kind that leads there. *)

\* What a request is, by its kind.
LEMMA RequestFields ==
    ASSUME NEW r \in Request
    PROVE  /\ r # NoJob
           /\ r.op \in {"register", "login", "change", "logout"}
           /\ r.cookie \in Cookie
           /\ r.op # "logout" => r.user \in Users /\ r.password \in Passwords
           /\ r.op = "change" => r.new \in Passwords
  BY AccountsAssumption DEF Request

JobOK ==
    \A w \in Workers :
        /\ pc[w] # "idle" => job[w] \in Request
        /\ pc[w] = "register" => job[w].op = "register"
        /\ pc[w] = "login" => job[w].op = "login"
        /\ pc[w] = "change" => job[w].op = "change"
        /\ pc[w] = "session" => job[w].op \in {"register", "login"}
        /\ pc[w] \in {"open", "write", "flush"} => job[w].op \in {"register", "change"}
        /\ pc[w] \in {"cookie", "remove"} => job[w].op \in {"change", "logout"}
        /\ pc[w] = "remove" => job[w].cookie \in SessionIds

\* No stream has half a line.
BuffersWhole ==
    \A t \in Threads : \A i \in 1..Len(buffer[t]) : buffer[t][i].cut = 0

TInv == TypeOK /\ JobOK /\ BuffersWhole

LEMMA TypesInit == Init => TInv
  <1> SUFFICES ASSUME Init PROVE TInv
    OBVIOUS
  <1>1. <<>> \in Seq(Line)
    OBVIOUS
  <1>2. /\ users \in [Users -> Passwords \cup {NoPassword}]
        /\ sessions \in [SessionIds -> Users \cup {NoUser}]
        /\ file \in Seq(Line)
        /\ job \in [Workers -> Request \cup {NoJob}]
        /\ buffer \in [Threads -> Seq(Line)]
    BY <1>1 DEF Init, NoAccounts
  <1>3. requests \in 0..MaxRequests /\ restarts \in 0..MaxRestarts
    BY AccountsAssumption DEF Init
  <1>4. TypeOK
    BY <1>2, <1>3 DEF Init, TypeOK
  <1>5. JobOK
    BY DEF Init, JobOK, Threads
  <1>6. BuffersWhole
    BY DEF Init, BuffersWhole
  <1> QED BY <1>4, <1>5, <1>6 DEF TInv

LEMMA TypesWorker ==
    ASSUME TInv, NEW w \in Workers, WorkerStep(w)
    PROVE  TInv'
  <1>0. w \in Threads /\ Workers \subseteq Threads /\ BuffersWhole'
    <2>1. UNCHANGED buffer
      BY DEF WorkerStep, Receive, Register, Login, ChangePassword, CreateSession, CheckCookie,
             RemoveSession
    <2> QED BY <2>1 DEF TInv, BuffersWhole, Threads
  <1> USE <1>0 DEF TInv, TypeOK, JobOK, Goto, Return
  <1>1. pc[w] # "idle" =>
           /\ job[w] \in Request
           /\ job[w].op \in {"register", "login", "change"} =>
                 job[w].user \in Users /\ job[w].password \in Passwords
           /\ job[w].op = "change" => job[w].new \in Passwords
           /\ job[w].cookie \in Cookie
    BY RequestFields
  <1>2. ASSUME NEW r \in Request, Receive(w, r) PROVE TInv'
    <2>1. requests' \in 0..MaxRequests
      BY <1>2, AccountsAssumption DEF Receive
    <2>2. CASE UNCHANGED <<job, pc>>
      BY <1>2, <2>1, <2>2 DEF Receive
    <2>3. CASE /\ r.op \in {"register", "login"}
               /\ Goto(w, r.op) /\ job' = [job EXCEPT ![w] = r]
      BY <1>2, <2>1, <2>3 DEF Receive
    <2>4. CASE r.op = "change" /\ Goto(w, "change") /\ job' = [job EXCEPT ![w] = r]
      BY <1>2, <2>1, <2>4 DEF Receive
    <2>5. CASE r.op = "logout" /\ Goto(w, "cookie") /\ job' = [job EXCEPT ![w] = r]
      BY <1>2, <2>1, <2>5 DEF Receive
    <2> QED BY <1>2, <2>2, <2>3, <2>4, <2>5 DEF Receive
  <1>3. CASE Register(w)
    <2>1. [user |-> job[w].user, password |-> job[w].password] \in Account
      BY <1>1, <1>3 DEF Register, Account
    <2>2. CASE users[job[w].user] # NoPassword
      BY <1>1, <1>3, <2>2 DEF Register
    <2>3. CASE users[job[w].user] = NoPassword
      <3>1. /\ users' = [users EXCEPT ![job[w].user] = job[w].password]
            /\ known' = known \cup {[user |-> job[w].user, password |-> job[w].password]}
            /\ pc' = [pc EXCEPT ![w] = "open"]
            /\ UNCHANGED <<job, sessions, file, buffer, issued, suspect, overlapped, requests, restarts>>
        BY <1>3, <2>3 DEF Register
      <3>2. known' \subseteq Account
        BY <2>1, <3>1
      <3>3. users' \in [Users -> Passwords \cup {NoPassword}]
        BY <1>1, <1>3, <3>1 DEF Register
      <3> QED BY <1>1, <1>3, <3>1, <3>2, <3>3 DEF Register
    <2> QED BY <2>2, <2>3
  <1>4. CASE Login(w)
    <2>1. CASE users[job[w].user] = job[w].password
      BY <1>1, <1>4, <2>1 DEF Login
    <2>2. CASE users[job[w].user] # job[w].password
      BY <1>1, <1>4, <2>2 DEF Login
    <2> QED BY <2>1, <2>2
  <1>5. CASE ChangePassword(w)
    <2>1. [user |-> job[w].user, password |-> job[w].new] \in Account
      BY <1>1, <1>5 DEF ChangePassword, Account
    <2>2. CASE users[job[w].user] = job[w].password
      <3>1. /\ users' = [users EXCEPT ![job[w].user] = job[w].new]
            /\ known' = known \cup {[user |-> job[w].user, password |-> job[w].new]}
            /\ pc' = [pc EXCEPT ![w] = "open"]
            /\ UNCHANGED <<job, sessions, file, buffer, issued, suspect, overlapped, requests, restarts>>
        BY <1>5, <2>2 DEF ChangePassword
      <3>2. known' \subseteq Account
        BY <2>1, <3>1
      <3>3. users' \in [Users -> Passwords \cup {NoPassword}]
        BY <1>1, <1>5, <3>1 DEF ChangePassword
      <3> QED BY <1>1, <1>5, <3>1, <3>2, <3>3 DEF ChangePassword
    <2>3. CASE users[job[w].user] # job[w].password
      BY <1>1, <1>5, <2>3 DEF ChangePassword
    <2> QED BY <2>2, <2>3
  <1>6. CASE CreateSession(w)
    BY <1>1, <1>6 DEF CreateSession
  <1>7. CASE CheckCookie(w)
    <2>1. CASE LoggedIn(job[w].cookie)
      <3>1. job[w].cookie \in SessionIds
        BY <1>1, <1>7, <2>1 DEF CheckCookie, LoggedIn, Cookie
      <3> QED BY <1>1, <1>7, <2>1, <3>1 DEF CheckCookie
    <2>2. CASE ~LoggedIn(job[w].cookie)
      <3>1. /\ pc' = [pc EXCEPT ![w] = "idle"]
            /\ job' = [job EXCEPT ![w] = NoJob]
            /\ UNCHANGED <<users, sessions, file, buffer, issued, known, suspect, overlapped,
                           requests, restarts>>
        BY <1>7, <2>2 DEF CheckCookie
      <3> QED BY <3>1
    <2> QED BY <2>1, <2>2
  <1>8. CASE RemoveSession(w)
    BY <1>1, <1>8 DEF RemoveSession
  <1> QED
    BY <1>2, <1>3, <1>4, <1>5, <1>6, <1>7, <1>8
    DEF WorkerStep

LEMMA TypesSave ==
    ASSUME TInv, NEW t \in Threads, SaveStep(t)
    PROVE  TInv'
  <1> USE DEF TInv, TypeOK, JobOK, Goto
  <1>1. /\ \A w \in Workers : w \in Threads /\ w # Main
        /\ t # Main => t \in Workers
    BY AccountsAssumption DEF Threads
  <1>2. CASE OpenFile(t)
    <2>1. <<>> \in Seq(Line) /\ suspect' \in BOOLEAN
      BY <1>2 DEF OpenFile
    <2> QED BY <1>1, <1>2, <2>1 DEF OpenFile, BuffersWhole
  <1>3. ASSUME NEW l, pc' = [pc EXCEPT ![t] = l],
               l = IF t = Main THEN "done"
                   ELSE IF job[t].op = "register" THEN "session" ELSE "cookie",
               pc[t] \in {"open", "flush"}, UNCHANGED job
        PROVE  JobOK' /\ pc' \in [Threads -> {"idle", "register", "login", "change", "open",
                                            "write", "flush", "session", "cookie", "remove",
                                            "done", "down"}]
    <2>1. CASE t = Main
      BY <1>1, <1>3, <2>1
    <2>2. CASE t \in Workers
      BY <1>1, <1>3, <2>2
    <2> QED BY <1>1, <2>1, <2>2
  <1>4. CASE OpenFails(t)
    BY <1>3, <1>4 DEF OpenFails, Saved, BuffersWhole
  <1>5. CASE WriteBuffer(t)
    <2>1. PICK l \in Listings : buffer' = [buffer EXCEPT ![t] = l]
      BY <1>5 DEF WriteBuffer
    <2>2. l \in Seq(Line) /\ \A i \in 1..Len(l) : l[i].cut = 0
      BY ListedLine
    <2>3. buffer' \in [Threads -> Seq(Line)] /\ BuffersWhole'
      BY <2>1, <2>2 DEF BuffersWhole
    <2> QED BY <1>1, <1>5, <2>3 DEF WriteBuffer
  <1>6. CASE FlushFile(t)
    <2>1. file' \in Seq(Line)
      BY <1>6, OverwrittenLine DEF FlushFile, BuffersWhole
    <2>2. buffer' = [buffer EXCEPT ![t] = <<>>] /\ <<>> \in Seq(Line)
      BY <1>6 DEF FlushFile
    <2>3. buffer' \in [Threads -> Seq(Line)] /\ BuffersWhole'
      BY <2>2 DEF BuffersWhole
    <2> QED BY <1>3, <1>6, <2>1, <2>3 DEF FlushFile, Saved
  <1> QED BY <1>2, <1>4, <1>5, <1>6 DEF SaveStep

\* A new process starts with accounts that were in its file, or none.
LEMMA TypesRestart ==
    ASSUME TInv, Restart \/ RestartUnread
    PROVE  TInv'
  <1>1. users' \in [Users -> Passwords \cup {NoPassword}] /\ suspect' \in BOOLEAN
    BY LoadedLine DEF Restart, RestartUnread, NoAccounts, TInv, TypeOK
  <1>2. PICK main \in {"idle", "down"} : Restarted(main)
    BY DEF Restart, RestartUnread
  <1>3. restarts' \in 0..MaxRestarts
    BY <1>2, AccountsAssumption DEF Restarted, TInv, TypeOK
  <1>4. known' \subseteq Account
    BY <1>1, <1>2 DEF Restarted, AccountsIn, Account, TInv, TypeOK
  <1>5. <<>> \in Seq(Line) /\ Main \notin Workers
    BY AccountsAssumption
  <1>6. JobOK' /\ BuffersWhole'
    BY <1>2, <1>5 DEF Restarted, JobOK, BuffersWhole, Threads
  <1> QED BY <1>1, <1>2, <1>3, <1>4, <1>5, <1>6 DEF Restarted, TInv, TypeOK

LEMMA TypesStep == TInv /\ [Next]_vars => TInv'
  <1> SUFFICES ASSUME TInv, [Next]_vars PROVE TInv'
    OBVIOUS
  <1>1. ASSUME NEW w \in Workers, WorkerStep(w) PROVE TInv'
    BY <1>1, TypesWorker
  <1>2. ASSUME NEW t \in Threads, SaveStep(t) PROVE TInv'
    BY <1>2, TypesSave
  <1>3. CASE Restart \/ RestartUnread
    BY <1>3, TypesRestart
  <1>4. CASE Shutdown
    BY <1>4, AccountsAssumption
    DEF Shutdown, Goto, TInv, TypeOK, JobOK, BuffersWhole, Threads
  <1>5. CASE UNCHANGED vars
    BY <1>5 DEF vars, TInv, TypeOK, JobOK, BuffersWhole
  <1> QED BY <1>1, <1>2, <1>3, <1>4, <1>5 DEF Next

\* The variables of the accounts keep their types, what a restart reads from the
\* file included (user_manager.cpp:192-227).
THEOREM AccountTypes == Spec => []TypeOK
  <1>1. TInv => TypeOK
    BY DEF TInv
  <1> QED BY <1>1, TypesInit, TypesStep, PTL DEF Spec

LEMMA TInvAlways == Spec => []TInv
  BY TypesInit, TypesStep, PTL DEF Spec
-----------------------------------------------------------------------------
(* Sessions.                                                               *)

\* A worker whose user is registered: it has checked, or made, the account, and
\* will create a session when it is through.
Entitled(w) == \/ pc[w] = "session"
               \/ pc[w] \in {"open", "write", "flush"} /\ job[w].op = "register"

SInv ==
    /\ SessionsAreOfUsers
    /\ \A w \in Workers : Entitled(w) => users[job[w].user] # NoPassword
    /\ \A s \in SessionIds : sessions[s] # NoUser => s \in issued

LEMMA SessionsInit == Init => SInv
  BY DEF Init, SInv, SessionsAreOfUsers, Entitled, Threads

\* A step of a worker that registers, and loses, no user.
LEMMA SessionsKept ==
    ASSUME TInv, SInv, NEW w \in Workers,
           \A u \in Users : users[u] # NoPassword => users'[u] # NoPassword,
           UNCHANGED <<sessions, issued>>,
           \A v \in Workers \ {w} : pc'[v] = pc[v] /\ job'[v] = job[v],
           Entitled(w)' => job'[w].user \in Users /\ users'[job'[w].user] # NoPassword
    PROVE  SInv'
  <1>1. \A v \in Workers : Entitled(v) => job[v].user \in Users
    BY RequestFields DEF TInv, TypeOK, JobOK, Entitled
  <1>2. \A s \in SessionIds : sessions[s] \in Users \cup {NoUser}
    BY DEF TInv, TypeOK
  <1>3. \A v \in Workers : Entitled(v)' => users'[job'[v].user] # NoPassword
    BY <1>1 DEF SInv, Entitled
  <1> QED BY <1>2, <1>3 DEF SInv, SessionsAreOfUsers

LEMMA SessionsWorker ==
    ASSUME TInv, SInv, NEW w \in Workers, WorkerStep(w)
    PROVE  SInv'
  <1>1. /\ users \in [Users -> Passwords \cup {NoPassword}]
        /\ sessions \in [SessionIds -> Users \cup {NoUser}]
        /\ job \in [Workers -> Request \cup {NoJob}]
        /\ DOMAIN pc = Threads /\ Workers \subseteq Threads
        /\ pc = [v \in Threads |-> pc[v]]
    BY DEF TInv, TypeOK, Threads
  <1>2. pc[w] # "idle" =>
           /\ job[w] \in Request
           /\ job[w].op \in {"register", "login", "change"} =>
                 job[w].user \in Users /\ job[w].password \in Passwords
           /\ job[w].op = "change" => job[w].new \in Passwords
    BY RequestFields DEF TInv, JobOK
  <1>3. ASSUME NEW r \in Request, Receive(w, r) PROVE SInv'
    <2>1. ~Entitled(w)'
      <3>1. pc'[w] \in {"idle", "register", "login", "change", "cookie"}
        BY <1>1, <1>3 DEF Receive, Goto
      <3> QED BY <3>1 DEF Entitled
    <2>2. \A v \in Workers \ {w} : pc'[v] = pc[v] /\ job'[v] = job[v]
      BY <1>1, <1>3 DEF Receive, Goto
    <2> QED BY <1>3, <2>1, <2>2, SessionsKept DEF Receive
  <1>4. CASE Register(w)
    <2>1. job[w].user \in Users /\ job[w].password # NoPassword
      BY <1>2, <1>4, AccountsAssumption DEF Register, TInv, JobOK
    <2>2. CASE users[job[w].user] # NoPassword
      BY <1>1, <1>4, <2>2, SessionsKept DEF Register, Return, Goto, Entitled
    <2>3. CASE users[job[w].user] = NoPassword
      <3>1. /\ users' = [users EXCEPT ![job[w].user] = job[w].password]
            /\ pc' = [pc EXCEPT ![w] = "open"]
            /\ UNCHANGED <<job, sessions, issued>>
        BY <1>4, <2>3 DEF Register, Goto
      <3>2. users'[job'[w].user] # NoPassword
        BY <1>1, <2>1, <3>1
      <3>3. \A u \in Users : users[u] # NoPassword => users'[u] # NoPassword
        BY <1>1, <2>1, <3>1
      <3> QED BY <1>1, <2>1, <3>1, <3>2, <3>3, SessionsKept
    <2> QED BY <2>2, <2>3
  <1>5. CASE Login(w)
    <2>1. CASE users[job[w].user] = job[w].password
      <3>1. job[w].user \in Users /\ users[job[w].user] # NoPassword
        BY <1>2, <1>5, <2>1, AccountsAssumption DEF Login, TInv, JobOK
      <3>2. /\ pc' = [pc EXCEPT ![w] = "session"]
            /\ UNCHANGED <<users, job, sessions, issued>>
        BY <1>5, <2>1 DEF Login, Goto
      <3> QED BY <1>1, <3>1, <3>2, SessionsKept
    <2>2. CASE users[job[w].user] # job[w].password
      BY <1>1, <1>5, <2>2, SessionsKept DEF Login, Return, Goto, Entitled
    <2> QED BY <2>1, <2>2
  <1>6. CASE ChangePassword(w)
    <2>1. job[w].user \in Users /\ job[w].new # NoPassword /\ job[w].op = "change"
      BY <1>2, <1>6, AccountsAssumption DEF ChangePassword, TInv, JobOK
    <2>2. CASE users[job[w].user] = job[w].password
      <3>1. /\ users' = [users EXCEPT ![job[w].user] = job[w].new]
            /\ pc' = [pc EXCEPT ![w] = "open"]
            /\ UNCHANGED <<job, sessions, issued>>
        BY <1>6, <2>2 DEF ChangePassword, Goto
      <3>2. \A u \in Users : users[u] # NoPassword => users'[u] # NoPassword
        BY <1>1, <2>1, <3>1
      <3>3. ~Entitled(w)'
        BY <1>1, <2>1, <3>1 DEF Entitled
      <3> QED BY <1>1, <3>1, <3>2, <3>3, SessionsKept
    <2>3. CASE users[job[w].user] # job[w].password
      BY <1>1, <1>6, <2>3, SessionsKept DEF ChangePassword, Return, Goto, Entitled
    <2> QED BY <2>2, <2>3
  <1>7. CASE CreateSession(w)
    <2>1. PICK s \in SessionIds \ issued :
             /\ sessions' = [sessions EXCEPT ![s] = job[w].user]
             /\ issued' = issued \cup {s}
      BY <1>7 DEF CreateSession
    <2>2. /\ pc[w] = "session" /\ users' = users
          /\ pc' = [pc EXCEPT ![w] = "idle"] /\ job' = [job EXCEPT ![w] = NoJob]
      BY <1>7 DEF CreateSession, Return, Goto
    <2>3. users[job[w].user] # NoPassword
      BY <2>2 DEF SInv, Entitled
    <2>4. SessionsAreOfUsers'
      BY <1>1, <2>1, <2>2, <2>3 DEF SInv, SessionsAreOfUsers
    <2>5. \A v \in Workers : Entitled(v)' => users'[job'[v].user] # NoPassword
      BY <1>1, <2>2 DEF SInv, Entitled
    <2>6. \A t \in SessionIds : sessions'[t] # NoUser => t \in issued'
      BY <1>1, <2>1 DEF SInv
    <2> QED BY <2>4, <2>5, <2>6 DEF SInv
  <1>8. CASE CheckCookie(w)
    <2>1. ~Entitled(w)'
      BY <1>1, <1>8 DEF CheckCookie, Return, Goto, Entitled
    <2>2. \A v \in Workers \ {w} : pc'[v] = pc[v] /\ job'[v] = job[v]
      BY <1>1, <1>8 DEF CheckCookie, Return, Goto
    <2> QED BY <1>8, <2>1, <2>2, SessionsKept DEF CheckCookie
  <1>9. CASE RemoveSession(w)
    <2>1. /\ sessions' = [sessions EXCEPT ![job[w].cookie] = NoUser]
          /\ pc' = [pc EXCEPT ![w] = "idle"] /\ job' = [job EXCEPT ![w] = NoJob]
          /\ UNCHANGED <<users, issued>>
      BY <1>9 DEF RemoveSession, Return, Goto
    <2>2. \A t \in SessionIds : sessions'[t] # NoUser => sessions'[t] = sessions[t]
      BY <1>1, <2>1
    <2>3. SessionsAreOfUsers'
      BY <2>1, <2>2 DEF SInv, SessionsAreOfUsers
    <2>4. \A v \in Workers : Entitled(v)' => users'[job'[v].user] # NoPassword
      BY <1>1, <2>1 DEF SInv, Entitled
    <2> QED BY <2>1, <2>2, <2>3, <2>4 DEF SInv
  <1> QED
    BY <1>3, <1>4, <1>5, <1>6, <1>7, <1>8, <1>9 DEF WorkerStep

LEMMA SessionsSave ==
    ASSUME TInv, SInv, NEW t \in Threads, SaveStep(t)
    PROVE  SInv'
  <1>1. UNCHANGED <<users, sessions, job, issued>>
    BY DEF SaveStep, OpenFile, OpenFails, WriteBuffer, FlushFile
  <1>2. ASSUME NEW w \in Workers, Entitled(w)' PROVE Entitled(w)
    <2>1. CASE w # t
      <3>1. pc'[w] = pc[w]
        BY <2>1 DEF SaveStep, OpenFile, OpenFails, WriteBuffer, FlushFile, Saved, Goto,
                    TInv, TypeOK, Threads
      <3> QED BY <1>1, <1>2, <3>1 DEF Entitled
    <2>2. CASE w = t
      <3>1. /\ pc[w] \in {"open", "write", "flush"} /\ w # Main
            /\ \E l \in {"write", "flush"} \cup
                      {IF job[w].op = "register" THEN "session" ELSE "cookie"} :
                  pc' = [pc EXCEPT ![w] = l]
        BY <2>2, AccountsAssumption
        DEF SaveStep, OpenFile, OpenFails, WriteBuffer, FlushFile, Saved, Goto
      <3>2. pc'[w] \in {"write", "flush"} \/ (pc'[w] = "session" => job[w].op = "register")
        BY <3>1 DEF TInv, TypeOK, Threads
      <3>3. pc'[w] \in {"write", "flush", "session", "cookie"}
        BY <3>1 DEF TInv, TypeOK, Threads
      <3> QED BY <1>1, <1>2, <3>1, <3>2, <3>3 DEF Entitled
    <2> QED BY <2>1, <2>2
  <1> QED BY <1>1, <1>2 DEF SInv, SessionsAreOfUsers

\* After a restart there are neither sessions nor busy workers.
LEMMA SessionsRestart ==
    ASSUME Restart \/ RestartUnread
    PROVE  SInv'
  <1>1. /\ sessions' = [s \in SessionIds |-> NoUser]
        /\ \A w \in Workers : pc'[w] = "idle"
    BY AccountsAssumption DEF Restart, RestartUnread, Restarted, Threads
  <1> QED BY <1>1 DEF SInv, SessionsAreOfUsers, Entitled

LEMMA SessionsStep == TInv /\ SInv /\ [Next]_vars => SInv'
  <1> SUFFICES ASSUME TInv, SInv, [Next]_vars PROVE SInv'
    OBVIOUS
  <1>1. CASE UNCHANGED vars
    BY <1>1 DEF vars, SInv, SessionsAreOfUsers, Entitled
  <1>2. CASE Shutdown
    <2>1. \A w \in Workers : pc'[w] = pc[w]
      BY <1>2, AccountsAssumption DEF Shutdown, Goto, TInv, TypeOK, Threads
    <2> QED BY <1>2, <2>1 DEF Shutdown, SInv, SessionsAreOfUsers, Entitled
  <1> QED BY <1>1, <1>2, SessionsWorker, SessionsSave, SessionsRestart DEF Next

\* A session is of a registered user, although the password was checked, and the
\* account made, in an earlier critical section (user_manager.cpp:73-76,102-111).
THEOREM SessionsBelongToUsers == Spec => []SessionsAreOfUsers
  <1>1. SInv => SessionsAreOfUsers
    BY DEF SInv
  <1> QED BY <1>1, TInvAlways, SessionsInit, SessionsStep, PTL DEF Spec

LEMMA SInvAlways == Spec => []SInv
  BY TInvAlways, SessionsInit, SessionsStep, PTL DEF Spec
-----------------------------------------------------------------------------
(* The file.                                                               *)

\* Saves that do not overlap write whole lines to an empty file.
Apart ==
    /\ \A i \in 1..Len(file) : file[i].cut = 0
    /\ \A s, t \in Threads : Saving(s) /\ Saving(t) => s = t
    /\ \A t \in Threads : Saving(t) => file = <<>>

KInv ==
    /\ AccountsIn(users) \subseteq known
    /\ \A t \in Threads : \A i \in 1..Len(buffer[t]) : AccountOf(buffer[t][i]) \in known
    /\ \A i \in 1..Len(file) : AccountOf(file[i]) \in known
    /\ ~overlapped => Apart
    /\ overlapped => suspect

LEMMA KnownInit == Init => KInv
  <1> SUFFICES ASSUME Init PROVE KInv
    OBVIOUS
  <1>1. AccountsIn(users) = {}
    BY DEF Init, AccountsIn, NoAccounts
  <1> QED BY <1>1 DEF Init, KInv, Apart, Saving

\* A step that touches neither buffers nor file, and notes what it changes.
LEMMA KnownKept ==
    ASSUME KInv, UNCHANGED <<file, buffer, overlapped>>, known \subseteq known',
           suspect => suspect', AccountsIn(users') \subseteq known',
           \A t \in Threads : Saving(t)' => Saving(t)
    PROVE  KInv'
  <1>1. AccountsIn(users)' = AccountsIn(users')
    BY DEF AccountsIn
  <1>2. ~overlapped' => Apart'
    BY DEF KInv, Apart
  <1>3. /\ \A t \in Threads : \A i \in 1..Len(buffer[t]) : AccountOf(buffer[t][i])' \in known'
        /\ \A i \in 1..Len(file) : AccountOf(file[i])' \in known'
    BY DEF KInv, AccountOf
  <1> QED BY <1>1, <1>2, <1>3 DEF KInv

LEMMA KnownWorker ==
    ASSUME TInv, KInv, NEW w \in Workers, WorkerStep(w)
    PROVE  KInv'
  <1>1. users \in [Users -> Passwords \cup {NoPassword}] /\ w \in Threads
    BY DEF TInv, TypeOK, Threads
  <1>2. UNCHANGED <<file, buffer, suspect, overlapped>>
    BY DEF WorkerStep, Receive, Register, Login, ChangePassword, CreateSession, CheckCookie,
           RemoveSession
  <1>3. ASSUME NEW t \in Threads, Saving(t)' PROVE Saving(t)
    <2>1. \E l \in {"idle", "register", "login", "change", "open", "session", "cookie",
                    "remove"} : pc' = [pc EXCEPT ![w] = l] \/ pc' = pc
      BY DEF WorkerStep, Receive, Register, Login, ChangePassword, CreateSession, CheckCookie,
             RemoveSession, Goto, Return
    <2> QED BY <1>1, <1>3, <2>1 DEF Saving, TInv, TypeOK
  <1>4. known \subseteq known' /\ AccountsIn(users') \subseteq known'
    <2>1. CASE UNCHANGED <<users, known>>
      BY <2>1 DEF KInv, AccountsIn
    <2>2. ASSUME NEW u, NEW p, users' = [users EXCEPT ![u] = p],
                 known' = known \cup {[user |-> u, password |-> p]}
          PROVE  known \subseteq known' /\ AccountsIn(users') \subseteq known'
      BY <1>1, <2>2 DEF KInv, AccountsIn
    <2> QED BY <2>1, <2>2 DEF WorkerStep, Receive, Register, Login, ChangePassword,
                              CreateSession, CheckCookie, RemoveSession
  <1> QED BY <1>2, <1>3, <1>4, KnownKept

LEMMA KnownSave ==
    ASSUME TInv, KInv, NEW t \in Threads, SaveStep(t)
    PROVE  KInv'
  <1>1. /\ users \in [Users -> Passwords \cup {NoPassword}]
        /\ buffer \in [Threads -> Seq(Line)]
        /\ file \in Seq(Line)
        /\ pc = [s \in Threads |-> pc[s]]
    BY DEF TInv, TypeOK
  <1>2. UNCHANGED <<users, known>>
    BY DEF SaveStep, OpenFile, OpenFails, WriteBuffer, FlushFile
  <1>3. AccountsIn(users') \subseteq known'
    BY <1>2 DEF KInv, AccountsIn
  <1>4. CASE OpenFile(t)
    <2>1. /\ file' = <<>> /\ UNCHANGED buffer
          /\ suspect' = (\E s \in Threads : Saving(s)) /\ overlapped' = suspect'
          /\ pc' = [pc EXCEPT ![t] = "write"]
      BY <1>4 DEF OpenFile, Goto
    <2>2. \A s \in Threads : s # t => Saving(s)' = Saving(s)
      BY <1>1, <2>1 DEF Saving
    <2>3. ~overlapped' => Apart'
      BY <2>1, <2>2 DEF Apart
    <2>4. \A s \in Threads : \A i \in 1..Len(buffer[s]) : AccountOf(buffer[s][i])' \in known'
      BY <1>2, <2>1 DEF KInv, AccountOf
    <2>5. AccountsIn(users)' = AccountsIn(users')
      BY DEF AccountsIn
    <2> QED BY <1>2, <1>3, <2>1, <2>3, <2>4, <2>5 DEF KInv
  <1>5. CASE OpenFails(t)
    <2>1. \A s \in Threads : Saving(s)' => Saving(s)
      BY <1>1, <1>5 DEF OpenFails, Saved, Goto, Saving
    <2> QED BY <1>2, <1>3, <1>5, <2>1, KnownKept DEF OpenFails
  <1>6. CASE WriteBuffer(t)
    <2>1. PICK l \in Listings : buffer' = [buffer EXCEPT ![t] = l]
      BY <1>6 DEF WriteBuffer
    <2>2. \A i \in 1..Len(l) : AccountOf(l[i]) \in known
      BY <1>1, ListedLine DEF KInv
    <2>3. \A s \in Threads : \A i \in 1..Len(buffer'[s]) : AccountOf(buffer'[s][i]) \in known
      BY <1>1, <2>1, <2>2 DEF KInv
    <2>4. \A s \in Threads : Saving(s)' = Saving(s)
      BY <1>1, <1>6 DEF WriteBuffer, Goto, Saving
    <2>5. UNCHANGED <<file, suspect, overlapped>>
      BY <1>6 DEF WriteBuffer
    <2>6. ~overlapped' => Apart'
      BY <2>4, <2>5 DEF KInv, Apart
    <2>7. AccountsIn(users)' = AccountsIn(users')
      BY DEF AccountsIn
    <2> QED BY <1>2, <1>3, <2>3, <2>5, <2>6, <2>7 DEF KInv, AccountOf
  <1>7. CASE FlushFile(t)
    <2>1. /\ file' = Overwrite(file, buffer[t]) /\ buffer' = [buffer EXCEPT ![t] = <<>>]
          /\ UNCHANGED <<suspect, overlapped>> /\ pc[t] = "flush" /\ Saved(t)
      BY <1>7 DEF FlushFile
    <2>2. buffer[t] \in Seq(Line) /\ \A i \in 1..Len(buffer[t]) : buffer[t][i].cut = 0
      BY <1>1 DEF TInv, BuffersWhole
    <2>3. \A i \in 1..Len(file') : AccountOf(file'[i]) \in known
      <3> DEFINE o == Overwrite(file, buffer[t])
      <3>1. \A i \in 1..Len(o) :
               \/ \E j \in 1..Len(buffer[t]) : AccountOf(o[i]) = AccountOf(buffer[t][j])
               \/ \E j \in 1..Len(file) : AccountOf(o[i]) = AccountOf(file[j])
        BY <1>1, <2>2, OverwrittenLine
      <3> HIDE DEF o
      <3>2. \A i \in 1..Len(o) : AccountOf(o[i]) \in known
        BY <3>1 DEF KInv
      <3> QED BY <2>1, <3>2 DEF o
    <2>4. \A s \in Threads : \A i \in 1..Len(buffer'[s]) : AccountOf(buffer'[s][i]) \in known
      BY <1>1, <2>1 DEF KInv
    <2>5. ASSUME ~overlapped' PROVE Apart'
      <3>1. Saving(t) /\ ~overlapped
        BY <2>1, <2>5 DEF Saving
      <3>2. file = <<>> /\ \A s \in Threads : Saving(s) => s = t
        BY <3>1 DEF KInv, Apart
      <3>3. file' = buffer[t]
        BY <2>1, <2>2, <3>2, OverwriteEmpty
      <3>4. \A s \in Threads : ~Saving(s)'
        BY <1>1, <2>1, <3>2 DEF Saved, Goto, Saving
      <3> QED BY <2>2, <3>3, <3>4 DEF Apart
    <2>6. AccountsIn(users)' = AccountsIn(users')
      BY DEF AccountsIn
    <2> QED BY <1>2, <1>3, <2>1, <2>3, <2>4, <2>5, <2>6 DEF KInv, AccountOf
  <1> QED BY <1>4, <1>5, <1>6, <1>7 DEF SaveStep

\* What a new process finds is an account from then on.
LEMMA KnownRestart ==
    ASSUME KInv, Restart \/ RestartUnread
    PROVE  KInv'
  <1>1. PICK main \in {"idle", "down"} : Restarted(main)
    BY DEF Restart, RestartUnread
  <1>2. \A t \in Threads : buffer'[t] = <<>> /\ ~Saving(t)'
    BY <1>1 DEF Restarted, Saving
  <1>3. suspect => suspect'
    BY DEF Restart, RestartUnread
  <1>4. known' = known \cup AccountsIn(users') /\ UNCHANGED <<file, overlapped>>
    BY <1>1 DEF Restarted
  <1>5. AccountsIn(users)' = AccountsIn(users')
    BY DEF AccountsIn
  <1>6. \A i \in 1..Len(file) : AccountOf(file[i])' \in known'
    BY <1>4 DEF KInv, AccountOf
  <1>7. ~overlapped' => Apart'
    BY <1>2, <1>4 DEF KInv, Apart
  <1> QED BY <1>2, <1>3, <1>4, <1>5, <1>6, <1>7 DEF KInv

LEMMA KnownStep == TInv /\ KInv /\ [Next]_vars => KInv'
  <1> SUFFICES ASSUME TInv, KInv, [Next]_vars PROVE KInv'
    OBVIOUS
  <1>1. AccountsIn(users) \subseteq known
    BY DEF KInv
  <1>2. CASE Shutdown
    <2>1. \A t \in Threads : Saving(t)' => Saving(t)
      BY <1>2 DEF Shutdown, Goto, Saving, TInv, TypeOK
    <2> QED BY <1>1, <1>2, <2>1, KnownKept DEF Shutdown
  <1>3. CASE UNCHANGED vars
    <2>1. \A t \in Threads : Saving(t)' => Saving(t)
      BY <1>3 DEF vars, Saving
    <2> QED BY <1>1, <1>3, <2>1, KnownKept DEF vars
  <1> QED BY <1>2, <1>3, KnownWorker, KnownSave, KnownRestart DEF Next

LEMMA KnownIsTrue == TInv /\ KInv => FileWasTrue
  <1> SUFFICES ASSUME TInv, KInv PROVE FileWasTrue
    OBVIOUS
  <1>1. ~overlapped => Readable(file)
    BY DEF KInv, Apart, Readable, Decodes
  <1>2. ASSUME NEW u \in Users, Load(file)[u] # NoPassword
        PROVE  \E a \in known : /\ a.password = Load(file)[u]
                                /\ a.user = u \/ (overlapped /\ u \in Suffixes(a.user))
    <2>1. file \in Seq(Line)
      BY DEF TInv, TypeOK
    <2>2. PICK i \in 1..Len(file) :
             /\ file[i].password = Load(file)[u]
             /\ u \in Suffixes(file[i].user)
             /\ file[i].cut = 0 => file[i].user = u
      BY <1>2, <2>1, LoadedLine
    <2> DEFINE a == AccountOf(file[i])
    <2>3. a \in known /\ a.password = file[i].password /\ a.user = file[i].user
      BY DEF KInv, AccountOf
    <2>4. ~overlapped => file[i].cut = 0
      BY DEF KInv, Apart
    <2> QED BY <2>2, <2>3, <2>4
  <1> QED BY <1>1, <1>2 DEF FileWasTrue

\* Whatever a restart reads was an account of users_ once, whenever the process was
\* ended; when saves have overlapped, the password may have come to a name that is an
\* ending of its user's (user_manager.cpp:214-223,229-245).
THEOREM FileLinesWereTrue == Spec => []FileWasTrue
  BY TInvAlways, KnownInit, KnownStep, KnownIsTrue, PTL DEF Spec
-----------------------------------------------------------------------------
(* Who may change what.                                                    *)

\* An account changes only by a request that states its password: registration
\* looks the name up and takes it in one critical section, and changePassword
\* compares and replaces in one (user_manager.cpp:62-67,138-144).
THEOREM AccountsKeptByTheirPassword == Spec => AccountsChangeByTheirPassword
  <1> DEFINE P == \A u \in Users :
                    users[u] # NoPassword /\ users'[u] # users[u] /\ restarts' = restarts
                      => \E w \in Workers : /\ job[w] # NoJob /\ job[w].op = "change"
                                            /\ job[w].user = u
                                            /\ job[w].password = users[u]
                                            /\ users'[u] = job[w].new
  <1>1. ASSUME TInv, [Next]_vars PROVE P
    <2>1. /\ users \in [Users -> Passwords \cup {NoPassword}]
          /\ restarts \in Nat
          /\ \A w \in Workers : pc[w] # "idle" => job[w] \in Request
      BY <1>1, AccountsAssumption DEF TInv, TypeOK, JobOK
    <2>2. ASSUME NEW w \in Workers, ChangePassword(w) PROVE P
      <3>1. job[w] # NoJob /\ job[w].op = "change"
        BY <1>1, <2>1, <2>2, RequestFields DEF ChangePassword, TInv, JobOK
      <3>2. \A u \in Users : users'[u] # users[u]
               => /\ job[w].user = u /\ job[w].password = users[u]
                  /\ users'[u] = job[w].new
        BY <2>1, <2>2 DEF ChangePassword
      <3> QED BY <3>1, <3>2
    <2>3. ASSUME NEW w \in Workers, Register(w) PROVE P
      BY <2>1, <2>3 DEF Register
    <2>4. CASE Restart \/ RestartUnread
      <3>1. restarts' # restarts
        BY <2>1, <2>4 DEF Restart, RestartUnread, Restarted
      <3> QED BY <3>1
    <2>5. ASSUME UNCHANGED users PROVE P
      BY <2>5
    <2> QED
      BY <1>1, <2>2, <2>3, <2>4, <2>5
      DEF Next, WorkerStep, SaveStep, Receive, Login, OpenFile, OpenFails, WriteBuffer,
          FlushFile, CreateSession, CheckCookie, RemoveSession, Shutdown, vars
  <1>2. TInv /\ [Next]_vars => [P]_vars
    BY <1>1
  <1> QED BY <1>2, TInvAlways, PTL DEF Spec, AccountsChangeByTheirPassword

\* A session ends only by a request that carries its id, or with the process: the
\* check of the cookie and the removal are apart, but an id is never used again
\* (user_manager.cpp:153-157,171-175, session_manager.cpp:8-26).
THEOREM SessionsKeptByTheirCookie == Spec => SessionsEndByTheirCookie
  <1> DEFINE Q == \A s \in SessionIds :
                    sessions[s] # NoUser /\ sessions'[s] # sessions[s] /\ restarts' = restarts
                      => \E w \in Workers : /\ job[w] # NoJob /\ job[w].cookie = s
                                            /\ job[w].op \in {"change", "logout"}
  <1>1. ASSUME TInv, SInv, [Next]_vars PROVE Q
    <2>1. /\ sessions \in [SessionIds -> Users \cup {NoUser}]
          /\ restarts \in Nat
          /\ \A w \in Workers : pc[w] # "idle" => job[w] \in Request
      BY <1>1, AccountsAssumption DEF TInv, TypeOK, JobOK
    <2>2. ASSUME NEW w \in Workers, RemoveSession(w) PROVE Q
      <3>1. job[w] # NoJob /\ job[w].op \in {"change", "logout"}
        BY <1>1, <2>1, <2>2, RequestFields DEF RemoveSession, TInv, JobOK
      <3>2. \A s \in SessionIds : sessions'[s] # sessions[s] => job[w].cookie = s
        BY <2>1, <2>2 DEF RemoveSession
      <3> QED BY <3>1, <3>2
    <2>3. ASSUME NEW w \in Workers, CreateSession(w) PROVE Q
      BY <1>1, <2>1, <2>3 DEF CreateSession, SInv
    <2>4. CASE Restart \/ RestartUnread
      <3>1. restarts' # restarts
        BY <2>1, <2>4 DEF Restart, RestartUnread, Restarted
      <3> QED BY <3>1
    <2>5. ASSUME UNCHANGED sessions PROVE Q
      BY <2>5
    <2> QED
      BY <1>1, <2>2, <2>3, <2>4, <2>5
      DEF Next, WorkerStep, SaveStep, Receive, Register, Login, ChangePassword, OpenFile,
          OpenFails, WriteBuffer, FlushFile, CheckCookie, Shutdown, vars
  <1>2. TInv /\ SInv /\ [Next]_vars => [Q]_vars
    BY <1>1
  <1> QED BY <1>2, TInvAlways, SInvAlways, PTL DEF Spec, SessionsEndByTheirCookie
=============================================================================
