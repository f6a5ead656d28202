------------------------------- MODULE Boot_proofs -------------------------------
(***************************************************************************)
(* Proofs about Boot, for every file, any number of cores and addresses,   *)
(* and every call that may fail.                                           *)
(***************************************************************************)
EXTENDS Boot, WellFoundedInduction, TLAPS

(* Before, at and behind the call of init_thread_handler.                  *)
Network == {"configuration", "addresses", "bind", "listen"}
Serving == {"kqueue", "poll"}

CountsOK ==
  /\ cursor \in Nat /\ created \in Nat /\ num_connections \in 0..tasks /\ tasks \in Nat
  /\ candidates \in Nat /\ socket_descriptor \in Nat
  /\ addresses \in Held /\ threads \in Held /\ queue_head \in Held
  /\ fault \in {"none", "port_string", "double_free", "no_queue"}

(* What was acquired on the way, step by step.                             *)
NetworkInv ==
  /\ pc \in {"bind", "listen", "threads", "create"} \cup Serving =>
       port_string = size_t_to_string(config.port)
  /\ pc \in {"listen", "threads", "create"} \cup Serving => socket_descriptor > 0
  /\ pc \in {"threads", "create"} \cup Serving => listening /\ addresses = "freed"

(* The thread array and the queue, on the way in and on every way out: the *)
(* array is freed before main gives up only when the queue never was.      *)
PoolInv ==
  /\ pc \in Network \cup {"threads"} =>
       threads = "none" /\ cursor = 0 /\ created = 0
  /\ pc = "create" => threads = "held"
  /\ pc \in Network \cup {"threads", "create"} => queue_head = "none"
  /\ pc \in Serving => /\ threads = "held" /\ queue_head = "held"
                       /\ cursor = config.num_cores /\ fault = "none"
  /\ created = 0 => num_connections = tasks
  /\ queue_head = "none" => tasks = 0
  /\ pc = "free_threads" /\ threads = "freed" => queue_head = "none"
  /\ queue_head = "freed" => pc \in {"return", "exit"}
  /\ pc \in {"return", "exit"} => queue_head # "held"

(* What main holds, wherever it stands.                                    *)
BootInv == CountsOK /\ NetworkInv /\ PoolInv /\ CleanUpFaults

-----------------------------------------------------------------------------
(* The characters of a piece of a text, and what keeps them a text.        *)
LEMMA TextIs ==
  ASSUME NEW T, NEW m \in Nat, NEW u, u = [i \in 1..m |-> u[i]], \A i \in 1..m : u[i] \in T
  PROVE  u \in Seq(T) /\ Len(u) = m
OBVIOUS

LEMMA Piece ==
  ASSUME NEW s \in Seq(Nat), NEW a \in Nat, NEW b \in Nat, a <= b, b <= Len(s)
  PROVE  /\ SubSeq(s, a + 1, b) \in Seq(Nat) /\ Len(SubSeq(s, a + 1, b)) = b - a
         /\ \A i \in 1..(b - a) : SubSeq(s, a + 1, b)[i] = s[a + i]
         /\ SubSeq(s, a + 1, b) = [i \in 1..(b - a) |-> s[a + i]]
<1> DEFINE m == b - a
           u == SubSeq(s, a + 1, b)
<1>1. m \in Nat /\ Len(s) \in Nat /\ \A i \in 1..m : a + i \in 1..Len(s)
  OBVIOUS
<1>2. u = [i \in 1..m |-> s[a + i]]
  <2>1. u = [i \in 1..(b - (a + 1) + 1) |-> s[a + 1 + i - 1]]
    BY <1>1
  <2>2. b - (a + 1) + 1 = m /\ \A i \in 1..m : a + 1 + i - 1 = a + i
    OBVIOUS
  <2> QED
    BY <2>1, <2>2
<1>3. \A i \in 1..m : s[a + i] \in Nat
  BY <1>1
<1> HIDE DEF u, m
<1>4. /\ u = [i \in 1..m |-> u[i]] /\ \A i \in 1..m : u[i] \in Nat
      /\ \A i \in 1..m : u[i] = s[a + i]
  BY <1>2, <1>3
<1>5. u \in Seq(Nat) /\ Len(u) = m
  BY <1>1, <1>4, TextIs
<1> QED
  BY <1>2, <1>4, <1>5 DEF u, m

LEMMA Starts ==
  ASSUME NEW s \in Seq(Nat), NEW n \in Nat, n <= Len(s)
  PROVE  /\ SubSeq(s, 1, n) \in Seq(Nat) /\ Len(SubSeq(s, 1, n)) = n
         /\ \A i \in 1..n : SubSeq(s, 1, n)[i] = s[i]
<1>1. 0 + 1 = 1 /\ n - 0 = n /\ 0 <= n /\ 0 \in Nat
  OBVIOUS
<1>2. /\ SubSeq(s, 0 + 1, n) \in Seq(Nat) /\ Len(SubSeq(s, 0 + 1, n)) = n - 0
      /\ \A i \in 1..(n - 0) : SubSeq(s, 0 + 1, n)[i] = s[0 + i]
  BY <1>1, Piece
<1>3. \A i \in 1..n : 0 + i = i
  OBVIOUS
<1> QED
  BY <1>1, <1>2, <1>3

(* Every set of naturals has a least element: that < is well founded.      *)
LEMMA LeastElement ==
  ASSUME NEW S, S \subseteq Nat, S # {}
  PROVE  \E n \in S : \A m \in S : m >= n
<1>1. PICK n \in S : \A m \in S : ~(<<m, n>> \in OpToRel(<, Nat))
  BY NatLessThanWellFounded, WFMin
<1>2. \A m \in S : ~(m < n)
  BY <1>1, Zenon DEF OpToRel
<1>3. \A m \in S : m >= n
  BY <1>2
<1> QED
  BY <1>3

(* Induction, for sets of naturals.                                        *)
LEMMA StrongInduction ==
  ASSUME NEW S, \A n \in Nat : (\A m \in 0..(n - 1) : m \in S) => n \in S
  PROVE  \A n \in Nat : n \in S
<1> DEFINE Others == {n \in Nat : n \notin S}
<1> SUFFICES ASSUME Others # {} PROVE FALSE
  OBVIOUS
<1>1. PICK n \in Others : \A m \in Others : m >= n
  BY LeastElement
<1>2. \A m \in 0..(n - 1) : m \in S
  BY <1>1
<1> QED
  BY <1>1, <1>2

LEMMA Induction ==
  ASSUME NEW S, 0 \in S, \A n \in Nat : n \in S => n + 1 \in S
  PROVE  \A n \in Nat : n \in S
<1>1. ASSUME NEW n \in Nat, \A m \in 0..(n - 1) : m \in S PROVE n \in S
  <2>1. CASE n = 0
    BY <2>1
  <2>2. CASE n # 0
    <3>1. n - 1 \in 0..(n - 1) /\ n - 1 \in Nat /\ (n - 1) + 1 = n
      BY <2>2
    <3> QED
      BY <1>1, <3>1
  <2> QED
    BY <2>1, <2>2
<1> QED
  BY <1>1, StrongInduction

(* The last digit, and the others.                                         *)
LEMMA Division ==
  ASSUME NEW n \in Nat
  PROVE  /\ n \div 10 \in Nat /\ n % 10 \in 0..9
         /\ n = 10 * (n \div 10) + (n % 10)
         /\ n >= 10 => n \div 10 < n
<1> DEFINE q == n \div 10
           r == n % 10
<1>1. q \in Int /\ r \in 0..9
  OBVIOUS
<1>2. r = n - 10 * q
  OBVIOUS
<1> HIDE DEF q, r
<1>3. q \in Nat /\ n = 10 * q + r /\ (n >= 10 => q < n)
  BY <1>1, <1>2
<1> QED
  BY <1>1, <1>3 DEF q, r

(* d satisfies the equation of `digits' up to n.                           *)
DigitsUpTo(d, n) ==
  \A k \in 0..n : d[k] = IF k < 10 THEN <<Zero + k>>
                         ELSE Append(d[k \div 10], Zero + (k % 10))

(* The function that `digits' chooses exists: its equation holds.          *)
LEMMA DigitsExist ==
  ASSUME NEW n \in Nat
  PROVE  \E d : DigitsUpTo(d, n)
<1> DEFINE S == {m \in Nat : \E d : DigitsUpTo(d, m)}
<1>1. 0 \in S
  <2> DEFINE d == [k \in {0} |-> <<Zero>>]
  <2>1. DigitsUpTo(d, 0)
    BY DEF DigitsUpTo, Zero
  <2> QED
    BY <2>1
<1>2. ASSUME NEW m \in Nat, m \in S PROVE m + 1 \in S
  <2>1. PICK d : DigitsUpTo(d, m)
    BY <1>2
  <2> DEFINE e == [k \in 0..(m + 1) |-> IF k <= m THEN d[k] ELSE
                     IF k < 10 THEN <<Zero + k>> ELSE Append(d[k \div 10], Zero + (k % 10))]
  <2>2. ASSUME NEW k \in 0..(m + 1), k >= 10
        PROVE  k \div 10 \in 0..m
    BY <2>2, Division
  <2>3. \A k \in 0..(m + 1) : k >= 10 => e[k \div 10] = d[k \div 10]
    BY <2>2
  <2>4. ASSUME NEW k \in 0..(m + 1)
        PROVE e[k] = IF k < 10 THEN <<Zero + k>> ELSE Append(d[k \div 10], Zero + (k % 10))
    BY <2>1 DEF DigitsUpTo
  <2> HIDE DEF e
  <2>5. DigitsUpTo(e, m + 1)
    BY <2>3, <2>4 DEF DigitsUpTo
  <2> QED
    BY <2>5
<1> HIDE DEF S
<1>3. n \in S
  BY <1>1, <1>2, Induction
<1> QED
  BY <1>3 DEF S

LEMMA DigitsUnique ==
  ASSUME NEW n \in Nat, NEW m \in Nat, NEW d, NEW e, DigitsUpTo(d, m), DigitsUpTo(e, n)
  PROVE  \A k \in Nat : k <= m /\ k <= n => d[k] = e[k]
<1> DEFINE S == {k \in Nat : k <= m /\ k <= n => d[k] = e[k]}
<1>1. ASSUME NEW k \in Nat, \A j \in 0..(k - 1) : j \in S PROVE k \in S
  <2> SUFFICES ASSUME k <= m, k <= n PROVE d[k] = e[k]
    OBVIOUS
  <2>0. k \in 0..m /\ k \in 0..n
    OBVIOUS
  <2>1. CASE k < 10
    <3>1. d[k] = <<Zero + k>>
      BY <2>0, <2>1 DEF DigitsUpTo
    <3>2. e[k] = <<Zero + k>>
      BY <2>0, <2>1 DEF DigitsUpTo
    <3> QED
      BY <3>1, <3>2
  <2>2. CASE k >= 10
    <3>1. k \div 10 \in 0..(k - 1)
      BY <2>2, Division
    <3>2. d[k \div 10] = e[k \div 10]
      BY <1>1, <3>1
    <3> QED
      BY <2>0, <2>2, <3>2 DEF DigitsUpTo
  <2> QED
    BY <2>1, <2>2
<1> HIDE DEF S
<1>2. \A k \in Nat : k \in S
  BY <1>1, StrongInduction
<1> QED
  BY <1>2 DEF S

LEMMA DigitsAre ==
  digits = [number \in Nat |-> IF number < 10 THEN <<Zero + number>>
                               ELSE Append(digits[number \div 10], Zero + (number % 10))]
<1> DEFINE all == [n \in Nat |-> (CHOOSE d : DigitsUpTo(d, n))[n]]
<1>1. \A n \in Nat : DigitsUpTo(CHOOSE d : DigitsUpTo(d, n), n)
  BY DigitsExist
<1>2. ASSUME NEW n \in Nat
      PROVE all[n] = IF n < 10 THEN <<Zero + n>> ELSE Append(all[n \div 10], Zero + (n % 10))
  <2>1. PICK d : d = CHOOSE x : DigitsUpTo(x, n)
    OBVIOUS
  <2>2. DigitsUpTo(d, n) /\ all[n] = d[n]
    BY <1>1, <2>1
  <2>3. n >= 10 => all[n \div 10] = d[n \div 10]
    <3> SUFFICES ASSUME n >= 10 PROVE all[n \div 10] = d[n \div 10]
      OBVIOUS
    <3>1. n \div 10 \in Nat /\ n \div 10 <= n
      BY Division
    <3>2. PICK e : e = CHOOSE x : DigitsUpTo(x, n \div 10)
      OBVIOUS
    <3>3. DigitsUpTo(e, n \div 10) /\ all[n \div 10] = e[n \div 10]
      BY <1>1, <3>1, <3>2
    <3> QED
      BY <2>2, <3>1, <3>3, DigitsUnique
  <2> QED
    BY <2>2, <2>3 DEF DigitsUpTo
<1>x. all = [n \in Nat |-> all[n]]
  OBVIOUS
<1> HIDE DEF all
<1>3. all = [number \in Nat |-> IF number < 10 THEN <<Zero + number>>
                                ELSE Append(all[number \div 10], Zero + (number % 10))]
  BY <1>2, <1>x
<1> QED
  BY <1>3, Zenon DEF digits

(* Max over a part of an interval, and over its beginning.                 *)
LEMMA MaxIs ==
  ASSUME NEW n \in Nat, NEW t \in SUBSET (1..n), t # {}
  PROVE  Max(t) \in t /\ \A y \in t : y <= Max(t)
<1> DEFINE below == {n - x : x \in t}
<1>1. below \subseteq Nat /\ below # {}
  <2>1. \A x \in t : n - x \in Nat
    OBVIOUS
  <2>2. PICK x \in t : TRUE
    OBVIOUS
  <2>3. n - x \in below
    OBVIOUS
  <2> QED
    BY <2>1, <2>3
<1>2. PICK b \in below : \A c \in below : c >= b
  BY <1>1, LeastElement
<1>3. PICK x \in t : b = n - x
  BY <1>2
<1>4. ASSUME NEW y \in t PROVE x >= y
  <2>1. n - y \in below
    OBVIOUS
  <2>2. n - y >= n - x
    BY <1>2, <1>3, <2>1
  <2>3. x \in Int /\ y \in Int
    OBVIOUS
  <2> QED
    BY <2>2, <2>3
<1> QED
  BY <1>3, <1>4 DEF Max

LEMMA MaxOfInterval ==
  ASSUME NEW n \in Nat, NEW m \in 0..n, NEW t \in SUBSET (1..n), m + 1 \in t,
         \A y \in t : y <= m + 1
  PROVE  Max(t) = m + 1
<1>1. Max(t) \in t /\ m + 1 <= Max(t)
  BY MaxIs
<1>2. \A y \in t : y <= m + 1 /\ y \in Int
  OBVIOUS
<1>3. \A y \in Int : y <= m + 1 /\ m + 1 <= y => y = m + 1
  OBVIOUS
<1> QED
  BY <1>1, <1>2, <1>3

(* h is the fold of s from the left, by F, over every part of 1..n.        *)
IsFold(h, F, s, n) ==
  h = [t \in SUBSET (1..n) |->
         IF t = {} THEN 0 ELSE F[<<h[t \ {Max(t)}], s[Max(t)]>>]]

(* The function that a fold from the left chooses exists.                  *)
LEMMA FoldExists ==
  ASSUME NEW F \in [Int \X Int -> Int], NEW s, NEW n \in Nat, \A i \in 1..n : s[i] \in Int
  PROVE  \E h \in [SUBSET (1..n) -> Int] : IsFold(h, F, s, n)
<1> DEFINE Folds(m) == \E h \in [SUBSET (1..m) -> Int] : IsFold(h, F, s, m)
           S == {m \in Nat : m <= n => Folds(m)}
<1>1. 0 \in S
  <2> DEFINE h == [t \in SUBSET (1..0) |-> 0]
  <2>1. \A t \in SUBSET (1..0) : t = {}
    OBVIOUS
  <2>2. h = [t \in SUBSET (1..0) |-> IF t = {} THEN 0 ELSE F[<<h[t \ {Max(t)}], s[Max(t)]>>]]
    BY <2>1
  <2>3. h \in [SUBSET (1..0) -> Int]
    OBVIOUS
  <2> HIDE DEF h
  <2>4. IsFold(h, F, s, 0)
    BY <2>2 DEF IsFold
  <2>5. Folds(0)
    BY <2>3, <2>4
  <2> HIDE DEF Folds
  <2> QED
    BY <2>5
<1>2. ASSUME NEW m \in Nat, m \in S PROVE m + 1 \in S
  <2> HIDE DEF Folds
  <2> SUFFICES ASSUME m + 1 <= n PROVE Folds(m + 1)
    OBVIOUS
  <2>0. Folds(m)
    BY <1>2
  <2>1. PICK h \in [SUBSET (1..m) -> Int] : IsFold(h, F, s, m)
    BY <2>0 DEF Folds
  <2> DEFINE g == [t \in SUBSET (1..(m + 1)) |->
                     IF m + 1 \in t THEN F[<<h[t \ {m + 1}], s[m + 1]>>] ELSE h[t]]
  <2>2. ASSUME NEW t \in SUBSET (1..(m + 1)), m + 1 \in t
        PROVE  /\ Max(t) = m + 1 /\ t \ {m + 1} \in SUBSET (1..m)
               /\ g[t] = F[<<g[t \ {Max(t)}], s[Max(t)]>>] /\ g[t] \in Int
    <3>1. Max(t) = m + 1
      BY <2>2, MaxOfInterval
    <3>2. t \ {m + 1} \in SUBSET (1..m) /\ t \ {m + 1} \in SUBSET (1..(m + 1))
      OBVIOUS
    <3>3. g[t \ {m + 1}] = h[t \ {m + 1}] /\ h[t \ {m + 1}] \in Int
      BY <3>2
    <3>4. g[t] = F[<<h[t \ {m + 1}], s[m + 1]>>]
      BY <2>2
    <3>5. s[m + 1] \in Int
      OBVIOUS
    <3> HIDE DEF g
    <3>6. g[t] \in Int
      BY <3>3, <3>4, <3>5
    <3> QED
      BY <3>1, <3>2, <3>3, <3>4, <3>6
  <2>3. ASSUME NEW t \in SUBSET (1..(m + 1)), m + 1 \notin t
        PROVE  /\ g[t] = IF t = {} THEN 0 ELSE F[<<g[t \ {Max(t)}], s[Max(t)]>>]
               /\ g[t] \in Int
    <3>1. t \in SUBSET (1..m) /\ \A x : t \ {x} \in SUBSET (1..m)
      <4>1. ASSUME NEW y \in t PROVE y \in 1..m
        <5>1. y \in 1..(m + 1) /\ y # m + 1
          BY <2>3
        <5> QED
          BY <5>1
      <4> QED
        BY <4>1
    <3>2. g[t] = h[t] /\ h[t] \in Int /\ \A x : g[t \ {x}] = h[t \ {x}]
      BY <2>3, <3>1
    <3>3. h[t] = IF t = {} THEN 0 ELSE F[<<h[t \ {Max(t)}], s[Max(t)]>>]
      BY <2>1, <3>1 DEF IsFold
    <3> HIDE DEF g
    <3> QED
      BY <3>2, <3>3
  <2>4. g = [t \in SUBSET (1..(m + 1)) |-> g[t]]
    OBVIOUS
  <2> HIDE DEF g
  <2>5. IsFold(g, F, s, m + 1)
    <3>1. \A t \in SUBSET (1..(m + 1)) :
            g[t] = IF t = {} THEN 0 ELSE F[<<g[t \ {Max(t)}], s[Max(t)]>>]
      BY <2>2, <2>3
    <3> QED
      BY <2>4, <3>1 DEF IsFold
  <2>6. g \in [SUBSET (1..(m + 1)) -> Int]
    BY <2>2, <2>3, <2>4
  <2> QED
    BY <2>5, <2>6 DEF Folds
<1> HIDE DEF S, Folds
<1>3. n \in S
  BY <1>1, <1>2, Induction
<1>4. Folds(n)
  BY <1>3 DEF S
<1> QED
  BY <1>4 DEF Folds

Steps(h, F, s, n) == \A m \in 0..(n - 1) : h[1..(m + 1)] = F[<<h[1..m], s[m + 1]>>]

(* It takes the elements one by one, from the first.                       *)
LEMMA FoldPrefix ==
  ASSUME NEW n \in Nat, NEW h, NEW F, NEW s, IsFold(h, F, s, n)
  PROVE  h[1..0] = 0 /\ Steps(h, F, s, n)
<1>1. h[1..0] = 0
  <2>1. 1..0 = {} /\ 1..0 \in SUBSET (1..n)
    OBVIOUS
  <2> QED
    BY <2>1 DEF IsFold
<1>2. ASSUME NEW m \in 0..(n - 1) PROVE h[1..(m + 1)] = F[<<h[1..m], s[m + 1]>>]
  <2> DEFINE t == 1..(m + 1)
  <2>1. t \in SUBSET (1..n) /\ t # {} /\ t \ {m + 1} = 1..m
    OBVIOUS
  <2>2. Max(t) = m + 1
    BY <2>1, MaxOfInterval
  <2>3. h[t] = F[<<h[t \ {Max(t)}], s[Max(t)]>>]
    BY <2>1 DEF IsFold
  <2> QED
    BY <2>1, <2>2, <2>3
<1> QED
  BY <1>1, <1>2 DEF Steps

(* It depends on nothing but the elements taken.                           *)
LEMMA FoldsAgree ==
  ASSUME NEW n \in Nat, NEW k \in Nat, n <= k, NEW h, NEW g, NEW F, NEW s, NEW u,
         IsFold(h, F, s, n), IsFold(g, F, u, k), \A i \in 1..n : s[i] = u[i]
  PROVE  h[1..n] = g[1..n]
<1> DEFINE S == {m \in Nat : m <= n => h[1..m] = g[1..m]}
<1>1. 0 \in S
  BY FoldPrefix
<1>2. ASSUME NEW m \in Nat, m \in S PROVE m + 1 \in S
  <2> SUFFICES ASSUME m + 1 <= n PROVE h[1..(m + 1)] = g[1..(m + 1)]
    OBVIOUS
  <2>1. h[1..m] = g[1..m] /\ s[m + 1] = u[m + 1]
    BY <1>2
  <2>2. h[1..(m + 1)] = F[<<h[1..m], s[m + 1]>>]
    BY FoldPrefix DEF Steps
  <2>3. g[1..(m + 1)] = F[<<g[1..m], u[m + 1]>>]
    BY FoldPrefix DEF Steps
  <2> QED
    BY <2>1, <2>2, <2>3
<1> HIDE DEF S
<1>3. n \in S
  BY <1>1, <1>2, Induction
<1> QED
  BY <1>3 DEF S

(* Whatever satisfies the equations of a fold has its value.               *)
Iterates(g, F, s, n) ==
  /\ g[{}] = 0
  /\ \A t \in SUBSET (1..n) : t # {} /\ g[t \ {Max(t)}] \in Int =>
                                    g[t] = F[<<g[t \ {Max(t)}], s[Max(t)]>>]

LEMMA FoldValue ==
  ASSUME NEW n \in Nat, NEW F, NEW s, NEW h \in [SUBSET (1..n) -> Int], IsFold(h, F, s, n),
         NEW g, Iterates(g, F, s, n)
  PROVE  g[1..n] = h[1..n]
<1> DEFINE S == {m \in Nat : m <= n => g[1..m] = h[1..m]}
<1>1. 0 \in S
  <2>1. 1..0 = {}
    OBVIOUS
  <2> QED
    BY <2>1, FoldPrefix DEF Iterates
<1>2. ASSUME NEW m \in Nat, m \in S PROVE m + 1 \in S
  <2> SUFFICES ASSUME m + 1 <= n PROVE g[1..(m + 1)] = h[1..(m + 1)]
    OBVIOUS
  <2> DEFINE t == 1..(m + 1)
  <2>1. t \in SUBSET (1..n) /\ t # {} /\ t \ {m + 1} = 1..m
    OBVIOUS
  <2>2. Max(t) = m + 1
    <3>1. m \in 0..n /\ m + 1 \in t /\ \A y \in t : y <= m + 1
      OBVIOUS
    <3> QED
      BY <2>1, <3>1, MaxOfInterval
  <2>3. g[1..m] = h[1..m]
    BY <1>2
  <2>4. 1..m \in SUBSET (1..n)
    OBVIOUS
  <2> HIDE DEF t
  <2>5. h[t] = F[<<h[1..m], s[m + 1]>>]
    <3>1. h[t] = F[<<h[t \ {Max(t)}], s[Max(t)]>>]
      BY <2>1 DEF IsFold
    <3> QED
      BY <2>1, <2>2, <3>1
  <2>6. g[t] = F[<<g[1..m], s[m + 1]>>]
    <3>1. g[t \ {Max(t)}] = h[1..m] /\ h[1..m] \in Int
      BY <2>1, <2>2, <2>3, <2>4
    <3>2. g[t \ {Max(t)}] \in Int
      BY <3>1
    <3>3. \A r \in SUBSET (1..n) : r # {} /\ g[r \ {Max(r)}] \in Int =>
                                    g[r] = F[<<g[r \ {Max(r)}], s[Max(r)]>>]
      BY DEF Iterates
    <3>4. t \in SUBSET (1..n) /\ t # {}
      BY <2>1
    <3>5. g[t] = F[<<g[t \ {Max(t)}], s[Max(t)]>>]
      BY <3>2, <3>3, <3>4
    <3> QED
      BY <2>1, <2>2, <3>5
  <2> QED
    BY <2>3, <2>5, <2>6 DEF t
<1> HIDE DEF S
<1>3. n \in S
  BY <1>1, <1>2, Induction
<1> QED
  BY <1>3 DEF S

AddsDigit(F) == /\ F \in [Int \X Int -> Int]
                /\ \A v \in Int, c \in Int : F[<<v, c>>] = v * 10 + c - Zero

(* Decimal is such a fold.                                                 *)
LEMMA SomethingAddsDigits == \E F : AddsDigit(F)
<1> DEFINE F == [p \in Int \X Int |-> p[1] * 10 + p[2] - Zero]
<1>1. \A p \in Int \X Int : p[1] * 10 + p[2] - Zero \in Int
  BY DEF Zero
<1>2. AddsDigit(F)
  BY <1>1 DEF AddsDigit
<1> QED
  BY <1>2

LEMMA DecimalIsFold ==
  ASSUME NEW F, AddsDigit(F),
         NEW n \in Nat, NEW s, DOMAIN s = 1..n, \A i \in 1..n : s[i] \in Int
  PROVE  \E h \in [SUBSET (1..n) -> Int] : IsFold(h, F, s, n) /\ Decimal(s) = h[1..n]
<1>1. /\ F \in [Int \X Int -> Int]
      /\ \A v \in Int, c \in Int : F[<<v, c>>] = v * 10 + c - Zero
  BY DEF AddsDigit
<1>2. PICK h \in [SUBSET (1..n) -> Int] : IsFold(h, F, s, n)
  BY <1>1, FoldExists
<1> DEFINE Folded(g) == g = [t \in SUBSET (1..n) |->
                               IF t = {} THEN 0 ELSE g[t \ {Max(t)}] * 10 + s[Max(t)] - Zero]
           iter == CHOOSE g : Folded(g)
<1>3. Folded(h)
  <2>1. ASSUME NEW t \in SUBSET (1..n), t # {}
        PROVE  h[t] = h[t \ {Max(t)}] * 10 + s[Max(t)] - Zero
    <3>1. Max(t) \in 1..n /\ t \ {Max(t)} \in SUBSET (1..n)
      BY <2>1, MaxIs
    <3>2. h[t \ {Max(t)}] \in Int /\ s[Max(t)] \in Int
      BY <3>1
    <3>3. h[t] = F[<<h[t \ {Max(t)}], s[Max(t)]>>]
      BY <1>2, <2>1 DEF IsFold
    <3> QED
      BY <1>1, <3>2, <3>3
  <2>2. \A t \in SUBSET (1..n) : t = {} => h[t] = 0
    BY <1>2 DEF IsFold
  <2> QED
    BY <2>1, <2>2
<1>4. Folded(iter)
  BY <1>3
<1>5. Decimal(s) = iter[1..n]
  BY Zenon DEF Decimal, FoldLeft, MapThenFoldSet
<1> HIDE DEF iter
<1>6. iter[{}] = 0
  BY <1>4
<1>7. ASSUME NEW t \in SUBSET (1..n), t # {}, iter[t \ {Max(t)}] \in Int
      PROVE  iter[t] = F[<<iter[t \ {Max(t)}], s[Max(t)]>>]
  <2>1. s[Max(t)] \in Int
    BY <1>7, MaxIs
  <2> QED
    BY <1>1, <1>4, <1>7, <2>1
<1>8. Iterates(iter, F, s, n)
  BY <1>6, <1>7 DEF Iterates
<1>10. iter[1..n] = h[1..n]
  BY <1>2, <1>8, FoldValue
<1> QED
  BY <1>2, <1>5, <1>10

(* One more digit behind a text.                                           *)
LEMMA DecimalOfAppend ==
  ASSUME NEW s \in Seq(Int), NEW c \in Int
  PROVE  /\ Decimal(s) \in Int
         /\ Decimal(Append(s, c)) = Decimal(s) * 10 + c - Zero
         /\ s = <<>> => Decimal(s) = 0
<1> DEFINE n == Len(s)
           k == n + 1
           u == Append(s, c)
<1>1. /\ n \in Nat /\ DOMAIN s = 1..n /\ \A i \in 1..n : s[i] \in Int
      /\ k \in Nat /\ n <= k /\ DOMAIN u = 1..k /\ \A i \in 1..k : u[i] \in Int
      /\ \A i \in 1..n : s[i] = u[i]
      /\ u[k] = c /\ n \in 0..(k - 1) /\ k = n + 1
  OBVIOUS
<1>8. s = <<>> => n = 0
  OBVIOUS
<1> HIDE DEF n, k, u
<1>2. PICK F : AddsDigit(F)
  BY SomethingAddsDigits
<1>3. PICK h \in [SUBSET (1..n) -> Int] : IsFold(h, F, s, n) /\ Decimal(s) = h[1..n]
  <2>1. n \in Nat /\ DOMAIN s = 1..n /\ \A i \in 1..n : s[i] \in Int
    BY <1>1
  <2> QED
    BY <1>2, <2>1, DecimalIsFold, Zenon
<1>4. PICK g \in [SUBSET (1..k) -> Int] : IsFold(g, F, u, k) /\ Decimal(u) = g[1..k]
  <2>1. k \in Nat /\ DOMAIN u = 1..k /\ \A i \in 1..k : u[i] \in Int
    BY <1>1
  <2> QED
    BY <1>2, <2>1, DecimalIsFold, Zenon
<1>5. h[1..n] = g[1..n]
  <2>1. n \in Nat /\ k \in Nat /\ n <= k /\ \A i \in 1..n : s[i] = u[i]
    BY <1>1
  <2>2. IsFold(h, F, s, n) /\ IsFold(g, F, u, k)
    BY <1>3, <1>4
  <2> QED
    BY <2>1, <2>2, FoldsAgree
<1>6. g[1..k] = F[<<g[1..n], c>>]
  <2>1. IsFold(g, F, u, k) /\ k \in Nat
    BY <1>1, <1>4
  <2>2. \A m \in 0..(k - 1) : g[1..(m + 1)] = F[<<g[1..m], u[m + 1]>>]
    <3>1. Steps(g, F, u, k)
      BY <2>1, FoldPrefix
    <3> QED
      BY <3>1 DEF Steps
  <2> QED
    BY <1>1, <2>2
<1>7. Decimal(s) \in Int
  BY <1>1, <1>3
<1>9. Decimal(u) = Decimal(s) * 10 + c - Zero
  BY <1>1, <1>2, <1>3, <1>4, <1>5, <1>6, <1>7 DEF AddsDigit
<1> QED
  BY <1>1, <1>3, <1>7, <1>8, <1>9, FoldPrefix DEF u

(* The digits of a number say the number.                                  *)
LEMMA DigitsDecimal ==
  ASSUME NEW number \in Nat
  PROVE  /\ digits[number] \in Seq(Digits)
         /\ Decimal(digits[number]) = number
<1> DEFINE S == {n \in Nat : digits[n] \in Seq(Digits) /\ Decimal(digits[n]) = n}
<1>1. ASSUME NEW n \in Nat, \A m \in 0..(n - 1) : m \in S PROVE n \in S
  <2>0. Digits \subseteq Int /\ \A r \in 0..9 : Zero + r \in Digits
    BY DEF Digits, Zero
  <2>00. ASSUME NEW s \in Seq(Digits) PROVE s \in Seq(Int)
    <3>1. Len(s) \in Nat /\ s \in [1..Len(s) -> Digits]
      OBVIOUS
    <3>2. s \in [1..Len(s) -> Int]
      BY <2>0, <3>1
    <3> QED
      BY <3>1, <3>2
  <2>1. CASE n < 10
    <3>1. digits[n] = <<Zero + n>>
      BY <2>1, DigitsAre
    <3>2. <<Zero + n>> = Append(<<>>, Zero + n) /\ Zero + n \in Digits
      BY <2>0, <2>1
    <3>3. Decimal(Append(<<>>, Zero + n)) = 0 * 10 + (Zero + n) - Zero
      <4>1. <<>> \in Seq(Int) /\ Zero + n \in Int
        BY DEF Zero
      <4> QED
        BY <4>1, DecimalOfAppend
    <3>4. 0 * 10 + (Zero + n) - Zero = n
      BY DEF Zero
    <3>5. digits[n] \in Seq(Digits)
      BY <3>1, <3>2
    <3> QED
      BY <3>1, <3>2, <3>3, <3>4, <3>5
  <2>2. CASE n >= 10
    <3>0. digits[n] = Append(digits[n \div 10], Zero + (n % 10))
      <4>1. ~(n < 10)
        BY <2>2
      <4> QED
        BY <4>1, DigitsAre
    <3> DEFINE q == n \div 10
               r == n % 10
    <3>1. q \in 0..(n - 1) /\ r \in 0..9 /\ n = 10 * q + r
      BY <2>2, Division
    <3>2. digits[n] = Append(digits[q], Zero + r)
      BY <3>0
    <3> HIDE DEF q, r
    <3>3. digits[q] \in Seq(Digits) /\ Decimal(digits[q]) = q
      BY <1>1, <3>1
    <3>4. digits[n] \in Seq(Digits)
      BY <2>0, <3>1, <3>2, <3>3
    <3>5. digits[q] \in Seq(Int) /\ Zero + r \in Int
      BY <2>00, <3>1, <3>3 DEF Zero
    <3>6. Decimal(digits[n]) = q * 10 + (Zero + r) - Zero
      BY <3>2, <3>3, <3>5, DecimalOfAppend
    <3>7. Decimal(digits[n]) = n
      BY <3>1, <3>6 DEF Zero
    <3> QED
      BY <3>4, <3>7
  <2> QED
    BY <2>1, <2>2
<1> HIDE DEF S
<1>2. \A n \in Nat : n \in S
  BY <1>1, StrongInduction
<1> QED
  BY <1>2 DEF S

(* The NUL ends them.                                                      *)
LEMMA BeforeNul ==
  ASSUME NEW s \in Seq(Digits)
  PROVE  Before(Append(s, Nul), {Nul}) = s
<1> DEFINE u == Append(s, Nul)
           I == {i \in 1..Len(u) : u[i] \in {Nul}}
<1>1. /\ Len(s) \in Nat /\ Len(u) = Len(s) + 1
      /\ \A i \in 1..Len(s) : u[i] = s[i] /\ s[i] # Nul
      /\ u[Len(s) + 1] = Nul
  BY DEF Digits, Nul, Zero
<1>2. I = {Len(s) + 1}
  BY <1>1
<1>3. Min({Len(s) + 1}) = Len(s) + 1
  BY <1>1 DEF Min
<1>4. SelectInSeq(u, LAMBDA c : c \in {Nul}) = Len(s) + 1
  BY <1>2, <1>3, Zenon DEF SelectInSeq
<1>5. SubSeq(u, 1, Len(s)) = s
  BY <1>1
<1>6. Before(u, {Nul}) = SubSeq(u, 1, (Len(s) + 1) - 1)
  <2>1. Len(s) + 1 # 0
    BY <1>1
  <2> QED
    BY <1>4, <2>1, Zenon DEF Before
<1>7. (Len(s) + 1) - 1 = Len(s)
  BY <1>1
<1> QED
  BY <1>5, <1>6, <1>7, Zenon

TakesDigit(F) == /\ F \in [Int \X Int -> Int]
                 /\ \A v \in Int, c \in Int : /\ F[<<v, c>>] = (v * 10 + (c - Zero)) % WordSize
                                              /\ F[<<v, c>>] \in Nat

(* The parser's conversion is such a fold too, of arithmetic that wraps.   *)
LEMMA SomethingTakesDigits == \E F : TakesDigit(F)
<1> DEFINE F == [p \in Int \X Int |-> (p[1] * 10 + (p[2] - Zero)) % WordSize]
<1>0. WordSize \in Nat \ {0}
  BY ConfigurationAssumption
<1>1. \A i \in Int : i % WordSize \in Nat
  BY <1>0
<1>2. \A p \in Int \X Int : p[1] * 10 + (p[2] - Zero) \in Int
  BY DEF Zero
<1>3. \A p \in Int \X Int : (p[1] * 10 + (p[2] - Zero)) % WordSize \in Nat
  BY <1>1, <1>2
<1>4. F \in [Int \X Int -> Int] /\ \A p \in Int \X Int : F[p] \in Nat
  BY <1>3
<1>5. TakesDigit(F)
  BY <1>4 DEF TakesDigit
<1> QED
  BY <1>5

LEMMA NumberIsFold ==
  ASSUME NEW F, TakesDigit(F),
         NEW n \in Nat, NEW s, DOMAIN s = 1..n, \A i \in 1..n : s[i] \in Int
  PROVE  \E h \in [SUBSET (1..n) -> Int] : IsFold(h, F, s, n) /\ Number(s) = h[1..n]
<1>1. /\ F \in [Int \X Int -> Int]
      /\ \A v \in Int, c \in Int : /\ F[<<v, c>>] = (v * 10 + (c - Zero)) % WordSize
                                   /\ F[<<v, c>>] \in Nat
  BY DEF TakesDigit
<1>2. PICK h \in [SUBSET (1..n) -> Int] : IsFold(h, F, s, n)
  BY <1>1, FoldExists
<1> DEFINE Folded(g) == g = [t \in SUBSET (1..n) |->
                               IF t = {} THEN 0
                               ELSE (g[t \ {Max(t)}] * 10 + (s[Max(t)] - Zero)) % WordSize]
           iter == CHOOSE g : Folded(g)
<1>3. Folded(h)
  <2>1. ASSUME NEW t \in SUBSET (1..n), t # {}
        PROVE  h[t] = (h[t \ {Max(t)}] * 10 + (s[Max(t)] - Zero)) % WordSize
    <3>1. Max(t) \in 1..n /\ t \ {Max(t)} \in SUBSET (1..n)
      BY <2>1, MaxIs
    <3>2. h[t \ {Max(t)}] \in Int /\ s[Max(t)] \in Int
      BY <3>1
    <3>3. h[t] = F[<<h[t \ {Max(t)}], s[Max(t)]>>]
      BY <1>2, <2>1 DEF IsFold
    <3> QED
      BY <1>1, <3>2, <3>3
  <2>2. \A t \in SUBSET (1..n) : t = {} => h[t] = 0
    BY <1>2 DEF IsFold
  <2> QED
    BY <2>1, <2>2
<1>4. Folded(iter)
  BY <1>3
<1>5. Number(s) = iter[1..n]
  BY Zenon DEF Number, FoldLeft, MapThenFoldSet
<1> HIDE DEF iter
<1>6. iter[{}] = 0
  BY <1>4
<1>7. ASSUME NEW t \in SUBSET (1..n), t # {}, iter[t \ {Max(t)}] \in Int
      PROVE  iter[t] = F[<<iter[t \ {Max(t)}], s[Max(t)]>>]
  <2>1. s[Max(t)] \in Int
    BY <1>7, MaxIs
  <2> QED
    BY <1>1, <1>4, <1>7, <2>1
<1>8. Iterates(iter, F, s, n)
  BY <1>6, <1>7 DEF Iterates
<1>10. iter[1..n] = h[1..n]
  BY <1>2, <1>8, FoldValue
<1> QED
  BY <1>2, <1>5, <1>10

LEMMA NumberIsNatural ==
  ASSUME NEW n \in Nat, NEW s, DOMAIN s = 1..n, \A i \in 1..n : s[i] \in Int
  PROVE  Number(s) \in Nat
<1>0. PICK F : TakesDigit(F)
  BY SomethingTakesDigits
<1>1. \A v \in Int, c \in Int : F[<<v, c>>] \in Nat
  BY <1>0 DEF TakesDigit
<1>2. PICK h \in [SUBSET (1..n) -> Int] : IsFold(h, F, s, n) /\ Number(s) = h[1..n]
  BY <1>0, NumberIsFold
<1>9. h[1..n] \in Nat
  <2>1. CASE n = 0
    BY <1>2, <2>1, FoldPrefix
  <2>2. CASE n # 0
    <3> DEFINE m == n - 1
    <3>1. m \in 0..(n - 1) /\ m + 1 = n /\ 1..m \in SUBSET (1..n)
      BY <2>2
    <3> HIDE DEF m
    <3>2. h[1..(m + 1)] = F[<<h[1..m], s[m + 1]>>]
      <4>1. IsFold(h, F, s, n) /\ n \in Nat
        BY <1>2
      <4>2. \A j \in 0..(n - 1) : h[1..(j + 1)] = F[<<h[1..j], s[j + 1]>>]
        <5>1. Steps(h, F, s, n)
          BY <4>1, FoldPrefix
        <5> QED
          BY <5>1 DEF Steps
      <4> QED
        BY <3>1, <4>2
    <3>3. h[1..m] \in Int /\ s[m + 1] \in Int
      BY <3>1
    <3> QED
      BY <1>1, <3>1, <3>2, <3>3
  <2> QED
    BY <2>1, <2>2
<1> QED
  BY <1>2, <1>9

(* A scan stays inside its string.                                         *)
LEMMA BeforeIs ==
  ASSUME NEW s \in Seq(Nat), NEW stops
  PROVE  /\ Before(s, stops) \in Seq(Nat)
         /\ Len(Before(s, stops)) <= Len(s)
         /\ Before(s, stops) # s => Len(Before(s, stops)) < Len(s)
<1> DEFINE I == {i \in 1..Len(s) : s[i] \in stops}
           n == SelectInSeq(s, LAMBDA c : c \in stops)
<1>1. n = IF I # {} THEN Min(I) ELSE 0
  BY Zenon DEF SelectInSeq
<1>2. Len(s) \in Nat /\ I \subseteq 1..Len(s) /\ I \subseteq Nat
  OBVIOUS
<1>3. n \in 0..Len(s)
  <2>1. CASE I = {}
    BY <1>1, <1>2, <2>1
  <2>2. CASE I # {}
    <3>1. \E i \in I : \A j \in I : i <= j
      BY <1>2, <2>2, LeastElement
    <3>2. Min(I) \in I
      BY <3>1 DEF Min
    <3>3. Min(I) \in 1..Len(s)
      BY <1>2, <3>2
    <3>4. n = Min(I)
      BY <1>1, <2>2
    <3> HIDE DEF I, n
    <3> QED
      BY <1>2, <3>3, <3>4
  <2> QED
    BY <2>1, <2>2
<1>4. Before(s, stops) = IF n = 0 THEN s ELSE SubSeq(s, 1, n - 1)
  BY Zenon DEF Before
<1> HIDE DEF n, I
<1>5. n # 0 => /\ SubSeq(s, 1, n - 1) \in Seq(Nat)
               /\ Len(SubSeq(s, 1, n - 1)) = n - 1
  BY <1>3
<1> QED
  BY <1>2, <1>3, <1>4, <1>5

(* What is converted is a natural.                                         *)
LEMMA NumberOfText ==
  ASSUME NEW s \in Seq(Nat)
  PROVE  Number(s) \in Nat
<1>1. Len(s) \in Nat /\ DOMAIN s = 1..Len(s) /\ \A i \in 1..Len(s) : s[i] \in Int
  OBVIOUS
<1> QED
  BY <1>1, NumberIsNatural

(* fgets stays inside the file and the buffer.                             *)
LEMMA TakenIs ==
  ASSUME NEW stream \in Seq(Nat)
  PROVE  Taken(stream) \in 0..Len(stream) /\ Taken(stream) <= MaxFieldLength - 1
<1> DEFINE n == SelectInSeq(stream, LAMBDA c : c = NewLine)
           room == MaxFieldLength - 1
           I == {i \in 1..Len(stream) : stream[i] = NewLine}
<1>1. n = IF I # {} THEN Min(I) ELSE 0
  BY Zenon DEF SelectInSeq
<1>2. Len(stream) \in Nat /\ I \subseteq 1..Len(stream) /\ I \subseteq Nat
  OBVIOUS
<1>3. n \in 0..Len(stream)
  <2>1. CASE I = {}
    BY <1>1, <1>2, <2>1
  <2>2. CASE I # {}
    <3>1. \E i \in I : \A j \in I : i <= j
      BY <1>2, <2>2, LeastElement
    <3>2. Min(I) \in I
      BY <3>1 DEF Min
    <3>3. Min(I) \in 1..Len(stream)
      BY <1>2, <3>2
    <3>4. n = Min(I)
      BY <1>1, <2>2
    <3> HIDE DEF I, n
    <3> QED
      BY <1>2, <3>3, <3>4
  <2> QED
    BY <2>1, <2>2
<1>4. Taken(stream) = IF n \in 1..room THEN n
                      ELSE IF Len(stream) < room THEN Len(stream) ELSE room
  BY Zenon DEF Taken
<1>5. room \in Nat
  BY ConfigurationAssumption
<1> HIDE DEF n, I
<1> QED
  BY <1>2, <1>3, <1>4, <1>5

LEMMA FgetsIs ==
  ASSUME NEW stream \in Seq(Nat), NEW l \in Seq(Nat), Len(l) = MaxFieldLength
  PROVE  Fgets(stream, l) \in Seq(Nat) /\ Len(Fgets(stream, l)) = MaxFieldLength
<1> DEFINE n == Taken(stream)
<1>1. n \in 0..Len(stream) /\ n <= MaxFieldLength - 1 /\ MaxFieldLength \in Nat
  BY TakenIs, ConfigurationAssumption
<1>2. Fgets(stream, l) = SubSeq(stream, 1, n) \o <<Nul>> \o SubSeq(l, n + 2, Len(l))
  BY Zenon DEF Fgets
<1> HIDE DEF n
<1>3. SubSeq(stream, 1, n) \in Seq(Nat) /\ Len(SubSeq(stream, 1, n)) = n
  BY <1>1
<1>4. <<Nul>> \in Seq(Nat) /\ Len(<<Nul>>) = 1
  BY DEF Nul
<1>5. SubSeq(l, n + 2, Len(l)) \in Seq(Nat) /\ Len(SubSeq(l, n + 2, Len(l))) = Len(l) - n - 1
  BY <1>1
<1> QED
  BY <1>1, <1>2, <1>3, <1>4, <1>5

(* What a line is parsed to is never 0.                                    *)
LEMMA ParsedIsPositive ==
  ASSUME NEW l \in Seq(Nat), NEW v \in ParseLine(l), v # Refused
  PROVE  v \in Nat /\ v > 0
<1>1. ASSUME v \in Anything PROVE v \in Nat /\ v > 0
  BY <1>1, ConfigurationAssumption DEF Anything
<1>2. Value(l) \in Seq(Nat)
  <2> DEFINE a == Assignment(l)
  <2>1. Name(l) \in Seq(Nat)
    BY BeforeIs DEF Name
  <2>2. a \in Seq(Nat)
    BY <2>1 DEF Assignment
  <2> HIDE DEF a
  <2>3. SubSeq(a, 3, Len(a)) \in Seq(Nat)
    BY <2>2
  <2> QED
    BY <2>3, BeforeIs DEF Value, a
<1>3. ASSUME v \in ParseValue(Value(l)) PROVE v \in Nat /\ v > 0
  <2> DEFINE t == Value(l)
  <2>1. Number(t) \in Nat
    BY <1>2, NumberOfText
  <2>2. v \in {Refused} \/ v \in Anything \/ (Number(t) # 0 /\ v = Number(t))
    BY <1>3 DEF ParseValue
  <2> QED
    BY <1>1, <2>1, <2>2
<1> QED
  BY <1>1, <1>3 DEF ParseLine

(* The conversion of what fits the cache does not wrap.                    *)
LEMMA NumberIsDecimal ==
  ASSUME NEW s \in Seq(Digits), Len(s) < MaxValueLength
  PROVE  Number(s) = Decimal(s)
<1> DEFINE n == Len(s)
<1>0. \A c \in Digits : c \in Int /\ c - Zero \in 0..9
  BY DEF Digits, Zero
<1>1. /\ n \in Nat /\ DOMAIN s = 1..n /\ n <= MaxValueLength - 1
      /\ \A i \in 1..n : s[i] \in Digits
      /\ \A i \in 1..n : s[i] \in Int
  BY <1>0, ConfigurationAssumption
<1> HIDE DEF n
<1>2. PICK F : AddsDigit(F)
  BY SomethingAddsDigits
<1>12. ASSUME NEW j \in Nat, NEW v, DOMAIN v = 1..j, \A i \in 1..j : v[i] \in Int
       PROVE  \E w \in [SUBSET (1..j) -> Int] : IsFold(w, F, v, j) /\ Decimal(v) = w[1..j]
  BY <1>2, <1>12, DecimalIsFold
<1>3. PICK G : TakesDigit(G)
  BY SomethingTakesDigits
<1>4. PICK h \in [SUBSET (1..n) -> Int] : IsFold(h, F, s, n) /\ Decimal(s) = h[1..n]
  BY <1>1, <1>2, DecimalIsFold
<1>5. PICK g \in [SUBSET (1..n) -> Int] : IsFold(g, G, s, n) /\ Number(s) = g[1..n]
  BY <1>1, <1>3, NumberIsFold
<1>6. \A m \in 0..(n - 1) : h[1..(m + 1)] = F[<<h[1..m], s[m + 1]>>]
  <2>1. Steps(h, F, s, n)
    BY <1>1, <1>4, FoldPrefix
  <2> QED
    BY <2>1 DEF Steps
<1>7. \A m \in 0..(n - 1) : g[1..(m + 1)] = G[<<g[1..m], s[m + 1]>>]
  <2>1. Steps(g, G, s, n)
    BY <1>1, <1>5, FoldPrefix
  <2> QED
    BY <2>1 DEF Steps
<1>8. ASSUME NEW m \in 0..n PROVE h[1..m] < WordSize
  <2> DEFINE u == SubSeq(s, 1, m)
  <2>1. /\ u \in [1..m -> Digits] /\ m \in Nat /\ m <= n /\ DOMAIN u = 1..m
        /\ \A i \in 1..m : u[i] = s[i] /\ u[i] \in Int
    <3>1. n = Len(s) /\ m \in Nat /\ m <= n
      BY <1>1 DEF n
    <3>2. u = [i \in 1..m |-> s[i]]
      BY <1>1, <3>1
    <3>3. \A i \in 1..m : s[i] \in Digits /\ s[i] \in Int
      BY <1>1, <3>1
    <3> HIDE DEF u
    <3> QED
      BY <3>1, <3>2, <3>3
  <2> HIDE DEF u
  <2>2. PICK w \in [SUBSET (1..m) -> Int] : IsFold(w, F, u, m) /\ Decimal(u) = w[1..m]
    <3>1. m \in Nat /\ DOMAIN u = 1..m /\ \A i \in 1..m : u[i] \in Int
      BY <2>1
    <3> QED
      BY <1>12, <3>1
  <2>3. w[1..m] = h[1..m]
    BY <1>1, <1>4, <2>1, <2>2, FoldsAgree
  <2>4. Decimal(u) < WordSize
    BY <1>1, <2>1, ConfigurationAssumption
  <2> QED
    BY <2>2, <2>3, <2>4
<1> DEFINE S == {m \in Nat : m <= n => h[1..m] = g[1..m] /\ h[1..m] \in Nat}
<1>9. 0 \in S
  BY <1>1, <1>4, <1>5, FoldPrefix
<1>10. ASSUME NEW m \in Nat, m \in S PROVE m + 1 \in S
  <2> SUFFICES ASSUME m + 1 <= n
               PROVE  h[1..(m + 1)] = g[1..(m + 1)] /\ h[1..(m + 1)] \in Nat
    OBVIOUS
  <2>1. h[1..m] = g[1..m] /\ h[1..m] \in Nat /\ m \in 0..(n - 1) /\ m + 1 \in 0..n /\ m + 1 \in 1..n
    BY <1>1, <1>10
  <2> DEFINE x == h[1..m]
             y == h[1..(m + 1)]
             c == s[m + 1]
  <2>2. c \in Int /\ c - Zero \in 0..9
    BY <1>0, <1>1, <2>1
  <2>3. y = x * 10 + c - Zero
    <3>1. y = F[<<x, c>>] /\ x \in Int
      BY <1>6, <2>1
    <3> HIDE DEF x, y, c
    <3> QED
      BY <1>2, <2>2, <3>1 DEF AddsDigit
  <2>4. g[1..(m + 1)] = (x * 10 + (c - Zero)) % WordSize
    <3>1. g[1..(m + 1)] = G[<<x, c>>] /\ x \in Int
      BY <1>7, <2>1
    <3> HIDE DEF x, y, c
    <3> QED
      BY <1>3, <2>2, <3>1 DEF TakesDigit
  <2>5. y < WordSize /\ x \in Nat
    BY <1>8, <2>1
  <2> HIDE DEF x, y, c
  <2>6. y = x * 10 + (c - Zero) /\ y \in Nat
    BY <2>2, <2>3, <2>5 DEF Zero
  <2>7. \A i, k \in Nat : i < k => i % k = i
    OBVIOUS
  <2>8. y % WordSize = y
    BY <2>5, <2>6, <2>7, ConfigurationAssumption
  <2> QED
    BY <2>4, <2>6, <2>8 DEF y
<1> HIDE DEF S
<1>11. n \in S
  BY <1>1, <1>9, <1>10, Induction
<1> QED
  BY <1>1, <1>4, <1>5, <1>11 DEF S

-----------------------------------------------------------------------------
(* What ends a name.                                                       *)
Stops == {Blank, NewLine, Return}

LEMMA BeforeAt ==
  ASSUME NEW s \in Seq(Nat), NEW stops, NEW k \in 1..Len(s), s[k] \in stops,
         \A i \in 1..(k - 1) : s[i] \notin stops
  PROVE  Before(s, stops) = SubSeq(s, 1, k - 1)
<1> DEFINE I == {i \in 1..Len(s) : s[i] \in stops}
<1>1. k \in I /\ \A i \in I : k <= i
  OBVIOUS
<1>2. Min(I) \in I /\ \A i \in I : Min(I) <= i
  BY <1>1 DEF Min
<1>3. Min(I) = k
  <2>1. Min(I) \in Int /\ k \in Int
    BY <1>2
  <2> QED
    BY <1>1, <1>2, <2>1
<1>4. SelectInSeq(s, LAMBDA c : c \in stops) = Min(I)
  BY <1>1, Zenon DEF SelectInSeq
<1>5. k # 0
  OBVIOUS
<1> HIDE DEF I
<1> QED
  BY <1>3, <1>4, <1>5, Zenon DEF Before

LEMMA BeforeNone ==
  ASSUME NEW s \in Seq(Nat), NEW stops, \A i \in 1..Len(s) : s[i] \notin stops
  PROVE  Before(s, stops) = s
<1>1. {i \in 1..Len(s) : s[i] \in stops} = {}
  OBVIOUS
<1>2. SelectInSeq(s, LAMBDA c : c \in stops) = 0
  BY <1>1, Zenon DEF SelectInSeq
<1> QED
  BY <1>2, Zenon DEF Before

(* A name is made of characters that stop no scan.                         *)
LEMMA SpellingIs ==
  ASSUME NEW f \in Fields
  PROVE  /\ Spelling[f] \in Seq(Nat) /\ Len(Spelling[f]) \in Nat /\ Len(Spelling[f]) > 1
         /\ \A i \in 1..Len(Spelling[f]) : Spelling[f][i] \notin {Nul, Blank, NewLine, Return}
         /\ \A g \in Fields : Spelling[f] = Spelling[g] => f = g
<1>1. /\ Spelling[f] \in Seq(Nat) /\ Len(Spelling[f]) > 1
      /\ ToSet(Spelling[f]) \cap {Nul, Blank, NewLine, Return} = {}
      /\ \A g \in Fields : Spelling[f] = Spelling[g] => f = g
  BY ConfigurationAssumption
<1>2. ASSUME NEW i \in 1..Len(Spelling[f])
      PROVE  Spelling[f][i] \notin {Nul, Blank, NewLine, Return}
  <2>1. Spelling[f][i] \in ToSet(Spelling[f])
    BY <1>1 DEF ToSet
  <2> QED
    BY <1>1, <2>1
<1> QED
  BY <1>1, <1>2

AssignsAt(t, f, z) ==
  /\ z = Len(Spelling[f]) /\ z + 3 <= Len(t)
  /\ \A i \in 1..z : t[i] = Spelling[f][i]
  /\ t[z + 1] \in {Blank, Return} /\ t[z + 2] = Equals /\ t[z + 3] = Blank

LEMMA AssignsIs ==
  ASSUME NEW t \in Seq(Nat), NEW f \in Fields
  PROVE  Assigns(t, f) <=> AssignsAt(t, f, Len(Spelling[f]))
<1> DEFINE w == Spelling[f]
           z == Len(w)
<1>1. w \in Seq(Nat) /\ z \in Nat
  BY SpellingIs
<1>2. Assigns(t, f) <=> \E c \in {Blank, Return} : IsPrefix(w \o <<c, Equals, Blank>>, t)
  BY DEF Assigns
<1>3. ASSUME NEW c \in {Blank, Return}
      PROVE  IsPrefix(w \o <<c, Equals, Blank>>, t) <=>
               /\ z + 3 <= Len(t)
               /\ \A i \in 1..z : t[i] = w[i]
               /\ t[z + 1] = c /\ t[z + 2] = Equals /\ t[z + 3] = Blank
  <2> DEFINE x == w \o <<c, Equals, Blank>>
  <2>1. /\ x \in Seq(Nat) /\ Len(x) = z + 3
        /\ \A i \in 1..z : x[i] = w[i]
        /\ x[z + 1] = c /\ x[z + 2] = Equals /\ x[z + 3] = Blank
    <3>1. c \in Nat /\ <<c, Equals, Blank>> \in Seq(Nat)
      BY DEF Blank, Return, Equals
    <3> QED
      BY <1>1, <3>1
  <2> HIDE DEF x, w, z
  <2>2. IsPrefix(x, t) <=> Len(x) <= Len(t) /\ SubSeq(x, 1, Len(x)) = SubSeq(t, 1, Len(x))
    BY DEF IsPrefix
  <2>3. Len(x) <= Len(t) =>
          (SubSeq(x, 1, Len(x)) = SubSeq(t, 1, Len(x)) <=> \A i \in 1..(z + 3) : x[i] = t[i])
    <3> SUFFICES ASSUME Len(x) <= Len(t)
                 PROVE  SubSeq(x, 1, Len(x)) = SubSeq(t, 1, Len(x)) <=>
                          \A i \in 1..(z + 3) : x[i] = t[i]
      OBVIOUS
    <3>1. /\ SubSeq(x, 1, Len(x)) = [i \in 1..(z + 3) |-> x[i]]
          /\ SubSeq(t, 1, Len(x)) = [i \in 1..(z + 3) |-> t[i]]
      BY <1>1, <2>1
    <3> QED
      BY <3>1
  <2>4. (\A i \in 1..(z + 3) : x[i] = t[i]) <=>
          /\ \A i \in 1..z : x[i] = t[i]
          /\ x[z + 1] = t[z + 1] /\ x[z + 2] = t[z + 2] /\ x[z + 3] = t[z + 3]
    <3>1. z \in Nat
      BY <1>1 DEF w, z
    <3>2. 1..(z + 3) = (1..z) \cup {z + 1, z + 2, z + 3}
      BY <3>1
    <3> QED
      BY <3>2, Zenon
  <2> QED
    BY <2>1, <2>2, <2>3, <2>4 DEF x
<1> QED
  BY <1>2, <1>3 DEF AssignsAt

(* The buffer holds this line, its end and the NUL behind it.              *)
Holds(l, t) ==
  /\ Len(t) + 2 <= Len(l)
  /\ \A i \in 1..Len(t) : l[i] = t[i] /\ t[i] \notin {NewLine, Nul}
  /\ l[Len(t) + 1] = NewLine /\ l[Len(t) + 2] = Nul

(* k is where the scan for the name stops.                                 *)
NameEnds(l, k) ==
  /\ k \in 1..Len(l) /\ l[k] \in Stops
  /\ \A i \in 1..(k - 1) : l[i] \notin Stops

(* The scan for the name stops inside the line, or at its end.             *)
LEMMA NameIs ==
  ASSUME NEW l \in Seq(Nat), NEW t \in Seq(Nat), Holds(l, t)
  PROVE  \E k \in 1..(Len(t) + 1) :
           /\ NameEnds(l, k)
           /\ Name(l) \in Seq(Nat) /\ Len(Name(l)) = k - 1
           /\ \A i \in 1..(k - 1) : Name(l)[i] = l[i]
           /\ Named(l) = {f \in Fields : Spelling[f] = Name(l)}
<1> DEFINE I == {i \in 1..(Len(t) + 1) : l[i] \in Stops}
<1>0. Len(t) \in Nat /\ Len(l) \in Nat /\ Len(t) + 2 <= Len(l)
  BY DEF Holds
<1>1. Len(t) + 1 \in I
  BY <1>0 DEF Holds, Stops
<1>2. I \subseteq Nat
  BY <1>0
<1>3. PICK k \in I : \A i \in I : i >= k
  BY <1>1, <1>2, LeastElement
<1>4. k \in 1..(Len(t) + 1) /\ l[k] \in Stops /\ \A i \in 1..(k - 1) : l[i] \notin Stops
  BY <1>0, <1>3
<1> HIDE DEF I
<1>5. NameEnds(l, k)
  BY <1>0, <1>4 DEF NameEnds
<1>6. Name(l) = SubSeq(l, 1, k - 1)
  BY <1>5, BeforeAt DEF Name, NameEnds, Stops
<1>7. /\ Name(l) \in Seq(Nat) /\ Len(Name(l)) = k - 1
      /\ \A i \in 1..(k - 1) : Name(l)[i] = l[i]
  <2>1. \A m \in 0..Len(l) : /\ SubSeq(l, 1, m) \in Seq(Nat) /\ Len(SubSeq(l, 1, m)) = m
                             /\ \A i \in 1..m : SubSeq(l, 1, m)[i] = l[i]
    OBVIOUS
  <2>2. k - 1 \in 0..Len(l)
    BY <1>0, <1>4
  <2> QED
    BY <1>6, <2>1, <2>2
<1>8. \A i \in 1..(k - 1) : l[i] # Nul
  <2>1. \A i \in 1..(k - 1) : i \in 1..Len(t)
    BY <1>0, <1>4
  <2> QED
    BY <2>1 DEF Holds
<1>9. \A i \in 1..Len(Name(l)) : Name(l)[i] \notin {Nul}
  BY <1>7, <1>8
<1>10. Before(Name(l), {Nul}) = Name(l)
  BY <1>7, <1>9, BeforeNone
<1> QED
  BY <1>4, <1>5, <1>7, <1>10 DEF Named

(* A line that gives a field is not skipped, and its name is the field's.  *)
LEMMA GivenIsNamed ==
  ASSUME NEW l \in Seq(Nat), NEW t \in Seq(Nat), Holds(l, t), NEW f \in Fields, Assigns(t, f)
  PROVE  ~Skipped(l) /\ Named(l) = {f}
<1>1. PICK k \in 1..(Len(t) + 1) :
        /\ NameEnds(l, k)
        /\ Name(l) \in Seq(Nat) /\ Len(Name(l)) = k - 1
        /\ \A i \in 1..(k - 1) : Name(l)[i] = l[i]
        /\ Named(l) = {g \in Fields : Spelling[g] = Name(l)}
  BY NameIs
<1> DEFINE w == Spelling[f]
           z == Len(w)
<1>2. w \in Seq(Nat) /\ z \in Nat /\ z > 1
      /\ \A i \in 1..z : w[i] \notin Stops
  BY SpellingIs DEF Stops
<1>3. /\ z + 3 <= Len(t) /\ \A i \in 1..z : t[i] = w[i]
      /\ t[z + 1] \in Stops
  BY AssignsIs DEF AssignsAt, Stops
<1> HIDE DEF w, z
<1>4. /\ \A i \in 1..z : l[i] = w[i]
      /\ l[z + 1] \in Stops
  <2>1. Len(t) \in Nat /\ z + 1 \in 1..Len(t) /\ \A i \in 1..z : i \in 1..Len(t)
    BY <1>2, <1>3
  <2> QED
    BY <1>3, <2>1 DEF Holds
<1>5. k = z + 1
  <2>1. ~(k < z + 1)
    BY <1>1, <1>2, <1>4 DEF NameEnds
  <2>2. ~(z + 1 < k)
    BY <1>1, <1>2, <1>4 DEF NameEnds
  <2> QED
    BY <1>2, <2>1, <2>2
<1>6. Name(l) = w
  <2>1. k - 1 = z /\ z = Len(w)
    BY <1>2, <1>5 DEF z
  <2>2. w = [i \in 1..z |-> w[i]]
    BY <1>2, <2>1
  <2>3. Name(l) = [i \in 1..z |-> Name(l)[i]]
    BY <1>1, <2>1
  <2>4. \A i \in 1..z : Name(l)[i] = w[i]
    BY <1>1, <1>4, <2>1
  <2> QED
    BY <2>2, <2>3, <2>4
<1>7. ~Skipped(l)
  BY <1>1, <1>2, <1>5 DEF Skipped
<1>8. f \in Named(l) /\ \A g \in Named(l) : g = f
  BY <1>1, <1>6, SpellingIs DEF w
<1> QED
  BY <1>7, <1>8

(* What has the form that the parser asks for gives the field it names.    *)
LEMMA WellFormedGives ==
  ASSUME NEW l \in Seq(Nat), NEW t \in Seq(Nat), Holds(l, t), WellFormed(l),
         NEW f \in Named(l)
  PROVE  /\ Assigns(t, f) /\ f \in Fields
         /\ Value(l) = Assigned(t, f)
<1>1. PICK k \in 1..(Len(t) + 1) :
        /\ NameEnds(l, k)
        /\ Name(l) \in Seq(Nat) /\ Len(Name(l)) = k - 1
        /\ \A i \in 1..(k - 1) : Name(l)[i] = l[i]
        /\ Named(l) = {g \in Fields : Spelling[g] = Name(l)}
  BY NameIs
<1>0. /\ Len(t) \in Nat /\ Len(l) \in Nat /\ Len(t) + 2 <= Len(l)
      /\ k \in Nat /\ 1 <= k /\ k <= Len(t) + 1
  BY DEF Holds
<1> DEFINE a == Assignment(l)
<1>2. /\ a = SubSeq(l, k + 1, Len(l)) /\ a \in Seq(Nat) /\ Len(a) = Len(l) - k
      /\ \A i \in 1..(Len(l) - k) : a[i] = l[k + i]
  <2>1. a = SubSeq(l, (k - 1) + 2, Len(l))
    BY <1>1 DEF Assignment
  <2>2. (k - 1) + 2 = k + 1 /\ k <= Len(l)
    BY <1>0
  <2>3. a = SubSeq(l, k + 1, Len(l))
    BY <2>1, <2>2
  <2> HIDE DEF a
  <2>4. l \in Seq(Nat) /\ k \in Nat /\ Len(l) \in Nat /\ k <= Len(l) /\ Len(l) <= Len(l)
    BY <1>0, <2>2
  <2>5. /\ SubSeq(l, k + 1, Len(l)) \in Seq(Nat) /\ Len(SubSeq(l, k + 1, Len(l))) = Len(l) - k
        /\ \A i \in 1..(Len(l) - k) : SubSeq(l, k + 1, Len(l))[i] = l[k + i]
    BY <2>4, Piece
  <2> QED
    BY <2>3, <2>5
<1>3. k + 3 <= Len(l) /\ l[k + 1] = Equals /\ l[k + 2] = Blank
  <2>1. PICK d \in Digits : IsPrefix(<<Equals, Blank, d>>, a)
    BY DEF WellFormed
  <2> HIDE DEF a
  <2>2. /\ 3 <= Len(a)
        /\ SubSeq(<<Equals, Blank, d>>, 1, 3) = SubSeq(a, 1, 3)
    BY <2>1 DEF IsPrefix
  <2>3. <<Equals, Blank, d>> \in Seq(Nat)
    BY DEF Equals, Blank, Digits, Zero
  <2>4. /\ SubSeq(<<Equals, Blank, d>>, 1, 3)[1] = Equals
        /\ SubSeq(<<Equals, Blank, d>>, 1, 3)[2] = Blank
    BY <2>3
  <2>5. SubSeq(a, 1, 3)[1] = a[1] /\ SubSeq(a, 1, 3)[2] = a[2]
    <3>1. a \in Seq(Nat) /\ 3 \in Nat /\ 3 <= Len(a)
      BY <1>2, <2>2
    <3>2. \A i \in 1..3 : SubSeq(a, 1, 3)[i] = a[i]
      BY <3>1, Starts
    <3> QED
      BY <3>2
  <2>6. a[1] = Equals /\ a[2] = Blank
    BY <2>2, <2>4, <2>5
  <2>7. 3 <= Len(l) - k
    BY <1>2, <2>2
  <2>8. a[1] = l[k + 1] /\ a[2] = l[k + 2]
    <3>1. 1 \in 1..(Len(l) - k) /\ 2 \in 1..(Len(l) - k)
      BY <1>0, <2>7
    <3> QED
      BY <1>2, <3>1
  <2> QED
    BY <1>0, <2>6, <2>7, <2>8
<1> DEFINE w == Spelling[f]
           z == Len(w)
<1>4. f \in Fields /\ w = Name(l) /\ z = k - 1 /\ \A i \in 1..z : w[i] = l[i]
  BY <1>1
<1>5. k + 2 <= Len(t)
  <2>1. k # Len(t) + 1 /\ k + 1 # Len(t) + 1 /\ k + 2 # Len(t) + 1
    <3>1. k = Len(t) + 1 => k + 1 = Len(t) + 2
      BY <1>0
    <3>2. l[Len(t) + 2] = Nul /\ l[Len(t) + 1] = NewLine
      BY DEF Holds
    <3>3. Equals # Nul /\ Equals # NewLine /\ Blank # NewLine
      BY DEF Equals, Blank, NewLine, Nul
    <3> QED
      BY <1>3, <3>1, <3>2, <3>3
  <2>2. \A x, y \in Nat : x <= y + 1 /\ x # y + 1 /\ x + 1 # y + 1 /\ x + 2 # y + 1
                            => x + 2 <= y
    OBVIOUS
  <2> QED
    BY <1>0, <2>1, <2>2
<1>6. /\ t[k] \in {Blank, Return} /\ t[k + 1] = Equals /\ t[k + 2] = Blank
      /\ \A i \in 1..(k - 1) : t[i] = l[i]
  <2>1. /\ t[k] = l[k] /\ t[k] # NewLine /\ t[k + 1] = l[k + 1] /\ t[k + 2] = l[k + 2]
        /\ \A i \in 1..(k - 1) : t[i] = l[i]
    <3>1. k \in 1..Len(t) /\ k + 1 \in 1..Len(t) /\ k + 2 \in 1..Len(t)
      <4>1. \A x, y \in Nat : 1 <= x /\ x + 2 <= y =>
                              x \in 1..y /\ x + 1 \in 1..y /\ x + 2 \in 1..y
        OBVIOUS
      <4>2. k \in Nat /\ Len(t) \in Nat /\ 1 <= k /\ k + 2 <= Len(t)
        BY <1>0, <1>5
      <4> QED
        BY <4>1, <4>2
    <3>2. \A i \in 1..(k - 1) : i \in 1..Len(t)
      BY <3>1
    <3> QED
      BY <3>1, <3>2 DEF Holds
  <2>2. l[k] \in Stops
    BY <1>1 DEF NameEnds
  <2> QED
    BY <1>3, <2>1, <2>2 DEF Stops
<1>7. Assigns(t, f)
  <2>1. z + 3 = k + 2 /\ z + 2 = k + 1 /\ z + 1 = k
    BY <1>0, <1>4
  <2>2. AssignsAt(t, f, Len(Spelling[f]))
    BY <1>4, <1>5, <1>6, <2>1 DEF AssignsAt
  <2> QED
    BY <1>4, <2>2, AssignsIs
<1>8. Value(l) = Assigned(t, f)
  <2> DEFINE b == SubSeq(l, k + 3, Len(l))
             e == Len(t) - k - 1
  <2>1. SubSeq(a, 3, Len(a)) = b
    <3> DEFINE m == Len(l) - k - 2
    <3>1. m \in Nat /\ Len(a) = m + 2
      BY <1>0, <1>2, <1>3
    <3>2. b = [i \in 1..m |-> l[k + 2 + i]]
      BY <1>0, <1>3
    <3> HIDE DEF a, m
    <3>3. SubSeq(a, 3, Len(a)) = [i \in 1..m |-> a[i + 2]]
      <4>1. a \in Seq(Nat)
        BY <1>2
      <4>2. SubSeq(a, 3, Len(a)) = [i \in 1..(Len(a) - 2) |-> a[i + 2]]
        BY <3>1, <4>1
      <4> QED
        BY <3>1, <4>2
    <3>4. ASSUME NEW i \in 1..m PROVE a[i + 2] = l[k + 2 + i]
      <4>1. i + 2 \in 1..(Len(l) - k) /\ k + (i + 2) = k + 2 + i
        BY <1>0, <3>1 DEF m
      <4> QED
        BY <1>2, <4>1
    <3> HIDE DEF b
    <3> QED
      BY <3>2, <3>3, <3>4
  <2>2. /\ b \in Seq(Nat) /\ Len(b) = Len(l) - k - 2
        /\ \A i \in 1..(Len(l) - k - 2) : b[i] = l[k + 2 + i]
    <3>1. k + 2 \in Nat /\ k + 2 <= Len(l) /\ (k + 2) + 1 = k + 3
      BY <1>0, <1>3
    <3>2. /\ SubSeq(l, (k + 2) + 1, Len(l)) \in Seq(Nat)
          /\ Len(SubSeq(l, (k + 2) + 1, Len(l))) = Len(l) - (k + 2)
          /\ \A i \in 1..(Len(l) - (k + 2)) :
               SubSeq(l, (k + 2) + 1, Len(l))[i] = l[(k + 2) + i]
      BY <1>0, <3>1, Piece
    <3>3. Len(l) - (k + 2) = Len(l) - k - 2
      BY <1>0
    <3> QED
      BY <3>1, <3>2, <3>3
  <2>3. e \in 1..Len(b) /\ b[e] = NewLine /\ \A i \in 1..(e - 1) : b[i] \notin {Nul, NewLine}
    <3>1. e \in 1..Len(b) /\ k + 2 + e = Len(t) + 1
      BY <1>0, <1>5, <2>2
    <3>2. ASSUME NEW i \in 1..(e - 1) PROVE b[i] \notin {Nul, NewLine}
      <4>1. i \in 1..(Len(l) - k - 2) /\ k + 2 + i \in 1..Len(t)
        BY <1>0, <1>5
      <4> QED
        BY <2>2, <4>1 DEF Holds
    <3>3. b[e] = NewLine
      BY <2>2, <3>1 DEF Holds
    <3> QED
      BY <3>1, <3>2, <3>3
  <2> HIDE DEF b, e
  <2>4. Value(l) = SubSeq(b, 1, e - 1)
    BY <2>1, <2>2, <2>3, BeforeAt DEF Value
  <2>5. Assigned(t, f) = SubSeq(t, k + 3, Len(t))
    <3>1. z + 4 = k + 3
      BY <1>0, <1>4
    <3> QED
      BY <1>4, <3>1 DEF Assigned
  <2>6. SubSeq(b, 1, e - 1) = SubSeq(t, k + 3, Len(t))
    <3>1. e - 1 = Len(t) - k - 2 /\ e - 1 \in 0..Len(b)
      BY <1>0, <1>5, <2>3 DEF e
    <3>2. SubSeq(b, 1, e - 1) = [i \in 1..(e - 1) |-> b[i]]
      BY <2>2, <3>1
    <3>3. SubSeq(t, k + 3, Len(t)) = [i \in 1..(e - 1) |-> t[k + 2 + i]]
      BY <1>0, <1>5, <3>1
    <3>4. ASSUME NEW i \in 1..(e - 1) PROVE b[i] = t[k + 2 + i]
      <4>1. i \in Nat /\ 1 <= i /\ i <= Len(t) - k - 2
        BY <1>0, <3>1
      <4>2. i \in 1..(Len(l) - k - 2) /\ k + 2 + i \in 1..Len(t)
        BY <1>0, <1>5, <4>1
      <4> QED
        BY <2>2, <4>2 DEF Holds
    <3> QED
      BY <3>2, <3>3, <3>4
  <2> QED
    BY <2>4, <2>5, <2>6
<1> QED
  BY <1>4, <1>7, <1>8

(* One round of the parser, on a line that the buffer holds.               *)
LEMMA LineParsed ==
  ASSUME NEW l \in Seq(Nat), NEW t \in Seq(Nat), Holds(l, t),
         \A f \in Fields : Assigns(t, f) => Len(Assigned(t, f)) < MaxValueLength
  PROVE  /\ Skipped(l) => \A f \in Fields : ~Assigns(t, f)
         /\ \A v \in ParseLine(l), f \in Fields :
              v # Refused => /\ f \in Named(l) <=> Assigns(t, f)
                             /\ Assigns(t, f) => v = Decimal(Assigned(t, f))
<1>1. Skipped(l) => \A f \in Fields : ~Assigns(t, f)
  BY GivenIsNamed
<1>2. ASSUME NEW v \in ParseLine(l), v # Refused, NEW f \in Fields
      PROVE  /\ f \in Named(l) <=> Assigns(t, f)
             /\ Assigns(t, f) => v = Decimal(Assigned(t, f))
  <2>1. ~LeavesLine(l)
    <3>1. PICK k \in 1..(Len(t) + 1) : Len(Name(l)) = k - 1
      BY NameIs
    <3>2. Len(t) \in Nat /\ Len(l) \in Nat /\ Len(t) + 2 <= Len(l)
      BY DEF Holds
    <3>3. Len(Name(l)) # Len(l)
      BY <3>1, <3>2
    <3> QED
      BY <3>3 DEF LeavesLine
  <2>2. WellFormed(l) /\ v \in ParseValue(Value(l))
    BY <1>2, <2>1 DEF ParseLine
  <2>3. f \in Named(l) <=> Assigns(t, f)
    BY <2>2, WellFormedGives, GivenIsNamed
  <2>4. ASSUME Assigns(t, f) PROVE v = Decimal(Assigned(t, f))
    <3> DEFINE s == Assigned(t, f)
    <3>1. Value(l) = s /\ Len(s) < MaxValueLength
      BY <2>2, <2>3, <2>4, WellFormedGives
    <3>2. s \in Seq(Nat) /\ Len(s) \in Nat /\ MaxValueLength \in Nat
      BY SpellingIs, ConfigurationAssumption DEF Assigned
    <3> HIDE DEF s
    <3>3. ~\E i \in 1..Len(s) : i <= MaxValueLength /\ s[i] \notin Digits
      BY <1>2, <2>2, <3>1 DEF ParseValue
    <3>4. s \in Seq(Digits)
      <4>1. \A i \in 1..Len(s) : s[i] \in Digits
        BY <3>1, <3>2, <3>3
      <4>2. s = [i \in 1..Len(s) |-> s[i]]
        BY <3>2
      <4> QED
        BY <3>2, <4>1, <4>2, TextIs
    <3>5. v = Number(s)
      BY <1>2, <2>2, <3>1, <3>2, <3>3 DEF ParseValue
    <3> QED
      BY <3>1, <3>4, <3>5, NumberIsDecimal DEF s
  <2> QED
    BY <2>3, <2>4
<1> QED
  BY <1>1, <1>2

(* The newest line end in front of e, or 0.                                *)
LEMMA LineBeforeIs ==
  ASSUME NEW s \in Seq(Nat), NEW p \in {0} \cup LineEnds(s), NEW e \in LineEnds(s), p < e,
         \A i \in LineEnds(s) : i < e => i <= p
  PROVE  LineBefore(s, e) = SubSeq(s, p + 1, e - 1)
<1> DEFINE T == {0} \cup {i \in LineEnds(s) : i < e}
<1>1. LineEnds(s) \subseteq Nat
  BY DEF LineEnds
<1>2. p \in T /\ \A i \in T : p >= i
  BY <1>1
<1>3. Max(T) \in T /\ \A i \in T : Max(T) >= i
  BY <1>2 DEF Max
<1>4. Max(T) = p
  <2>1. T \subseteq Int
    BY <1>1
  <2> HIDE DEF T
  <2>2. Max(T) \in Int /\ p \in Int /\ Max(T) >= p /\ p >= Max(T)
    BY <1>2, <1>3, <2>1
  <2> QED
    BY <2>2
<1> QED
  BY <1>4 DEF LineBefore

(* One fgets takes the next line, its end included.                        *)
LEMMA LineRead ==
  ASSUME NEW s \in Seq(Nat), Ordinary(s), NEW p \in {0} \cup LineEnds(s),
         SubSeq(s, p + 1, Len(s)) # <<>>,
         NEW old \in Seq(Nat), Len(old) = MaxFieldLength
  PROVE  LET rest == SubSeq(s, p + 1, Len(s))
             e    == p + Taken(rest)
         IN  /\ e \in LineEnds(s) /\ p < e
             /\ \A i \in LineEnds(s) : i < e => i <= p
             /\ LineBefore(s, e) \in Seq(Nat)
             /\ Holds(Fgets(rest, old), LineBefore(s, e))
<1> DEFINE rest == SubSeq(s, p + 1, Len(s))
           e    == p + Taken(rest)
           l    == Fgets(rest, old)
           I    == {i \in 1..Len(rest) : rest[i] = NewLine}
<1>1. Len(s) \in Nat /\ p \in Nat /\ p <= Len(s)
  BY DEF LineEnds
<1>2. /\ rest \in Seq(Nat) /\ p < Len(s) /\ Len(rest) = Len(s) - p
      /\ \A i \in 1..(Len(s) - p) : rest[i] = s[p + i]
  <2>1. p = Len(s) => SubSeq(s, p + 1, Len(s)) = <<>>
    BY <1>1
  <2>2. p < Len(s)
    BY <1>1, <2>1
  <2> QED
    BY <1>1, <2>2
<1>3. s[Len(s)] = NewLine
  <2>1. s # <<>>
    BY <1>1, <1>2
  <2> QED
    BY <2>1 DEF Ordinary, Last
<1> HIDE DEF rest
<1>4. Len(rest) \in I /\ I \subseteq Nat
  <2>1. Len(rest) \in 1..(Len(s) - p) /\ p + Len(rest) = Len(s)
    BY <1>1, <1>2
  <2>2. rest[Len(rest)] = NewLine /\ Len(rest) \in 1..Len(rest) /\ Len(rest) \in Nat
    <3>1. rest[Len(rest)] = s[p + Len(rest)]
      BY <1>2, <2>1
    <3>2. Len(rest) \in Nat /\ Len(rest) >= 1
      BY <1>1, <1>2
    <3>3. rest[Len(rest)] = NewLine
      BY <1>3, <2>1, <3>1, Zenon
    <3>4. \A m \in Nat : m >= 1 => m \in 1..m
      OBVIOUS
    <3>5. Len(rest) \in 1..Len(rest)
      BY <3>2, <3>4
    <3> QED
      BY <3>2, <3>3, <3>5
  <2>3. Len(rest) \in {i \in 1..Len(rest) : rest[i] = NewLine}
    BY <2>2
  <2>4. I \subseteq Nat
    <3>1. 1..Len(rest) \subseteq Nat
      OBVIOUS
    <3> QED
      BY <3>1
  <2> QED
    BY <2>3, <2>4
<1>5. PICK n \in I : \A i \in I : i >= n
  BY <1>4, LeastElement
<1>6. n \in 1..Len(rest) /\ rest[n] = NewLine /\ \A i \in 1..(n - 1) : rest[i] # NewLine
  <2>1. Len(rest) \in Nat /\ n \in 1..Len(rest) /\ rest[n] = NewLine
    BY <1>1, <1>2, <1>5
  <2>2. ASSUME NEW i \in 1..(n - 1), rest[i] = NewLine PROVE FALSE
    <3>1. i \in I /\ i < n /\ i \in Nat /\ n \in Nat
      BY <2>1, <2>2
    <3>2. i >= n
      BY <1>5, <3>1
    <3> HIDE DEF I
    <3> QED
      BY <3>1, <3>2
  <2> QED
    BY <2>1, <2>2
<1>7. SelectInSeq(rest, LAMBDA c : c = NewLine) = n
  <2>1. Min(I) \in I /\ \A i \in I : Min(I) <= i
    <3>1. n \in I /\ \A i \in I : n <= i
      BY <1>4, <1>5
    <3> HIDE DEF I
    <3> QED
      BY <3>1 DEF Min
  <2>2. Min(I) = n
    <3> HIDE DEF I
    <3>1. Min(I) \in Nat /\ n \in Nat /\ Min(I) <= n /\ Min(I) >= n
      BY <1>4, <1>5, <2>1
    <3> QED
      BY <3>1
  <2>3. SelectInSeq(rest, LAMBDA c : c = NewLine) = IF I # {} THEN Min(I) ELSE 0
    BY Zenon DEF SelectInSeq
  <2> QED
    BY <1>4, <2>2, <2>3
<1> HIDE DEF I
<1> DEFINE x == p + n
<1>8. /\ x \in LineEnds(s) /\ p < x /\ x \in Nat
      /\ \A i \in LineEnds(s) : i < x => i <= p
  <2>0. x \in 1..Len(s) /\ p < x /\ n \in Nat
    <3>1. Len(rest) = Len(s) - p /\ n \in 1..Len(rest)
      BY <1>2, <1>6
    <3>2. n \in Nat /\ 1 <= n /\ n <= Len(s) - p
      BY <1>1, <3>1
    <3> QED
      BY <1>1, <3>2
  <2>1. x \in LineEnds(s)
    <3>1. s[x] = NewLine
      BY <1>1, <1>2, <1>6
    <3> QED
      BY <2>0, <3>1 DEF LineEnds
  <2>2. ASSUME NEW i \in LineEnds(s), i < x, ~(i <= p) PROVE FALSE
    <3>1. i \in 1..Len(s) /\ s[i] = NewLine
      BY DEF LineEnds
    <3> DEFINE j == i - p
    <3>2. j \in 1..(n - 1) /\ j \in 1..(Len(s) - p) /\ p + j = i
      BY <1>1, <1>2, <1>6, <2>0, <2>2, <3>1
    <3> HIDE DEF j
    <3> QED
      BY <1>2, <1>6, <3>1, <3>2
  <2> QED
    BY <2>0, <2>1, <2>2
<1> DEFINE t == LineBefore(s, x)
<1>9. t = SubSeq(s, p + 1, x - 1)
  <2> HIDE DEF x
  <2> QED
    BY <1>8, LineBeforeIs
<1>10. /\ t \in Seq(Nat) /\ Len(t) = n - 1
       /\ \A i \in 1..(n - 1) : t[i] = rest[i]
  <2> HIDE DEF t
  <2>1. n \in Nat /\ 1 <= n /\ n <= Len(s) - p
    BY <1>1, <1>2, <1>6
  <2>5. x - 1 \in Nat /\ p <= x - 1 /\ x - 1 <= Len(s) /\ x - 1 - p = n - 1
    BY <1>1, <2>1
  <2> HIDE DEF x
  <2>6. /\ SubSeq(s, p + 1, x - 1) \in Seq(Nat)
        /\ SubSeq(s, p + 1, x - 1) = [i \in 1..(x - 1 - p) |-> s[p + i]]
    <3> DEFINE y == x - 1
    <3>1. p \in Nat /\ y \in Nat /\ p <= y /\ y <= Len(s)
      BY <1>1, <2>5
    <3> HIDE DEF y
    <3>2. /\ SubSeq(s, p + 1, y) \in Seq(Nat)
          /\ SubSeq(s, p + 1, y) = [i \in 1..(y - p) |-> s[p + i]]
      BY <3>1, Piece
    <3> QED
      BY <3>2 DEF y
  <2>2. SubSeq(s, p + 1, x - 1) = [i \in 1..(n - 1) |-> s[p + i]]
    BY <2>5, <2>6
  <2>3. SubSeq(s, p + 1, x - 1) \in Seq(Nat)
    BY <2>6
  <2>4. \A i \in 1..(n - 1) : i \in 1..(Len(s) - p)
    BY <2>1
  <2> QED
    <3>1. \A i \in 1..(n - 1) : rest[i] = s[p + i]
      BY <1>2, <2>4
    <3>2. t = [i \in 1..(n - 1) |-> s[p + i]] /\ t \in Seq(Nat)
      BY <1>9, <2>2, <2>3
    <3>3. n - 1 \in Nat
      BY <2>1
    <3> QED
      BY <3>1, <3>2, <3>3
<1> HIDE DEF t, x
<1>11. Len(t) < MaxFieldLength - 1 /\ MaxFieldLength \in Nat
  BY <1>8, ConfigurationAssumption DEF Ordinary, t
<1>12. n \in 1..(MaxFieldLength - 1)
  BY <1>6, <1>10, <1>11
<1>13. Taken(rest) = n
  BY <1>7, <1>12, Zenon DEF Taken
<1>14. e = x
  BY <1>13 DEF x
<1>15. /\ Len(l) = MaxFieldLength /\ l \in Seq(Nat)
       /\ \A i \in 1..n : l[i] = rest[i]
       /\ l[n + 1] = Nul
  <2>1. l \in Seq(Nat) /\ Len(l) = MaxFieldLength
    BY <1>2, FgetsIs
  <2> DEFINE a == SubSeq(rest, 1, n)
             b == SubSeq(old, n + 2, Len(old))
  <2>2. l = a \o <<Nul>> \o b
    BY <1>13, Zenon DEF Fgets
  <2>3. a \in Seq(Nat) /\ Len(a) = n /\ \A i \in 1..n : a[i] = rest[i]
    <3>1. rest \in Seq(Nat) /\ n \in Nat /\ n <= Len(rest)
      BY <1>2, <1>6
    <3> QED
      BY <3>1, Starts
  <2>4. b \in Seq(Nat)
    BY <1>12
  <2>5. <<Nul>> \in Seq(Nat) /\ Len(<<Nul>>) = 1 /\ <<Nul>>[1] = Nul
    BY DEF Nul
  <2>6. n \in Nat
    BY <1>12
  <2> HIDE DEF a, b, l
  <2>7. /\ \A i \in 1..n : (a \o <<Nul>> \o b)[i] = a[i]
        /\ (a \o <<Nul>> \o b)[n + 1] = Nul
    <3> DEFINE c == a \o <<Nul>>
    <3>1. /\ c \in Seq(Nat) /\ Len(c) = n + 1 /\ c[n + 1] = Nul
          /\ \A i \in 1..n : c[i] = a[i]
      BY <2>3, <2>5, <2>6
    <3> HIDE DEF c
    <3>2. \A i \in 1..(n + 1) : (c \o b)[i] = c[i]
      BY <2>4, <2>6, <3>1
    <3> QED
      BY <2>6, <3>1, <3>2 DEF c
  <2> QED
    BY <2>1, <2>2, <2>3, <2>7
<1> HIDE DEF l
<1>16. Holds(l, t)
  <2>1. Len(t) + 2 <= Len(l) /\ Len(t) + 1 = n /\ Len(t) + 2 = n + 1
    <3>1. Len(t) = n - 1 /\ Len(l) = MaxFieldLength
      BY <1>10, <1>15
    <3>2. MaxFieldLength \in Nat /\ n \in Nat /\ n <= MaxFieldLength - 1
      BY <1>11, <1>12
    <3> QED
      BY <3>1, <3>2
  <2>2. l[n] = NewLine
    BY <1>6, <1>15
  <2>3. ASSUME NEW i \in 1..(n - 1) PROVE l[i] = t[i] /\ t[i] \notin {NewLine, Nul}
    <3>1. i \in 1..n /\ l[i] = t[i] /\ t[i] # NewLine
      <4>1. i \in 1..n
        BY <1>6
      <4> QED
        BY <1>6, <1>10, <1>15, <4>1
    <3>2. t[i] # Nul
      <4>1. i \in 1..(Len(s) - p) /\ p + i \in 1..Len(s)
        BY <1>1, <1>2, <1>6
      <4>2. t[i] = s[p + i]
        BY <1>2, <1>10, <4>1
      <4>3. s[p + i] \in ToSet(s)
        BY <4>1 DEF ToSet
      <4> QED
        BY <4>2, <4>3 DEF Ordinary
    <3> QED
      BY <3>1, <3>2
  <2> QED
    BY <1>10, <1>15, <2>1, <2>2, <2>3 DEF Holds
<1> QED
  BY <1>8, <1>10, <1>14, <1>16 DEF l, t, rest

-----------------------------------------------------------------------------
(* What the first p characters of a file say.                              *)
GivesUpTo(s, p, f) == {e \in Gives(s, f) : e <= p}

SaidUpTo(s, p, f) ==
  IF GivesUpTo(s, p, f) = {} THEN Defaults[f]
  ELSE Decimal(Assigned(LineBefore(s, Max(GivesUpTo(s, p, f))), f))

LEMMA SaidAtStart ==
  ASSUME NEW s \in Seq(Nat), NEW f \in Fields
  PROVE  SaidUpTo(s, 0, f) = Defaults[f]
<1>1. GivesUpTo(s, 0, f) = {}
  BY DEF GivesUpTo, Gives, LineEnds
<1> QED
  BY <1>1 DEF SaidUpTo

LEMMA SaidAtEnd ==
  ASSUME NEW s \in Seq(Nat), NEW f \in Fields
  PROVE  SaidUpTo(s, Len(s), f) = Said(s, f)
<1>1. GivesUpTo(s, Len(s), f) = Gives(s, f)
  BY DEF GivesUpTo, Gives, LineEnds
<1> QED
  BY <1>1 DEF SaidUpTo, Said

LEMMA SaidOnward ==
  ASSUME NEW s \in Seq(Nat), NEW f \in Fields,
         NEW p \in {0} \cup LineEnds(s), NEW e \in LineEnds(s), p < e,
         \A i \in LineEnds(s) : i < e => i <= p
  PROVE  SaidUpTo(s, e, f) =
           IF Assigns(LineBefore(s, e), f) THEN Decimal(Assigned(LineBefore(s, e), f))
           ELSE SaidUpTo(s, p, f)
<1>0. LineEnds(s) \subseteq Nat /\ Gives(s, f) \subseteq LineEnds(s) /\ p \in Nat /\ e \in Nat
  BY DEF LineEnds, Gives
<1>1. \A i \in LineEnds(s) : i <= e <=> i <= p \/ i = e
  BY <1>0
<1>2. CASE Assigns(LineBefore(s, e), f)
  <2> DEFINE T == GivesUpTo(s, e, f)
  <2>1. e \in T /\ T \subseteq Nat /\ \A i \in T : e >= i
    BY <1>0, <1>2 DEF GivesUpTo, Gives
  <2> HIDE DEF T
  <2>2. Max(T) \in T /\ \A i \in T : Max(T) >= i
    BY <2>1 DEF Max
  <2>3. Max(T) = e
    <3>1. Max(T) \in Nat /\ Max(T) >= e /\ e >= Max(T)
      BY <2>1, <2>2
    <3> QED
      BY <1>0, <3>1
  <2> QED
    BY <1>2, <2>1, <2>3 DEF SaidUpTo, T
<1>3. CASE ~Assigns(LineBefore(s, e), f)
  <2>1. GivesUpTo(s, e, f) = GivesUpTo(s, p, f)
    BY <1>0, <1>1, <1>3 DEF GivesUpTo, Gives
  <2> QED
    BY <1>3, <2>1 DEF SaidUpTo
<1> QED
  BY <1>2, <1>3

(* What getaddrinfo reads from size_t_to_string's string is the number     *)
(* that was put into it, for every number (string_tools.c).                *)
THEOREM StringIsNumber ==
  \A number \in Nat : Decimal(Before(size_t_to_string(number), {Nul})) = number
BY BeforeNul, DigitsDecimal DEF size_t_to_string

-----------------------------------------------------------------------------
LEMMA InitEstablishes == Init => BootInv
BY BootAssumption DEF Init, BootInv, CountsOK, NetworkInv, PoolInv, CleanUpFaults, Held, Network,
   Serving

(* Up to init_thread_handler there is neither a pool nor a queue.          *)
LEMMA NetworkKeeps ==
  ASSUME BootInv,
         ReadLine \/ FetchCores \/ GetLocalAddresses \/ Bind \/ BindFails \/ Listen
  PROVE  BootInv'
<1>1. CASE ReadLine
  <2>1. /\ pc = "configuration" /\ fault = "none" /\ pc' \in {"configuration", "free_threads"}
        /\ UNCHANGED <<port_string, addresses, candidates, socket_descriptor, listening,
                       threads, queue_head, cursor, created, num_connections, tasks, fault>>
    BY <1>1 DEF ReadLine, At, Fail, Goto, net, pool, work
  <2> QED
    BY <2>1 DEF BootInv, CountsOK, NetworkInv, PoolInv, CleanUpFaults, Network, Serving
<1>2. CASE FetchCores
  <2>1. /\ pc = "configuration" /\ fault = "none" /\ pc' \in {"addresses", "free_threads"}
        /\ UNCHANGED <<port_string, addresses, candidates, socket_descriptor, listening,
                       threads, queue_head, cursor, created, num_connections, tasks, fault>>
    BY <1>2 DEF FetchCores, At, Fail, Goto, net, pool, work
  <2> QED
    BY <2>1 DEF BootInv, CountsOK, NetworkInv, PoolInv, CleanUpFaults, Network, Serving
<1>3. CASE GetLocalAddresses
  <2>1. /\ pc = "addresses" /\ fault = "none"
        /\ UNCHANGED <<config, socket_descriptor, listening, threads, queue_head, cursor, created,
                       num_connections, tasks>>
    BY <1>3 DEF GetLocalAddresses, At, pool, work
  <2>2. \/ fault' = "port_string" /\ UNCHANGED <<pc, addresses, candidates>>
        \/ fault' = "none" /\ pc' = "free_threads" /\ UNCHANGED <<addresses, candidates>>
        \/ /\ fault' = "none" /\ pc' = "bind" /\ addresses' = "held" /\ candidates' \in Nat
           /\ port_string' = size_t_to_string(config.port)
    BY <1>3, <2>1, BootAssumption DEF GetLocalAddresses, Fail, Goto
  <2> QED
    BY <2>1, <2>2 DEF BootInv, CountsOK, NetworkInv, PoolInv, CleanUpFaults, Network, Serving,
       Held
<1>4. CASE Bind
  <2>1. /\ pc = "bind" /\ fault = "none" /\ pc' = "listen"
        /\ socket_descriptor' = candidates /\ candidates > 0
        /\ UNCHANGED <<config, port_string, addresses, candidates, listening,
                       threads, queue_head, cursor, created, num_connections, tasks, fault>>
    BY <1>4 DEF Bind, At, Goto, pool, work
  <2> QED
    BY <2>1 DEF BootInv, CountsOK, NetworkInv, PoolInv, CleanUpFaults, Network, Serving
<1>5. CASE BindFails
  <2>1. /\ pc = "bind" /\ fault = "none"
        /\ \/ candidates > 0 /\ candidates' = candidates - 1 /\ pc' = "bind"
           \/ UNCHANGED candidates /\ pc' = "free_threads"
        /\ UNCHANGED <<config, port_string, addresses, socket_descriptor, listening,
                       threads, queue_head, cursor, created, num_connections, tasks, fault>>
    BY <1>5 DEF BindFails, At, Fail, Goto, pool, work
  <2> QED
    BY <2>1 DEF BootInv, CountsOK, NetworkInv, PoolInv, CleanUpFaults, Network, Serving
<1>6. CASE Listen
  <2>1. /\ pc = "listen" /\ fault = "none"
        /\ \/ pc' = "free_threads" /\ UNCHANGED <<listening, addresses>>
           \/ pc' = "threads" /\ listening' = TRUE /\ addresses' = "freed"
        /\ UNCHANGED <<config, port_string, candidates, socket_descriptor,
                       threads, queue_head, cursor, created, num_connections, tasks, fault>>
    BY <1>6 DEF Listen, At, Fail, Goto, pool, work
  <2> QED
    BY <2>1 DEF BootInv, CountsOK, NetworkInv, PoolInv, CleanUpFaults, Network, Serving, Held
<1> QED
  BY <1>1, <1>2, <1>3, <1>4, <1>5, <1>6

(* init_thread_handler and the start of the poll loop.                     *)
LEMMA PoolKeeps ==
  ASSUME BootInv, AllocateThreads \/ CreateThread \/ AllocateQueue \/ Kqueue \/ Poll
  PROVE  BootInv'
<1>1. CASE AllocateThreads
  <2>1. /\ pc = "threads" /\ fault = "none"
        /\ \/ pc' = "free_threads" /\ UNCHANGED threads
           \/ pc' = "create" /\ threads' = "held"
        /\ UNCHANGED <<config, port_string, addresses, candidates, socket_descriptor, listening,
                       queue_head, cursor, created, num_connections, tasks, fault>>
    BY <1>1 DEF AllocateThreads, At, Fail, Goto, net, work
  <2> QED
    BY <2>1 DEF BootInv, CountsOK, NetworkInv, PoolInv, CleanUpFaults, Network, Serving, Held
<1>2. CASE CreateThread
  <2>1. /\ pc = "create" /\ fault = "none"
        /\ \/ pc' = "free_threads" /\ threads' = "freed" /\ UNCHANGED <<cursor, created>>
           \/ /\ pc' = "create" /\ cursor' = cursor + 1 /\ created' \in {created, created + 1}
              /\ UNCHANGED threads
        /\ UNCHANGED <<config, port_string, addresses, candidates, socket_descriptor, listening,
                       queue_head, num_connections, tasks, fault>>
    BY <1>2 DEF CreateThread, At, Fail, Goto, net, work
  <2> QED
    BY <2>1 DEF BootInv, CountsOK, NetworkInv, PoolInv, CleanUpFaults, Network, Serving, Held
<1>3. CASE AllocateQueue
  <2>1. /\ pc = "create" /\ fault = "none" /\ cursor = config.num_cores
        /\ \/ pc' = "free_threads" /\ threads' = "freed" /\ UNCHANGED queue_head
           \/ pc' = "kqueue" /\ queue_head' = "held" /\ UNCHANGED threads
        /\ UNCHANGED <<config, port_string, addresses, candidates, socket_descriptor, listening,
                       cursor, created, num_connections, tasks, fault>>
    BY <1>3 DEF AllocateQueue, At, Fail, Goto, net, work
  <2> QED
    BY <2>1 DEF BootInv, CountsOK, NetworkInv, PoolInv, CleanUpFaults, Network, Serving, Held
<1>4. CASE Kqueue
  <2>1. /\ pc = "kqueue" /\ fault = "none" /\ pc' \in {"poll", "free_threads"}
        /\ UNCHANGED <<config, port_string, addresses, candidates, socket_descriptor, listening,
                       threads, queue_head, cursor, created, num_connections, tasks, fault>>
    BY <1>4 DEF Kqueue, At, Fail, Goto, net, pool, work
  <2> QED
    BY <2>1 DEF BootInv, CountsOK, NetworkInv, PoolInv, CleanUpFaults, Network, Serving
<1>5. CASE Poll
  <2>1. /\ pc = "poll" /\ fault = "none"
        /\ \/ pc' = "free_threads" /\ UNCHANGED <<tasks, num_connections>>
           \/ pc' = "poll" /\ tasks' = tasks + 1 /\ num_connections' = num_connections + 1
        /\ UNCHANGED <<config, port_string, addresses, candidates, socket_descriptor, listening,
                       threads, queue_head, cursor, created, fault>>
    BY <1>5 DEF Poll, At, Fail, Goto, net, pool, work
  <2> QED
    BY <2>1 DEF BootInv, CountsOK, NetworkInv, PoolInv, CleanUpFaults, Network, Serving
<1> QED
  BY <1>1, <1>2, <1>3, <1>4, <1>5

LEMMA WorkerPullsKeeps ==
  ASSUME BootInv, WorkerPulls
  PROVE  BootInv'
<1>1. /\ pc # "exit" /\ fault = "none" /\ num_connections > 0 /\ created > 0
      /\ \/ queue_head = "held" /\ num_connections' = num_connections - 1 /\ UNCHANGED fault
         \/ queue_head # "held" /\ fault' = "no_queue" /\ UNCHANGED num_connections
      /\ UNCHANGED <<pc, config, port_string, addresses, candidates, socket_descriptor, listening,
                     threads, queue_head, cursor, created, tasks>>
  BY DEF WorkerPulls, net, pool
<1>2. queue_head # "none"
  BY <1>1 DEF BootInv, CountsOK, PoolInv
<1>3. queue_head # "held" => pc = "return" /\ queue_head = "freed"
  BY <1>1, <1>2 DEF BootInv, CountsOK, PoolInv, Held
<1> QED
  BY <1>1, <1>3 DEF BootInv, CountsOK, NetworkInv, PoolInv, CleanUpFaults

(* main's way out.                                                         *)
LEMMA CleanUpKeeps ==
  ASSUME BootInv, FreeThreads \/ FreeQueue \/ Exit
  PROVE  BootInv'
<1>1. CASE FreeThreads
  <2>1. /\ pc = "free_threads" /\ fault = "none"
        /\ \/ pc' = "free_queue" /\ threads' \in Held /\ UNCHANGED fault
           \/ threads = "freed" /\ fault' = "double_free" /\ UNCHANGED <<pc, threads>>
        /\ UNCHANGED <<config, port_string, addresses, candidates, socket_descriptor, listening,
                       queue_head, cursor, created, num_connections, tasks>>
    <3>1. threads \in Held
      BY DEF BootInv, CountsOK
    <3> QED
      BY <1>1, <3>1 DEF FreeThreads, At, Goto, net, work, Held
  <2> QED
    BY <2>1 DEF BootInv, CountsOK, NetworkInv, PoolInv, CleanUpFaults, Network, Serving
<1>2. CASE FreeQueue
  <2>1. /\ pc = "free_queue" /\ fault = "none" /\ pc' = "return"
        /\ queue_head' = IF queue_head = "held" THEN "freed" ELSE queue_head
        /\ UNCHANGED <<config, port_string, addresses, candidates, socket_descriptor, listening,
                       threads, cursor, created, num_connections, tasks, fault>>
    BY <1>2 DEF FreeQueue, At, Goto, net, work
  <2> QED
    BY <2>1 DEF BootInv, CountsOK, NetworkInv, PoolInv, CleanUpFaults, Network, Serving, Held
<1>3. CASE Exit
  <2>1. /\ pc = "return" /\ fault = "none" /\ pc' = "exit"
        /\ UNCHANGED <<config, port_string, addresses, candidates, socket_descriptor, listening,
                       threads, queue_head, cursor, created, num_connections, tasks, fault>>
    BY <1>3 DEF Exit, At, Goto, net, pool, work
  <2> QED
    BY <2>1 DEF BootInv, CountsOK, NetworkInv, PoolInv, CleanUpFaults, Network, Serving
<1> QED
  BY <1>1, <1>2, <1>3

LEMMA StepKeeps == BootInv /\ [Next]_vars => BootInv'
<1> SUFFICES ASSUME BootInv, [Next]_vars PROVE BootInv'
  OBVIOUS
<1>1. CASE UNCHANGED vars
  BY <1>1 DEF vars, text, net, pool, work, BootInv, CountsOK, NetworkInv, PoolInv, CleanUpFaults
<1>2. CASE ReadLine \/ FetchCores \/ GetLocalAddresses \/ Bind \/ BindFails \/ Listen
  BY <1>2, NetworkKeeps
<1>3. CASE AllocateThreads \/ CreateThread \/ AllocateQueue \/ Kqueue \/ Poll
  BY <1>3, PoolKeeps
<1>4. CASE WorkerPulls \/ FreeThreads \/ FreeQueue \/ Exit
  BY <1>4, WorkerPullsKeeps, CleanUpKeeps
<1> QED
  BY <1>1, <1>2, <1>3, <1>4 DEF Next, Main

(* The configuration, apart from what the file says.                       *)
TextOK ==
  /\ file \in Seq(Nat) /\ position \in 0..Len(file)
  /\ line \in Seq(Nat) /\ Len(line) = MaxFieldLength
  /\ config \in [Fields -> Nat]

PositiveConfig == \A f \in Fields \ {"num_cores"} : config[f] > 0

LEMMA InitText == Init => TextOK /\ PositiveConfig
<1> SUFFICES ASSUME Init PROVE TextOK /\ PositiveConfig
  OBVIOUS
<1>1. file \in Seq(Nat) /\ position \in 0..Len(file)
  BY BootAssumption DEF Init
<1>2. line \in Seq(Nat) /\ Len(line) = MaxFieldLength
  <2>1. MaxFieldLength \in Nat
    BY ConfigurationAssumption
  <2>2. line = [i \in 1..MaxFieldLength |-> Nul]
    BY DEF Init
  <2> QED
    BY <2>1, <2>2 DEF Nul
<1>3. config \in [Fields -> Nat] /\ PositiveConfig
  <2>1. config = Defaults
    BY DEF Init
  <2>2. Defaults \in [Fields -> Nat \ {0}]
    BY ConfigurationAssumption
  <2> QED
    BY <2>1, <2>2 DEF PositiveConfig
<1> QED
  BY <1>1, <1>2, <1>3 DEF TextOK

LEMMA StepText == TextOK /\ PositiveConfig /\ [Next]_vars => TextOK' /\ PositiveConfig'
<1> SUFFICES ASSUME TextOK, PositiveConfig, [Next]_vars PROVE TextOK' /\ PositiveConfig'
  OBVIOUS
<1>1. CASE ReadLine
  <2>1. Rest \in Seq(Nat) /\ Len(Rest) = Len(file) - position
    BY DEF TextOK, Rest
  <2>2. line' = Fgets(Rest, line) /\ position' = position + Taken(Rest) /\ file' = file
    BY <1>1 DEF ReadLine
  <2>3. file' \in Seq(Nat) /\ position' \in 0..Len(file')
    <3>1. Taken(Rest) \in 0..Len(Rest)
      BY <2>1, TakenIs
    <3>2. file \in Seq(Nat) /\ position \in 0..Len(file) /\ Len(file) \in Nat
      BY DEF TextOK
    <3> QED
      BY <2>1, <2>2, <3>1, <3>2
  <2>4. line' \in Seq(Nat) /\ Len(line') = MaxFieldLength
    BY <2>1, <2>2, FgetsIs DEF TextOK
  <2>5. config' \in [Fields -> Nat] /\ PositiveConfig'
    <3>1. CASE UNCHANGED config
      BY <3>1 DEF TextOK, PositiveConfig
    <3>2. CASE ~UNCHANGED config
      <4>1. PICK v \in ParseLine(line') :
              /\ v # Refused
              /\ config' = [f \in Fields |-> IF f \in Named(line') THEN v ELSE config[f]]
        BY <1>1, <3>2 DEF ReadLine
      <4>2. v \in Nat /\ v > 0
        BY <2>4, <4>1, ParsedIsPositive
      <4> QED
        BY <4>1, <4>2 DEF TextOK, PositiveConfig
    <3> QED
      BY <3>1, <3>2
  <2> QED
    BY <2>3, <2>4, <2>5 DEF TextOK
<1>2. CASE FetchCores
  <2>1. UNCHANGED <<file, position, line>>
    BY <1>2 DEF FetchCores, text
  <2>2. UNCHANGED config \/ \E n \in Nat : config' = [config EXCEPT !.num_cores = n]
    BY <1>2, BootAssumption DEF FetchCores
  <2>3. config' \in [Fields -> Nat] /\ PositiveConfig'
    BY <2>2 DEF TextOK, PositiveConfig, Fields
  <2> QED
    BY <2>1, <2>3 DEF TextOK
<1>3. ASSUME UNCHANGED <<file, position, line, config>> PROVE TextOK' /\ PositiveConfig'
  BY <1>3 DEF TextOK, PositiveConfig
<1>4. CASE \/ GetLocalAddresses \/ Bind \/ BindFails \/ Listen
           \/ AllocateThreads \/ CreateThread \/ AllocateQueue \/ Kqueue
           \/ FreeThreads \/ FreeQueue \/ Exit \/ Poll \/ WorkerPulls
  <2>1. UNCHANGED <<file, position, line, config>>
    BY <1>4 DEF GetLocalAddresses, Bind, BindFails, Listen, AllocateThreads, CreateThread,
       AllocateQueue, Kqueue, FreeThreads, FreeQueue, Exit, Poll, WorkerPulls, text
  <2> QED
    BY <1>3, <2>1
<1>5. CASE UNCHANGED vars
  BY <1>3, <1>5 DEF vars, text
<1> QED
  BY <1>1, <1>2, <1>4, <1>5 DEF Next, Main

(* The parser stands behind the end of a line, or at the start, and every  *)
(* field is what the file says so far.                                     *)
FileInv ==
  Ordinary(file) =>
    /\ pc = "configuration" =>
         /\ position \in {0} \cup LineEnds(file)
         /\ \A f \in Fields : config[f] = SaidUpTo(file, position, f)
    /\ pc = "addresses" => \A f \in Fields \ {"num_cores"} : config[f] = Said(file, f)

LEMMA InitFile == Init => FileInv
<1> SUFFICES ASSUME Init PROVE FileInv
  OBVIOUS
<1>1. file \in Seq(Nat) /\ pc = "configuration" /\ position = 0 /\ config = Defaults
  BY BootAssumption DEF Init
<1>2. \A f \in Fields : SaidUpTo(file, 0, f) = Defaults[f]
  BY <1>1, SaidAtStart
<1> QED
  BY <1>1, <1>2 DEF FileInv

LEMMA ReadLineKeepsFile ==
  ASSUME TextOK, FileInv, ReadLine
  PROVE  FileInv'
<1>1. /\ pc = "configuration" /\ Rest # <<>> /\ file' = file
      /\ line' = Fgets(Rest, line) /\ position' = position + Taken(Rest)
      /\ pc' \in {"configuration", "free_threads"}
  BY DEF ReadLine, At, Fail, Goto
<1>2. file \in Seq(Nat) /\ line \in Seq(Nat) /\ Len(line) = MaxFieldLength
  BY DEF TextOK
<1> SUFFICES ASSUME Ordinary(file), pc' = "configuration"
             PROVE  /\ position' \in {0} \cup LineEnds(file)
                    /\ \A f \in Fields : config'[f] = SaidUpTo(file, position', f)
  BY <1>1 DEF FileInv
<1>3. /\ position \in {0} \cup LineEnds(file)
      /\ \A f \in Fields : config[f] = SaidUpTo(file, position, f)
  BY <1>1 DEF FileInv
<1> DEFINE e == position'
           t == LineBefore(file, e)
           l == line'
<1>4. /\ e \in LineEnds(file) /\ position < e
      /\ \A i \in LineEnds(file) : i < e => i <= position
      /\ t \in Seq(Nat) /\ Holds(l, t)
  BY <1>1, <1>2, <1>3, LineRead DEF Rest
<1>5. l \in Seq(Nat)
  <2>1. Rest \in Seq(Nat)
    BY DEF TextOK, Rest
  <2> QED
    BY <1>1, <1>2, <2>1, FgetsIs
<1>6. \A f \in Fields : Assigns(t, f) => Len(Assigned(t, f)) < MaxValueLength
  BY <1>4 DEF Ordinary
<1> HIDE DEF e, t, l
<1>7. \A f \in Fields : SaidUpTo(file, e, f) =
           IF Assigns(t, f) THEN Decimal(Assigned(t, f)) ELSE SaidUpTo(file, position, f)
  BY <1>2, <1>3, <1>4, SaidOnward DEF t
<1>8. ASSUME NEW f \in Fields PROVE config'[f] = SaidUpTo(file, e, f)
  <2>1. CASE Skipped(l)
    <3>1. config' = config
      BY <2>1 DEF ReadLine, l
    <3>2. ~Assigns(t, f)
      BY <1>4, <1>5, <1>6, <2>1, LineParsed
    <3> QED
      BY <1>3, <1>7, <3>1, <3>2
  <2>2. CASE ~Skipped(l)
    <3>1. PICK v \in ParseLine(l) :
            /\ v # Refused
            /\ config' = [g \in Fields |-> IF g \in Named(l) THEN v ELSE config[g]]
      BY <1>1, <2>2 DEF ReadLine, Fail, Goto, l
    <3>2. /\ f \in Named(l) <=> Assigns(t, f)
          /\ Assigns(t, f) => v = Decimal(Assigned(t, f))
      BY <1>4, <1>5, <1>6, <3>1, LineParsed
    <3> QED
      BY <1>3, <1>7, <3>1, <3>2
  <2> QED
    BY <2>1, <2>2
<1> QED
  BY <1>4, <1>8 DEF e

LEMMA StepFile == BootInv /\ TextOK /\ FileInv /\ [Next]_vars => FileInv'
<1> SUFFICES ASSUME BootInv, TextOK, FileInv, [Next]_vars PROVE FileInv'
  OBVIOUS
<1>1. CASE ReadLine
  BY <1>1, ReadLineKeepsFile
<1>2. CASE FetchCores
  <2>1. /\ pc = "configuration" /\ Rest = <<>> /\ file' = file
        /\ \/ pc' = "free_threads"
           \/ /\ pc' = "addresses"
              /\ \E n \in Cores : config' = [config EXCEPT !.num_cores = n]
    BY <1>2 DEF FetchCores, At, Fail, Goto, text
  <2>2. position = Len(file) /\ file \in Seq(Nat)
    <3>1. file \in Seq(Nat) /\ Len(file) \in Nat /\ position \in 0..Len(file)
      BY DEF TextOK
    <3>2. Len(Rest) = Len(file) - position
      BY <3>1 DEF Rest
    <3>3. Len(Rest) = 0
      BY <2>1
    <3> QED
      BY <3>1, <3>2, <3>3
  <2>3. config \in [Fields -> Nat]
    BY DEF TextOK
  <2>4. ASSUME Ordinary(file), pc' = "addresses", NEW f \in Fields \ {"num_cores"}
        PROVE  config'[f] = Said(file, f)
    <3>1. config'[f] = config[f]
      BY <2>1, <2>3, <2>4
    <3>2. config[f] = SaidUpTo(file, position, f)
      BY <2>1, <2>4 DEF FileInv
    <3> QED
      BY <2>2, <3>1, <3>2, SaidAtEnd
  <2>5. pc' # "configuration"
    BY <2>1
  <2> QED
    BY <2>1, <2>4, <2>5 DEF FileInv
<1>3. ASSUME UNCHANGED <<file, position, config>>,
             \/ UNCHANGED pc
             \/ pc' \notin {"configuration", "addresses"}
      PROVE  FileInv'
  BY <1>3 DEF FileInv
<1>4. CASE GetLocalAddresses \/ Bind \/ BindFails \/ Listen
  BY <1>3, <1>4 DEF GetLocalAddresses, Bind, BindFails, Listen, Fail, Goto, text
<1>5. CASE AllocateThreads \/ CreateThread \/ AllocateQueue \/ Kqueue \/ Poll
  BY <1>3, <1>5 DEF AllocateThreads, CreateThread, AllocateQueue, Kqueue, Poll, Fail, Goto, text
<1>6. CASE FreeThreads \/ FreeQueue \/ Exit \/ WorkerPulls
  <2>1. UNCHANGED <<file, position, config>>
    BY <1>6 DEF FreeThreads, FreeQueue, Exit, WorkerPulls, text
  <2>2. CASE FreeThreads
    <3>1. pc = "free_threads" /\ (UNCHANGED pc \/ pc' = "free_queue")
      <4>1. \/ pc' = "free_queue" \/ UNCHANGED pc \/ threads \notin Held
        BY <2>2 DEF FreeThreads, Goto, Held
      <4>2. threads \in Held
        BY DEF BootInv, CountsOK
      <4> QED
        BY <2>2, <4>1, <4>2 DEF FreeThreads, At
    <3> QED
      BY <1>3, <2>1, <3>1
  <2>3. CASE FreeQueue \/ Exit
    BY <1>3, <2>1, <2>3 DEF FreeQueue, Exit, Goto
  <2>4. CASE WorkerPulls
    BY <1>3, <2>1, <2>4 DEF WorkerPulls
  <2> QED
    BY <1>6, <2>2, <2>3, <2>4
<1>7. CASE UNCHANGED vars
  BY <1>3, <1>7 DEF vars, text
<1> QED
  BY <1>1, <1>2, <1>4, <1>5, <1>6, <1>7 DEF Next, Main

-----------------------------------------------------------------------------
(* The inductive invariant.                                                *)
Inv == BootInv /\ TextOK /\ PositiveConfig /\ FileInv

(* Whatever fails on the way in or ends the server, what main holds is as  *)
(* NetworkInv and PoolInv say, and what the configuration holds is what    *)
(* the parser has read so far.                                             *)
THEOREM Invariance == Spec => []Inv
<1>1. Init => Inv
  BY InitEstablishes, InitText, InitFile DEF Inv
<1>2. Inv /\ [Next]_vars => Inv'
  BY StepKeeps, StepText, StepFile DEF Inv
<1> QED
  BY <1>1, <1>2, PTL DEF Spec

(* For every file: no field is 0, and when the file is an ordinary text,   *)
(* each field is what the last line that gives it says, or its default     *)
(* (configuration_handler.c: _parse_configuration).                        *)
THEOREM ConfigurationIsRead == Spec => []ConfigIsItsLines
<1>1. Inv => ConfigIsItsLines
  BY DEF Inv, PositiveConfig, FileInv, ConfigIsItsLines
<1> QED
  BY <1>1, Invariance, PTL

(* For every file, any number of cores and whatever calls fail, noticed or *)
(* not: the server polls only with a bound socket that listens, found by   *)
(* the digits of the configured port, with a queue, and with an entry of   *)
(* the thread array for every core (main.c, thread_handler.c:              *)
(* init_thread_handler).                                                   *)
THEOREM ServesWhenReady == Spec => []ServingIsReady
<1>1. Inv => ServingIsReady
  <2> SUFFICES ASSUME Inv, pc = "poll" PROVE ServingIsReady
    BY DEF ServingIsReady
  <2>1. /\ port_string = size_t_to_string(config.port)
        /\ socket_descriptor > 0 /\ listening /\ addresses = "freed"
    BY DEF Inv, BootInv, NetworkInv, Serving
  <2>2. /\ threads = "held" /\ queue_head = "held" /\ cursor = config.num_cores
        /\ fault = "none" /\ (created = 0 => num_connections = tasks)
    BY DEF Inv, BootInv, PoolInv, Serving
  <2>3. config.port \in Nat
    BY DEF Inv, TextOK, Fields
  <2>4. Decimal(Before(port_string, {Nul})) = config.port
    BY <2>1, <2>3, StringIsNumber
  <2> QED
    BY <2>1, <2>2, <2>4 DEF ServingIsReady
<1> QED
  BY <1>1, Invariance, PTL

(* A worker meets the freed queue only while main returns from a failed    *)
(* poll loop with descriptors still queued, and the thread array is freed  *)
(* twice only if the pool was never completed (main.c, thread_handler.c:   *)
(* init_thread_handler, free_thread_memory).                               *)
THEOREM CleanUpFaultsAreThese == Spec => []CleanUpFaults
<1>1. Inv => CleanUpFaults
  BY DEF Inv, BootInv
<1> QED
  BY <1>1, Invariance, PTL

-----------------------------------------------------------------------------
(* What TypeOK says beyond Inv.                                            *)
BoundsOK ==
  /\ pc \in Network \cup Serving
            \cup {"threads", "create", "free_threads", "free_queue", "return", "exit"}
  /\ candidates \in 0..MaxAddresses /\ socket_descriptor \in 0..MaxAddresses
  /\ listening \in BOOLEAN
  /\ cursor \in 0..config.num_cores /\ created \in 0..cursor
  /\ tasks \in 0..MaxTasks

LEMMA InitBounds == Init => BoundsOK
<1> SUFFICES ASSUME Init PROVE BoundsOK
  OBVIOUS
<1>1. config.num_cores \in Nat
  BY ConfigurationAssumption DEF Init, Fields
<1>2. /\ pc = "configuration" /\ candidates = 0 /\ socket_descriptor = 0
      /\ listening = FALSE /\ cursor = 0 /\ created = 0 /\ tasks = 0
  BY DEF Init
<1>3. 0 \in 0..config.num_cores /\ 0 \in 0..0 /\ 0 \in 0..MaxAddresses /\ 0 \in 0..MaxTasks
  BY <1>1, BootAssumption
<1>4. pc \in Network
  BY <1>2 DEF Network
<1> QED
  BY <1>2, <1>3, <1>4 DEF BoundsOK

LEMMA BoundsStep == Inv /\ BoundsOK /\ [Next]_vars => BoundsOK'
<1> SUFFICES ASSUME Inv, BoundsOK, [Next]_vars PROVE BoundsOK'
  OBVIOUS
<1>0. /\ config \in [Fields -> Nat] /\ config.num_cores \in Nat
      /\ MaxAddresses \in Nat /\ MaxTasks \in Nat
  BY BootAssumption DEF Inv, TextOK, Fields
<1>1. CASE UNCHANGED vars
  BY <1>1 DEF vars, text, net, pool, work, BoundsOK
<1>2. CASE ReadLine \/ FetchCores
  <2>1. cursor = 0 /\ cursor' = 0 /\ created = 0 /\ created' = 0
    BY <1>2 DEF Inv, BootInv, PoolInv, Network, ReadLine, FetchCores, pool, At
  <2>2. config'.num_cores \in Nat
    BY StepText DEF Inv, TextOK, Fields
  <2>3. UNCHANGED <<candidates, socket_descriptor, listening, tasks>>
    BY <1>2 DEF ReadLine, FetchCores, net, work
  <2>4. pc' \in {pc, "free_threads", "addresses"}
    BY <1>2 DEF ReadLine, FetchCores, Goto, Fail
  <2> QED
    BY <2>1, <2>2, <2>3, <2>4 DEF BoundsOK, Network
<1>3. CASE GetLocalAddresses \/ Bind \/ BindFails \/ Listen
  <2>1. UNCHANGED <<config, cursor, created, tasks>>
    BY <1>3 DEF GetLocalAddresses, Bind, BindFails, Listen, pool, work
  <2>2. /\ candidates' \in 0..MaxAddresses /\ socket_descriptor' \in 0..MaxAddresses
        /\ listening' \in BOOLEAN
    <3>1. CASE GetLocalAddresses
      BY <1>0, <3>1 DEF GetLocalAddresses, BoundsOK
    <3>2. CASE Bind
      BY <1>0, <3>2 DEF Bind, BoundsOK
    <3>3. CASE BindFails
      BY <1>0, <3>3 DEF BindFails, BoundsOK
    <3>4. CASE Listen
      BY <1>0, <3>4 DEF Listen, BoundsOK
    <3> QED
      BY <1>3, <3>1, <3>2, <3>3, <3>4
  <2>3. pc' \in {pc, "free_threads", "bind", "listen", "threads"}
    BY <1>3 DEF GetLocalAddresses, Bind, BindFails, Listen, Goto, Fail
  <2> QED
    BY <2>1, <2>2, <2>3 DEF BoundsOK, Network
<1>4. CASE AllocateThreads \/ CreateThread \/ AllocateQueue \/ Kqueue \/ Poll
  <2>1. UNCHANGED <<config, candidates, socket_descriptor, listening>>
    BY <1>4 DEF AllocateThreads, CreateThread, AllocateQueue, Kqueue, Poll, net
  <2>2. cursor' \in 0..config.num_cores /\ created' \in 0..cursor' /\ tasks' \in 0..MaxTasks
    BY <1>0, <1>4 DEF AllocateThreads, CreateThread, AllocateQueue, Kqueue, Poll, pool,
       work, BoundsOK
  <2>3. pc' \in {pc, "free_threads", "create", "kqueue", "poll"}
    BY <1>4 DEF AllocateThreads, CreateThread, AllocateQueue, Kqueue, Poll, Goto, Fail
  <2> QED
    BY <2>1, <2>2, <2>3 DEF BoundsOK, Serving
<1>5. CASE FreeThreads \/ FreeQueue \/ Exit \/ WorkerPulls
  <2>1. UNCHANGED <<config, candidates, socket_descriptor, listening, cursor, created, tasks>>
    BY <1>5 DEF FreeThreads, FreeQueue, Exit, WorkerPulls, net, pool, work
  <2>2. pc' \in {pc, "free_queue", "return", "exit"}
    <3>1. CASE FreeThreads
      <4>1. threads \in Held
        BY DEF Inv, BootInv, CountsOK
      <4> QED
        BY <3>1, <4>1 DEF FreeThreads, Goto, Held
    <3>2. CASE FreeQueue \/ Exit \/ WorkerPulls
      BY <3>2 DEF FreeQueue, Exit, WorkerPulls, Goto
    <3> QED
      BY <1>5, <3>1, <3>2
  <2> QED
    BY <2>1, <2>2 DEF BoundsOK
<1> QED
  BY <1>1, <1>2, <1>3, <1>4, <1>5 DEF Next, Main

(* The variables keep their types: above all, no more workers are created  *)
(* than there are cores, and the configuration stays one of numbers.       *)
THEOREM TypeCorrect == Spec => []TypeOK
<1>1. Inv /\ BoundsOK => TypeOK
  BY DEF Inv, BootInv, CountsOK, TextOK, BoundsOK, TypeOK, Network, Serving
<1> QED
  BY <1>1, InitBounds, BoundsStep, Invariance, PTL DEF Spec
=============================================================================
