-------------------------- MODULE KVBlocks_proofs --------------------------
(***************************************************************************)
(* Facts about the block arithmetic of the KV cache, for every block size. *)
(***************************************************************************)
EXTENDS KVBlocks, TLAPS

LEMMA DivBounds ==
  ASSUME NEW x \in Nat, NEW d \in Nat \ {0}
  PROVE  /\ x \div d \in Nat
         /\ d * (x \div d) <= x
         /\ x < d * (x \div d) + d
  OBVIOUS

LEMMA DivUnique ==
  ASSUME NEW d \in Nat \ {0}, NEW q \in Int, NEW p \in Int, NEW x \in Int,
         d * q <= x, x < d * q + d, d * p <= x, x < d * p + d
  PROVE  q = p
<1>1. CASE q <= p - 1
  <2>1. d * q <= d * (p - 1)
    BY <1>1
  <2>2. d * (p - 1) = d * p - d
    OBVIOUS
  <2> QED BY <2>1, <2>2
<1>2. CASE p <= q - 1
  <2>1. d * p <= d * (q - 1)
    BY <1>2
  <2>2. d * (q - 1) = d * q - d
    OBVIOUS
  <2> QED BY <2>1, <2>2
<1> QED BY <1>1, <1>2

(* BlocksFor(n) is the least number of blocks that hold n slots.           *)
LEMMA BlocksForBounds ==
  ASSUME NEW n \in Nat
  PROVE  /\ BlocksFor(n) \in Nat
         /\ n <= BlockSize * BlocksFor(n)
         /\ BlockSize * BlocksFor(n) < n + BlockSize
<1> DEFINE x == n + BlockSize - 1
<1>1. x \in Nat /\ BlocksFor(n) = x \div BlockSize /\ BlockSize \in Nat \ {0}
  BY BlockSizeAssumption DEF BlocksFor
<1>2. /\ x \div BlockSize \in Nat
      /\ BlockSize * (x \div BlockSize) <= x
      /\ x < BlockSize * (x \div BlockSize) + BlockSize
  <2> HIDE DEF x
  <2> QED BY <1>1, DivBounds
<1> DEFINE p == BlockSize * BlocksFor(n)
<1>3. p \in Int /\ p <= x /\ x < p + BlockSize
  BY <1>1, <1>2
<1>4. n <= p /\ p < n + BlockSize
  <2> HIDE DEF p
  <2> QED BY <1>1, <1>3 DEF x
<1> QED BY <1>1, <1>2, <1>4

LEMMA BlocksForIs ==
  ASSUME NEW n \in Nat, NEW k \in Nat,
         n <= BlockSize * k, BlockSize * k < n + BlockSize
  PROVE  BlocksFor(n) = k
<1> DEFINE x == n + BlockSize - 1
           b == BlockSize * BlocksFor(n)
           c == BlockSize * k
<1>1. b \in Int /\ c \in Int /\ BlockSize \in Nat \ {0} /\ BlocksFor(n) \in Nat
  BY BlocksForBounds, BlockSizeAssumption
<1>2. n <= b /\ b < n + BlockSize /\ n <= c /\ c < n + BlockSize
  BY BlocksForBounds
<1>3. x \in Int /\ b <= x /\ x < b + BlockSize /\ c <= x /\ x < c + BlockSize
  <2> HIDE DEF b, c
  <2> QED BY <1>1, <1>2
<1> HIDE DEF x
<1> QED BY <1>1, <1>3, DivUnique

(* No slots take no block, up to a block's worth takes one, and a block's  *)
(* worth less takes one block less.                                        *)
LEMMA BlocksForFew ==
  ASSUME NEW n \in 0..BlockSize
  PROVE  BlocksFor(n) = IF n = 0 THEN 0 ELSE 1
<1>1. n \in Nat /\ BlockSize \in Nat \ {0}
  BY BlockSizeAssumption
<1>2. CASE n = 0
  BY <1>1, <1>2, BlocksForIs
<1>3. CASE n # 0
  BY <1>1, <1>3, BlocksForIs
<1> QED BY <1>2, <1>3

LEMMA BlocksForMinusOne ==
  ASSUME NEW n \in Nat, n >= BlockSize
  PROVE  BlocksFor(n - BlockSize) = BlocksFor(n) - 1
<1> DEFINE k == BlocksFor(n)
           c == BlockSize * k
<1>1. /\ BlockSize \in Nat \ {0} /\ n - BlockSize \in Nat
      /\ k \in Nat /\ c \in Int /\ n <= c /\ c < n + BlockSize
  BY BlocksForBounds, BlockSizeAssumption
<1>2. k # 0
  BY <1>1
<1>3. k - 1 \in Nat /\ BlockSize * (k - 1) = c - BlockSize
  <2> HIDE DEF k
  <2> QED BY <1>1, <1>2
<1>4. n - BlockSize <= c - BlockSize /\ c - BlockSize < n - BlockSize + BlockSize
  <2> HIDE DEF c
  <2> QED BY <1>1
<1> HIDE DEF k, c
<1> QED BY <1>1, <1>3, <1>4, BlocksForIs DEF k

(* k blocks hold whatever fits them. *)
LEMMA BlocksForAtMost ==
  ASSUME NEW n \in Nat, NEW k \in Nat, n <= k * BlockSize
  PROVE  BlocksFor(n) <= k
<1> DEFINE b == BlocksFor(n)
<1>1. BlockSize \in Nat \ {0} /\ b \in Nat /\ BlockSize * b < n + BlockSize
  BY BlocksForBounds, BlockSizeAssumption
<1>2. SUFFICES ASSUME b >= k + 1 PROVE FALSE
  BY <1>1
<1> HIDE DEF b
<1>3. BlockSize * b >= BlockSize * (k + 1)
  BY <1>1, <1>2
<1>4. BlockSize * (k + 1) = k * BlockSize + BlockSize
  BY <1>1
<1> QED BY <1>1, <1>3, <1>4

(* More slots take no fewer blocks. *)
LEMMA BlocksForMonotone ==
  ASSUME NEW m \in Nat, NEW n \in Nat, m <= n
  PROVE  BlocksFor(m) <= BlocksFor(n)
<1> DEFINE k == BlocksFor(n)
<1>1. k \in Nat /\ n <= BlockSize * k /\ BlockSize \in Nat
  BY BlocksForBounds, BlockSizeAssumption
<1> HIDE DEF k
<1>2. BlockSize * k = k * BlockSize /\ k * BlockSize \in Nat
  BY <1>1
<1>3. m <= k * BlockSize
  BY <1>1, <1>2
<1> QED BY <1>1, <1>3, BlocksForAtMost DEF k

(* A request with k blocks of which t slots are left occupies k blocks,    *)
(* and n more slots take the blocks for what does not fit the t.           *)
LEMMA NewBlocksBehindTail ==
  ASSUME NEW k \in Nat, NEW t \in Nat, t < BlockSize, k = 0 => t = 0,
         NEW n \in Nat, n >= t
  PROVE  /\ BlocksFor(k * BlockSize - t) = k
         /\ BlocksFor(k * BlockSize - t + n) = k + BlocksFor(n - t)
<1> DEFINE c == BlockSize * k
           m == BlocksFor(n - t)
           d == BlockSize * m
<1>1. BlockSize \in Nat \ {0} /\ c \in Nat /\ n - t \in Nat
  BY BlockSizeAssumption
<1>2. m \in Nat /\ d \in Nat /\ n - t <= d /\ d < n - t + BlockSize
  BY <1>1, BlocksForBounds
<1>3. k * BlockSize = c /\ BlockSize * (k + m) = c + d
  <2> HIDE DEF m
  <2> QED BY <1>1, <1>2
<1>4. t <= c
  <2>1. CASE k = 0
    BY <2>1, <1>1
  <2>2. CASE k # 0
    <3>1. c >= BlockSize
      BY <2>2, <1>1
    <3> HIDE DEF c
    <3> QED BY <3>1, <1>1
  <2> QED BY <2>1, <2>2
<1>5. /\ c - t \in Nat /\ c - t <= c /\ c < c - t + BlockSize
      /\ c - t + n \in Nat /\ c - t + n <= c + d /\ c + d < c - t + n + BlockSize
  <2> HIDE DEF c, d
  <2> QED BY <1>1, <1>2, <1>4
<1>6. BlocksFor(c - t) = k
  BY <1>1, <1>5, BlocksForIs
<1>7. BlocksFor(c - t + n) = k + m
  <2> HIDE DEF m, c, d
  <2>1. k + m \in Nat
    BY <1>2
  <2> QED BY <1>3, <1>5, <2>1, BlocksForIs
<1> QED BY <1>3, <1>6, <1>7
=============================================================================
