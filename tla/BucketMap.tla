------------------------------ MODULE BucketMap ------------------------------
(***************************************************************************)
(* ov_publicmap of src/ov_publicmap.c, byte by byte: every coefficient of  *)
(* the public key is added into the bucket of its monomial's value, in     *)
(* GF(256) into one for each half of the value, and the buckets are then   *)
(* combined.  UovMap has this map over any field; here is how the code     *)
(* finds its way through the key and the buckets.                          *)
(*                                                                         *)
(* A byte of a bucket is the set of the addresses in the key that were     *)
(* added to it, where one added twice is gone; a byte of the result has    *)
(* such a set for each power of two it is scaled with.                     *)
(***************************************************************************)
EXTENDS Widths, BitSets

CONSTANTS
  MapV,       \* _V
  MapO,       \* _O
  VecLens,    \* _PUB_M_BYTE
  MapInputs   \* vectors x: sequences of _PUB_N bytes

(* Rounded up, a vector reaches into the next one, not beyond: 20 .. 96    *)
(* bytes in registers of 32.                                               *)
RoundedUp(n, w) == ((n + w - 1) \div w) * w
ASSUME MapAssumption ==
  /\ MapV \in Nat \ {0} /\ MapO \in Nat \ {0, 1}
  /\ \A n \in VecLens : n \in Nat \ {0} /\ \A w \in {YMM, XMM, U64, U32} : RoundedUp(n, w) <= 2*n
  /\ \A x \in MapInputs : Len(x) = MapV + MapO

VARIABLES
  gfsize,    \* 16 or 256, 0 when another part runs
  reg,       \* register of the backend
  vec_len,
  xs,        \* the vector
  trimat,    \* where the next coefficient begins
  mrow,      \* rows done of P1, P2 and P3
  accu_low,       \* buckets, [value -> [byte -> addresses]]
  accu_high,
  ymap       \* the result, <<>> until it is there

map_vars == <<gfsize, reg, vec_len, xs, trimat, mrow, accu_low, accu_high, ymap>>

PUB_N == MapV + MapO
Coefficients == (PUB_N * (PUB_N + 1)) \div 2

-----------------------------------------------------------------------------
x_(i) == xs[i + 1]
_xixj(i, j) ==
  IF gfsize = 16 THEN Mul16(BitsOf[x_(i)], BitsOf[x_(j)])
  ELSE Mul256(BitsOf[x_(i)], BitsOf[x_(j)])

tmpvec_len == IF gfsize = 16 THEN vec_len ELSE RoundedUp(vec_len, reg)

(* gf256v_add of n bytes of the vectors of row i, of the variables from    *)
(* js[1] to js[2], to the buckets of the values that `piece` takes from     *)
(* x_i x_j.                                                                *)
Accumulated(bucket, piece(_), i, js, n) ==
  LET values == {<<j, NumOf[piece(_xixj(i, j))]>> : j \in js[1] .. js[2]}
      at(value) == {trimat + (t[1] - js[1])*vec_len : t \in {u \in values : u[2] = value}}
  IN  [value \in 0 .. 15 |->
         [b \in DOMAIN bucket[value] |->
            IF b >= n THEN bucket[value][b]
            ELSE Add(bucket[value][b], {a + b : a \in at(value)})]]

idx_low(product) == Low(product, 4)
idx_high(product) == Shr(product, 4)

(* Row i with the variables js[1] .. js[2].  GF(16) leaves out the rows of *)
(* a zero.                                                                 *)
accu_eval_quad(i, js, n) ==
  /\ \/ /\ gfsize = 16
        /\ accu_low' = IF x_(i) = 0 THEN accu_low ELSE Accumulated(accu_low, idx_low, i, js, n)
        /\ UNCHANGED accu_high
     \/ /\ gfsize = 256
        /\ accu_low' = Accumulated(accu_low, idx_low, i, js, n)
        /\ accu_high' = Accumulated(accu_high, idx_high, i, js, n)
  /\ trimat' = trimat + (js[2] - js[1] + 1) * vec_len
  /\ mrow' = mrow + 1
  /\ UNCHANGED <<gfsize, reg, vec_len, xs, ymap>>

P1Step == mrow < MapV /\ accu_eval_quad(mrow, <<mrow, MapV - 1>>, tmpvec_len)
P2Step ==
  /\ mrow \in MapV .. 2*MapV - 1
  /\ accu_eval_quad(mrow - MapV, <<MapV, PUB_N - 1>>, tmpvec_len)

(* Mutant: every vector is rounded up.                                     *)
P3StepRounded ==
  LET i == mrow - MapV IN
  /\ mrow \in 2*MapV .. 2*MapV + MapO - 1
  /\ accu_eval_quad(i, <<i, PUB_N - 1>>, tmpvec_len)

(* The last vector is added as it is: nothing may be read behind it.       *)
P3Step ==
  LET i == mrow - MapV IN
  /\ mrow \in 2*MapV .. 2*MapV + MapO - 1
  /\ accu_eval_quad(i, <<i, PUB_N - 1>>, IF i = PUB_N - 1 THEN vec_len ELSE tmpvec_len)

-----------------------------------------------------------------------------
(* Buckets above n into n and what they are without it.                    *)
Halve(bucket, n) ==
  LET sum(S, b) == {a \in UNION {bucket[v][b] : v \in S} : Odd({v \in S : a \in bucket[v][b]})}
  IN  [value \in 0 .. 15 |->
         [b \in DOMAIN bucket[value] |->
            IF value = n THEN sum(n .. 2*n - 1, b)
            ELSE IF value \in 1 .. n-1 THEN sum({value, value + n}, b)
            ELSE bucket[value][b]]]
Reduced(bucket) == Halve(Halve(Halve(bucket, 8), 4), 2)

(* madd_reduce: the bits of a value that are left, times 1, 2, 4 and 8 or, *)
(* of the high half, 16, 32, 64 and 128.                                   *)
madd_reduce ==
  LET l == Reduced(accu_low)
      h == Reduced(accu_high)
  IN  [e \in 0 .. vec_len - 1 |->
         [k \in IF gfsize = 16 THEN 0 .. 3 ELSE 0 .. 7 |->
            IF k < 4 THEN l[2^k][e] ELSE h[2^(k - 4)][e]]]

ReduceStep ==
  /\ mrow = 2*MapV + MapO
  /\ ymap = <<>>
  /\ ymap' = madd_reduce
  /\ UNCHANGED <<gfsize, reg, vec_len, xs, trimat, mrow, accu_low, accu_high>>

NoBuckets(n) == [value \in 0 .. 15 |-> [b \in 0 .. n-1 |-> {}]]

MapIdle ==
  /\ gfsize = 0 /\ reg = 0 /\ vec_len = 0 /\ xs = <<>> /\ trimat = 0 /\ mrow = 0
  /\ accu_low = <<>> /\ accu_high = <<>> /\ ymap = <<>>

MapInit ==
  /\ gfsize \in {16, 256}
  /\ reg \in {YMM, XMM, U64, U32}
  /\ vec_len \in VecLens
  /\ xs \in IF gfsize = 256 THEN MapInputs
            ELSE {[k \in DOMAIN x |-> x[k] % 16] : x \in MapInputs}
  /\ trimat = 0
  /\ mrow = 0
  /\ accu_low = NoBuckets(RoundedUp(vec_len, reg))
  /\ accu_high = NoBuckets(RoundedUp(vec_len, reg))
  /\ ymap = <<>>

MapStep == P1Step \/ P2Step \/ P3Step \/ ReduceStep

-----------------------------------------------------------------------------
(* The result is the quadratic form of the key: its byte e has, times 2^k, *)
(* the byte e of each coefficient of which x_i x_j has bit k, and nothing  *)
(* of the bytes that rounded-up additions brought along.  No addition has  *)
(* read behind the key.                                                    *)
Monomials == {p \in (0 .. PUB_N - 1) \X (0 .. PUB_N - 1) : p[1] <= p[2]}
Before(p) ==
  LET tri(n, q) == q[1]*n - (q[1] * (q[1] - 1)) \div 2 + q[2] - q[1] IN
  IF p[2] < MapV THEN tri(MapV, p)
  ELSE IF p[1] < MapV THEN (MapV * (MapV + 1)) \div 2 + p[1]*MapO + p[2] - MapV
  ELSE (MapV * (MapV + 1)) \div 2 + MapV*MapO + tri(MapO, <<p[1] - MapV, p[2] - MapV>>)

PublicMapRight ==
  /\ ymap # <<>> =>
       LET products == {<<p, _xixj(p[1], p[2])>> : p \in Monomials} IN
       \A e \in DOMAIN ymap : \A k \in DOMAIN ymap[e] :
         ymap[e][k] = {Before(t[1])*vec_len + e : t \in {u \in products : k \in u[2]}}
  /\ \A bucket \in {accu_low, accu_high} : \A v \in DOMAIN bucket : \A b \in DOMAIN bucket[v] :
       \A a \in bucket[v][b] : a < Coefficients * vec_len
=============================================================================
