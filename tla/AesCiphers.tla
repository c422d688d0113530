---------------------------- MODULE AesCiphers -----------------------------
(***************************************************************************)
(* AES in counter mode, in the four forms a build can select: fixsliced    *)
(* words holding two blocks (utils/aes128_4r_ffs.c), four lanes of such    *)
(* words (neon_aesffs.c), and the AES instructions of x86 (x86aesni.c) and *)
(* of ARM (aes_neonaes.c), with 10 rounds, with 4 and, for the             *)
(* instructions, AES-256.  All forms encrypt the same eight counter blocks *)
(* next to the cipher of FIPS 197, a round at a time.                      *)
(*                                                                         *)
(* A word is the set of its bits, a block four little-endian words, one    *)
(* for each column; word k of a fixsliced state holds bit 7-k of every     *)
(* byte of two blocks.                                                     *)
(***************************************************************************)
EXTENDS BitSets, TLC

CONSTANTS
  AesKeys,   \* keys: words 0 to 7, of which AES-128 takes four
  AesNonces, \* words 0 to 2 of the counter blocks
  AesCtrs    \* counters of the first block

ASSUME AesAssumption == AesCtrs \subseteq 0 .. 65528

VARIABLES
  acall,     \* the cipher, key, nonce and counter of this call
  akeys,     \* the round keys, form by form
  around,    \* rounds done
  aref,      \* the eight blocks in the cipher of FIPS 197
  aheld      \* what each form holds

aes_vars == <<acall, akeys, around, aref, aheld>>

-----------------------------------------------------------------------------
(* f itself, its values computed at once and not whenever they are used.   *)
Now(f) == f @@ <<>>

(* Bytes of a word, words of a block.                                      *)
Byte(w, b) == Low(Shr(w, 8*b), 8)
Bytes4(f) == UNION {Shl(f[b], 8*b) : b \in 0 .. 3}
WordOf(n) == {i \in 0 .. 15 : (n \div (2^i)) % 2 = 1}
XorWords(X, Y) == Now([c \in DOMAIN X |-> Add(X[c], Y[c])])
NOT32(w) == (0 .. 31) \ w
ROR(w, n) == {(i - n) % 32 : i \in w}
br_swap32(w) == {8*(3 - (i \div 8)) + (i % 8) : i \in w}

sbox_lut ==
  << 99, 124, 119, 123, 242, 107, 111, 197, 48, 1, 103, 43, 254, 215, 171,
     118, 202, 130, 201, 125, 250, 89, 71, 240, 173, 212, 162, 175, 156, 164,
     114, 192, 183, 253, 147, 38, 54, 63, 247, 204, 52, 165, 229, 241, 113,
     216, 49, 21, 4, 199, 35, 195, 24, 150, 5, 154, 7, 18, 128, 226, 235, 39,
     178, 117, 9, 131, 44, 26, 27, 110, 90, 160, 82, 59, 214, 179, 41, 227,
     47, 132, 83, 209, 0, 237, 32, 252, 177, 91, 106, 203, 190, 57, 74, 76,
     88, 207, 208, 239, 170, 251, 67, 77, 51, 133, 69, 249, 2, 127, 80, 60,
     159, 168, 81, 163, 64, 143, 146, 157, 56, 245, 188, 182, 218, 33, 16,
     255, 243, 210, 205, 12, 19, 236, 95, 151, 68, 23, 196, 167, 126, 61,
     100, 93, 25, 115, 96, 129, 79, 220, 34, 42, 144, 136, 70, 238, 184, 20,
     222, 94, 11, 219, 224, 50, 58, 10, 73, 6, 36, 92, 194, 211, 172, 98,
     145, 149, 228, 121, 231, 200, 55, 109, 141, 213, 78, 169, 108, 86, 244,
     234, 101, 122, 174, 8, 186, 120, 37, 46, 28, 166, 180, 198, 232, 221,
     116, 31, 75, 189, 139, 138, 112, 62, 181, 102, 72, 3, 246, 14, 97, 53,
     87, 185, 134, 193, 29, 158, 225, 248, 152, 17, 105, 217, 142, 148, 155,
     30, 135, 233, 206, 85, 40, 223, 140, 161, 137, 13, 191, 230, 66, 104,
     65, 153, 45, 15, 176, 84, 187, 22 >>
SubByte(x) == BitsOf[sbox_lut[NumOf[Low(x, 4)] + 16*NumOf[Shr(x, 4)] + 1]]
SubWord(w) == Bytes4([b \in 0 .. 3 |-> SubByte(Byte(w, b))])

(* FIPS 197.  Turn moves row b by k*b columns.                             *)
SubBytes(X) == Now([c \in 0 .. 3 |-> SubWord(X[c])])
Turn(X, k) ==
  Now([c \in 0 .. 3 |-> Bytes4([b \in 0 .. 3 |-> Byte(X[(c + (k*b)) % 4], b)])])
ShiftRows(X) == Turn(X, 1)
MixColumns(X) ==
  Now([c \in 0 .. 3 |->
         LET a == Now([b \in 0 .. 3 |-> Byte(X[c], b)]) IN
         Bytes4([b \in 0 .. 3 |->
           LET d == a[(b + 1) % 4] IN
           Add(Add(Xtime(Add(a[b], d)), d), Add(a[(b + 2) % 4], a[(b + 3) % 4]))])])

Rcon == << {0}, {1}, {2}, {3}, {4}, {5}, {6}, {7}, {0, 1, 3, 4}, {1, 2, 4, 5} >>

(* The schedule for a key of nk words, as blocks from 0 to rounds.         *)
Schedule(key, nk, rounds) ==
  LET last == 4*rounds + 3
      f[i \in nk-1 .. last] ==
        IF i = nk-1 THEN [j \in 0 .. nk-1 |-> key[j]]
        ELSE LET w == f[i-1]
                 t == IF i % nk = 0 THEN Add(SubWord(ROR(w[i-1], 8)), Rcon[i \div nk])
                      ELSE IF nk > 6 /\ i % nk = 4 THEN SubWord(w[i-1]) ELSE w[i-1]
             IN  [j \in 0 .. i |-> IF j = i THEN Add(w[i-nk], t) ELSE w[j]]
      ws == f[last]
  IN  [r \in 0 .. rounds |-> [c \in 0 .. 3 |-> ws[4*r + c]]]

-----------------------------------------------------------------------------
(* The round keys of the instructions, a block at a time.  NEON: the first *)
(* word of a block from the last word before it, the others from their     *)
(* predecessor.                                                            *)
sbox_ror(w) == ROR(SubWord(w), 8)
NextBlock(old, t) ==
  LET w0 == Add(old[0], t)  w1 == Add(old[1], w0)  w2 == Add(old[2], w1) IN
  [c \in 0 .. 3 |-> <<w0, w1, w2, Add(old[3], w2)>>[c+1]]
KeyBlock(key, r) == [c \in 0 .. 3 |-> key[4*r + c]]

keyexp_128(key, rounds) ==
  LET f[r \in 0 .. rounds] ==
        IF r = 0 THEN <<KeyBlock(key, 0)>>
        ELSE LET rk == f[r-1]
                 old == rk[r]
             IN  rk \o <<NextBlock(old, Add(Rcon[r], sbox_ror(old[3])))>>
  IN  [r \in 0 .. rounds |-> f[rounds][r+1]]
aes128_keyexp_neonaes(key) == keyexp_128(key, 10)
aes128_4r_keyexp_neonaes(key) == keyexp_128(key, 4)
aes256_keyexp_neonaes(key) ==
  LET f[r \in 1 .. 14] ==
        IF r = 1 THEN <<KeyBlock(key, 0), KeyBlock(key, 1)>>
        ELSE LET rk == f[r-1]
                 last == rk[r][3]
             IN  rk \o <<NextBlock(rk[r-1], IF r % 2 = 0 THEN Add(Rcon[r \div 2], sbox_ror(last))
                                            ELSE SubWord(last))>>
  IN  [r \in 0 .. 14 |-> f[14][r+1]]

(* x86: the instruction answers the substituted third and fourth word, one *)
(* of them rotated; the shifts of the register add up its prefixes.        *)
aeskeygenassist(X, rcon) ==
  [c \in 0 .. 3 |-> LET s == SubWord(X[2*(c \div 2) + 1]) IN
                    IF c % 2 = 0 THEN s ELSE Add(ROR(s, 8), rcon)]
slli(X) == [c \in 0 .. 3 |-> IF c = 0 THEN {} ELSE X[c-1]]
AES_128_ASSIST(temp1, word) ==
  LET s1 == slli(temp1)  s2 == slli(s1)  s3 == slli(s2) IN
  XorWords(XorWords(XorWords(XorWords(temp1, s1), s2), s3), [c \in 0 .. 3 |-> word])
Key_Expansion_128(key, rounds) ==
  LET f[r \in 0 .. rounds] ==
        IF r = 0 THEN <<KeyBlock(key, 0)>>
        ELSE LET rk == f[r-1]
                 old == rk[r]
             IN  rk \o <<AES_128_ASSIST(old, aeskeygenassist(old, Rcon[r])[3])>>
  IN  [r \in 0 .. rounds |-> f[rounds][r+1]]
AES128_Key_Expansion(key) == Key_Expansion_128(key, 10)
AES128_4R_Key_Expansion(key) == Key_Expansion_128(key, 4)
AES256_Key_Expansion(key) ==
  LET f[r \in 1 .. 14] ==
        IF r = 1 THEN <<KeyBlock(key, 0), KeyBlock(key, 1)>>
        ELSE LET rk == f[r-1]
                 last == rk[r]
             IN  rk \o <<AES_128_ASSIST(rk[r-1],
                           IF r % 2 = 0 THEN aeskeygenassist(last, Rcon[r \div 2])[3]
                           ELSE aeskeygenassist(last, {})[2])>>
  IN  [r \in 0 .. 14 |-> f[14][r+1]]

-----------------------------------------------------------------------------
(* Fixsliced words.                                                        *)
SWAPMOVE(a, b, mask, n) ==
  LET tmp == Add(b, Shr(a, n)) \cap mask IN [a |-> Add(a, Shl(tmp, n)), b |-> Add(b, tmp)]
Swapmoves(s, d) ==   \* words d apart, by d places
  LET mask == {i \in 0 .. 31 : (i \div d) % 2 = 0} IN
  Now([k \in 0 .. 7 |-> IF (k \div d) % 2 = 0 THEN SWAPMOVE(s[k+d], s[k], mask, d).b
                        ELSE SWAPMOVE(s[k], s[k-d], mask, d).a])
packing(in0, in1) ==
  Swapmoves(Swapmoves(Swapmoves(
    [k \in 0 .. 7 |-> IF k % 2 = 0 THEN in0[k \div 2] ELSE in1[k \div 2]], 1), 2), 4)
unpacking(s) ==
  LET t == Swapmoves(Swapmoves(Swapmoves(s, 4), 2), 1) IN
  <<Now([c \in 0 .. 3 |-> t[2*c]]), Now([c \in 0 .. 3 |-> t[2*c + 1]])>>

(* Mutant: every key is turned back by one row.                            *)
TurnKeyOnce(rk, r) ==
  [c \in 0 .. 3 |-> Bytes4([b \in 0 .. 3 |-> Byte(rk[(c - b) % 4], b)])]
(* The round keys: turned back by as many rows as the state will be, and   *)
(* with the four NOTs that the S-box leaves out.                           *)
TurnKey(rk, r) ==
  LET old(c, b) == CASE r % 4 = 0 -> rk[c]
                     [] r % 4 = 1 -> rk[(c - b) % 4]
                     [] r % 4 = 2 -> rk[(c + (2*b)) % 4]
                     [] r % 4 = 3 -> rk[(c + b) % 4]
  IN  [c \in 0 .. 3 |-> Bytes4([b \in 0 .. 3 |-> Byte(old(c, b), b)])]
PackKey(rk, r) ==
  LET k == packing(rk, rk) IN
  [i \in 0 .. 7 |-> IF r > 0 /\ i \in {1, 2, 6, 7} THEN NOT32(k[i]) ELSE k[i]]
aes128_keyschedule_ffs_lut(key) ==
  LET rk == keyexp_128(key, 10) IN
  [r \in 0 .. 10 |-> PackKey(IF r \in 1 .. 9 THEN TurnKey(rk[r], r) ELSE rk[r], r)]
aes128_4r_keyschedule_ffs_lut(key) ==
  LET rk == keyexp_128(key, 4) IN
  [r \in 0 .. 4 |-> PackKey(IF r > 0 THEN TurnKey(rk[r], r) ELSE rk[r], r)]

ark(s, rk) == XorWords(s, rk)

(* The S-box as 113 gates over the state, 0 to 7, and t0 to t17, 8 to 25.  *)
X(d, x, y) == <<d, "xor", x, y>>
A(d, x, y) == <<d, "and", x, y>>
Gates ==
  << X(8,3,5), X(9,0,6), X(10,9,8), X(11,4,10), X(12,11,5), A(13,10,12),
     X(14,12,7), X(15,11,1), X(16,0,3), X(17,15,16), A(18,16,17), X(19,7,17),
     X(20,0,5), X(21,1,2), X(22,12,21), X(23,22,17), A(24,8,23), X(25,24,18),
     X(1,22,20), A(2,20,22), X(2,2,18), X(4,21,17), X(5,9,4), A(11,9,4),
     X(18,0,4), X(21,21,7), X(3,3,21), A(24,3,7), X(24,24,13), X(24,24,2),
     X(1,1,24), X(0,0,21), A(24,0,19), X(24,24,11), X(2,2,24), X(2,2,18),
     X(6,6,21), A(18,6,21), X(11,11,18), X(11,11,25), X(5,5,11), X(11,6,20),
     A(18,11,14), X(13,13,18), X(13,13,15), X(13,13,25), A(15,13,5),
     X(18,2,15), X(15,15,1), X(13,13,1), A(24,13,18), X(1,1,24), A(25,1,0),
     A(19,1,19), X(24,5,2), A(15,15,24), X(15,15,2), X(24,18,15), A(2,2,24),
     X(18,18,2), A(18,18,1), X(13,13,18), X(18,1,13), A(4,4,18), X(19,19,4),
     A(9,9,18), A(6,6,13), A(18,13,21), X(4,4,18), X(5,5,15), X(2,2,5),
     X(5,13,2), A(13,5,22), A(18,5,20), X(20,15,2), A(12,12,20), A(10,10,20),
     A(11,11,2), A(2,2,14), X(2,2,12), X(21,4,2), A(3,3,15), X(1,1,15),
     X(5,5,1), A(14,5,23), X(4,4,14), A(8,8,5), A(5,1,17), X(5,5,4),
     A(1,1,16), X(14,1,5), X(8,8,1), X(1,11,8), X(23,1,3), X(10,10,1),
     X(0,10,5), X(3,10,21), X(1,3,5), X(8,8,6), A(5,15,7), X(22,12,5),
     X(6,9,22), X(6,6,13), X(6,6,4), X(2,25,6), X(5,23,2), X(2,2,14),
     X(2,2,18), X(22,22,19), X(8,8,22), X(6,6,8), X(7,9,8), X(4,22,3) >>
sbox(s) ==
  LET f[n \in 0 .. Len(Gates)] ==
        IF n = 0 THEN [k \in 0 .. 25 |-> IF k < 8 THEN s[k] ELSE {}]
        ELSE LET w == f[n-1]
                 g == Gates[n]
             IN  [w EXCEPT ![g[1]] = IF g[2] = "xor" THEN Add(w[g[3]], w[g[4]])
                                     ELSE w[g[3]] \cap w[g[4]]]
      out == f[Len(Gates)]
  IN  Now([k \in 0 .. 7 |-> out[k]])

(* MixColumns where the rows have not been shifted: the neighbour below is *)
(* a rotation of the word by a row and of its bytes by rowturn, the column *)
(* below that another.                                                     *)
BYTE_ROR(w, n) == {8*(i \div 8) + ((i - n) % 8) : i \in w}
MixTurned(s, one, two) ==
  LET below == Now([k \in 0 .. 7 |-> ROR(BYTE_ROR(s[k], one), 8)])
      u == XorWords(s, below)
      top(k) == IF k \in {3, 4, 6} THEN u[0] ELSE {}
  IN  Now([k \in 0 .. 7 |-> Add(Add(ROR(BYTE_ROR(u[k], two), 16), below[k]),
                                Add(u[(k + 1) % 8], top(k)))])
mixcolumns_0(s) == MixTurned(s, 6, 4)
mixcolumns_1(s) == MixTurned(s, 4, 0)
mixcolumns_2(s) == MixTurned(s, 2, 4)
mixcolumns_3(s) == MixTurned(s, 0, 0)
mixcolumns(s, r) ==
  CASE r % 4 = 1 -> mixcolumns_0(s) [] r % 4 = 2 -> mixcolumns_1(s)
    [] r % 4 = 3 -> mixcolumns_2(s) [] r % 4 = 0 -> mixcolumns_3(s)

double_shiftrows(s) ==
  LET mask == 8 .. 11 \cup 24 .. 27 IN
  [k \in 0 .. 7 |->   \* both operands are the same word: b first, then a
     LET tmp == Add(s[k], Shr(s[k], 4)) \cap mask IN Add(Add(s[k], tmp), Shl(tmp, 4))]

(* Round r of the ciphers: 10 rounds, or 4 without the last MixColumns.    *)
aes128_encrypt_ffs(s, rk, r) ==
  ark(IF r = 10 THEN double_shiftrows(sbox(s)) ELSE mixcolumns(sbox(s), r), rk[r])
aes128_4r_encrypt_ffs(s, rk, r) ==
  ark(IF r = 4 THEN sbox(s) ELSE mixcolumns(sbox(s), r), rk[r])

(* The four lanes: blocks 2l and 2l+1 are in lane l.                       *)
_packing(iv, ctr) ==
  [l \in 0 .. 3 |->
     LET nctr(v) == br_swap32(WordOf(ctr + (2*l) + v))
         w(v) == [c \in 0 .. 3 |-> IF c < 3 THEN iv[c] ELSE nctr(v)]
     IN  packing(w(0), w(1))]
unpacking_lanes(s) == [i \in 0 .. 7 |-> unpacking(s[i \div 2])[(i % 2) + 1]]
_sbox(s) == [l \in 0 .. 3 |-> sbox(s[l])]
neon_mixcolumns_0(s) == [l \in 0 .. 3 |-> mixcolumns_0(s[l])]
neon_mixcolumns_1(s) == [l \in 0 .. 3 |-> mixcolumns_1(s[l])]
neon_mixcolumns_2(s) == [l \in 0 .. 3 |-> mixcolumns_2(s[l])]
neon_mixcolumns_3(s) == [l \in 0 .. 3 |-> mixcolumns_3(s[l])]
neon_double_shiftrows(s) == [l \in 0 .. 3 |-> double_shiftrows(s[l])]
neon_ark(s, rk) == [l \in 0 .. 3 |-> XorWords(s[l], rk)]

neon_aes128ctrx8_encrypt_ffs(s, rk, r) ==
  LET t == _sbox(s) IN
  neon_ark(IF r = 10 THEN neon_double_shiftrows(t)
           ELSE CASE r % 4 = 1 -> neon_mixcolumns_0(t) [] r % 4 = 2 -> neon_mixcolumns_1(t)
                  [] r % 4 = 3 -> neon_mixcolumns_2(t) [] r % 4 = 0 -> neon_mixcolumns_3(t), rk[r])
neon_aes128ctrx8_4r_encrypt_ffs(s, rk, r) ==
  LET t == _sbox(s) IN
  neon_ark(CASE r = 1 -> neon_mixcolumns_0(t) [] r = 2 -> neon_mixcolumns_1(t)
             [] r = 3 -> neon_mixcolumns_2(t) [] r = 4 -> t, rk[r])

-----------------------------------------------------------------------------
(* The instructions.                                                       *)
aesenc(x, rk) == XorWords(MixColumns(SubBytes(ShiftRows(x))), rk)
aesenclast(x, rk) == XorWords(SubBytes(ShiftRows(x)), rk)
vaese(x, rk) == SubBytes(ShiftRows(XorWords(x, rk)))
vaesmc(x) == MixColumns(x)

(* Round r of each cipher, the key before it in ARM and after it in x86.   *)
aesni_round(x, rk, r, rounds) == IF r = rounds THEN aesenclast(x, rk[r]) ELSE aesenc(x, rk[r])
AES256_CTR_Encrypt(x, rk, r) == aesni_round(x, rk, r, 14)
AES128_CTR_Encrypt(x, rk, r) == aesni_round(x, rk, r, 10)
AES128_4R_CTR_Encrypt(x, rk, r) == aesni_round(x, rk, r, 4)
neonaes_round(x, rk, r, rounds) ==
  LET t == vaese(x, rk[r-1]) IN IF r = rounds THEN XorWords(t, rk[r]) ELSE vaesmc(t)
aes256ctrx4_enc_neonaes(x, rk, r) == neonaes_round(x, rk, r, 14)
aes128ctrx4_enc_neonaes(x, rk, r) == neonaes_round(x, rk, r, 10)
aes128ctrx4_4r_enc_neonaes(x, rk, r) == neonaes_round(x, rk, r, 4)

-----------------------------------------------------------------------------
(* A call: eight blocks with the counters ctr to ctr + 7, which the        *)
(* bitsliced form takes by two, the ARM instructions by four, and the      *)
(* lanes all at once.                                                      *)
Rounds(cipher) ==
  CASE cipher = "aes128" -> 10 [] cipher = "aes128_4r" -> 4 [] cipher = "aes256" -> 14
CtrBlock(iv, n) == [c \in 0 .. 3 |-> IF c < 3 THEN iv[c] ELSE br_swap32(WordOf(n))]
aes128ctr_ptexts(iv, ctr, l) == <<CtrBlock(iv, ctr + (2*l)), CtrBlock(iv, ctr + (2*l) + 1)>>
ctrx4(iv, ctr) == [i \in 0 .. 3 |-> CtrBlock(iv, ctr + i)]

RoundKeys(cipher, key) ==
  CASE cipher = "aes256" ->
         [ ref |-> Schedule(key, 8, 14), ni |-> AES256_Key_Expansion(key),
           neon |-> aes256_keyexp_neonaes(key), ffs |-> <<>> ]
    [] cipher = "aes128" ->
         [ ref |-> Schedule(key, 4, 10), ni |-> AES128_Key_Expansion(key),
           neon |-> aes128_keyexp_neonaes(key), ffs |-> aes128_keyschedule_ffs_lut(key) ]
    [] cipher = "aes128_4r" ->
         [ ref |-> Schedule(key, 4, 4), ni |-> AES128_4R_Key_Expansion(key),
           neon |-> aes128_4r_keyexp_neonaes(key), ffs |-> aes128_4r_keyschedule_ffs_lut(key) ]

AesIdle == acall = <<>> /\ akeys = <<>> /\ around = -1 /\ aref = <<>> /\ aheld = <<>>

AesInit ==
  \E cipher \in {"aes128", "aes128_4r", "aes256"},
     key \in AesKeys, iv \in AesNonces, ctr \in AesCtrs :
    LET keys == RoundKeys(cipher, key)
        blocks == [i \in 0 .. 7 |-> CtrBlock(iv, ctr + i)]
        sliced == cipher # "aes256"
    IN
    /\ acall = [cipher |-> cipher, key |-> key, iv |-> iv, ctr |-> ctr]
    /\ akeys = keys
    /\ around = 0
    /\ aref = [i \in 0 .. 7 |-> XorWords(blocks[i], keys.ref[0])]
    /\ aheld =
         [ ni |-> [i \in 0 .. 7 |-> XorWords(blocks[i], keys.ni[0])],
           neon |-> [i \in 0 .. 7 |-> ctrx4(iv, ctr + (4*(i \div 4)))[i % 4]],
           ffs |-> IF sliced
                   THEN [l \in 0 .. 3 |->
                          LET p == aes128ctr_ptexts(iv, ctr, l) IN
                          ark(packing(p[1], p[2]), keys.ffs[0])]
                   ELSE <<>>,
           lanes |-> IF sliced THEN neon_ark(_packing(iv, ctr), keys.ffs[0]) ELSE <<>> ]

AesRound(r) ==
  LET R == Rounds(acall.cipher)
      k == akeys
      ref(x) == LET y == ShiftRows(SubBytes(x)) IN
                XorWords(IF r = R THEN y ELSE MixColumns(y), k.ref[r])
      ni(x) == CASE R = 10 -> AES128_CTR_Encrypt(x, k.ni, r)
                 [] R = 4 -> AES128_4R_CTR_Encrypt(x, k.ni, r)
                 [] R = 14 -> AES256_CTR_Encrypt(x, k.ni, r)
      neon(x) == CASE R = 10 -> aes128ctrx4_enc_neonaes(x, k.neon, r)
                   [] R = 4 -> aes128ctrx4_4r_enc_neonaes(x, k.neon, r)
                   [] R = 14 -> aes256ctrx4_enc_neonaes(x, k.neon, r)
      ffs(s) == IF R = 10 THEN aes128_encrypt_ffs(s, k.ffs, r)
                ELSE aes128_4r_encrypt_ffs(s, k.ffs, r)
      lanes(s) == IF R = 10 THEN neon_aes128ctrx8_encrypt_ffs(s, k.ffs, r)
                  ELSE neon_aes128ctrx8_4r_encrypt_ffs(s, k.ffs, r)
  IN  /\ aref' = [i \in 0 .. 7 |-> ref(aref[i])]
      /\ aheld' =
           [ ni |-> [i \in 0 .. 7 |-> ni(aheld.ni[i])],
             neon |-> [i \in 0 .. 7 |-> neon(aheld.neon[i])],
             ffs |-> IF R = 14 THEN <<>> ELSE [l \in 0 .. 3 |-> ffs(aheld.ffs[l])],
             lanes |-> IF R = 14 THEN <<>> ELSE lanes(aheld.lanes) ]

AesStep ==
  /\ around >= 0
  /\ around < Rounds(acall.cipher)
  /\ around' = around + 1
  /\ AesRound(around + 1)
  /\ UNCHANGED <<acall, akeys>>

-----------------------------------------------------------------------------
(* The table of the S-box is the inverse in GF(256) under the affine map   *)
(* of FIPS 197, and the circuit is the table without four NOTs.            *)
SboxRight ==
  LET unmap(s) == Add({i \in 0 .. 7 : Odd({j \in {2, 5, 7} : (i + j) % 8 \in s})}, {0, 2})
      all == [k \in 0 .. 7 |-> {n \in 0 .. 255 : 7-k \in BitsOf[n]}]
      circuit == sbox(all)
  IN  /\ \A n \in 0 .. 255 :
           LET x == BitsOf[n]  y == unmap(SubByte(x)) IN
           IF x = {} THEN y = {} ELSE Mul256(x, y) = {0}
      /\ \A n \in 0 .. 255, k \in 0 .. 7 :
           (n \in circuit[k]) = ((7-k \in SubByte(BitsOf[n])) # (k \in {1, 2, 6, 7}))

(* Round by round every form holds the eight blocks of FIPS 197: the x86   *)
(* instructions as they are, the ARM ones without the round's key, which   *)
(* the next instruction adds, and the fixsliced forms with row b turned    *)
(* back by b columns for every round, in step again at the end.            *)
AesInStep ==
  around >= 0 =>
    LET R == Rounds(acall.cipher)
        back == IF around = R THEN 0 ELSE around
        pair(l) == <<Turn(aref[2*l], -back), Turn(aref[(2*l) + 1], -back)>>
    IN
    /\ SboxRight
    /\ aheld.ni = aref
    /\ \A i \in 0 .. 7 :
         aref[i] = IF around = R THEN aheld.neon[i] ELSE XorWords(aheld.neon[i], akeys.ref[around])
    /\ R # 14 =>
         /\ \A l \in 0 .. 3 : unpacking(aheld.ffs[l]) = pair(l)
         /\ \A i \in 0 .. 7 : unpacking_lanes(aheld.lanes)[i] = pair(i \div 2)[(i % 2) + 1]
=============================================================================
