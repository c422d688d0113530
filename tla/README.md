# A verification project for signatures-and-ecc-vibe

The repository signs perceptual hashes (pHashes) of media and sends the signature
through a covert channel. It holds a post-quantum signature library (`UOV/pqov`, C),
a small wrapper around RELIC's BLS (`BLS/`), a unified API over the two
(`unified-api/stego_sig.h` with one backend for each), and a command line tool that
uses the API through files. This directory models that system in TLA+, checks the
models with TLC and proves the properties that matter most with TLAPS.

Paths below are relative to the repository. `PROJECT.json` maps every definition
that models code to the lines it stands for.

## 1. The system

| part | state | operations | uses |
|---|---|---|---|
| public seed expander, `UOV/pqov/utils/utils_prng.c` | `used`, `ctr`, `buf`, key schedule | set, generate n bytes, skip n bytes | AES |
| AES, `aes128_4r_ffs.c`, `neon_aesffs.c`, `x86aesni.c`, `aes_neonaes.c` | round keys | key schedules, counter mode over several blocks, 10 and 4 rounds | |
| hashing, `utils_hash.c`, `fips202.c` | Keccak state and position | init, update, copy, finalize, squeeze | |
| key expansion, `ov_keypair.c` | public and secret key buffers, write pointer | `expand_pk`, `expand_pk_predicate`, `expand_sk`, `generate_keypair*` | expander, algebra |
| UOV algebra, `parallel_matrix_op.c`, `ov_keypair_computation.c`, `ov_publicmap.c` | none, functions on matrices | batched products, S and P3, public map | backends |
| backends, `ref/`, `amd64/`, `ssse3/`, `avx2/`, `gfni/`, `neon/`, `blas_matrix.c` | none, functions on vectors and matrices | elements, vectors, matrix products, Gaussian elimination, back substitution, per instruction set | |
| UOV signatures, `ov.c` | retry counter, vinegar values, hash contexts, expanded keys | `ov_sign*`, `ov_verify*`, `ov_expand_and_sign`, `ov_expand_and_verify` | algebra, SHAKE, random bytes |
| NIST API, `sign.c` | the caller's buffers | `crypto_sign*` | UOV signatures |
| NIST test randomness, `utils/nistkat/rng.c` | DRBG and seed expander state | init, draw, reseed | AES |
| unified API, BLS, `stego_sig_bls.c` | `s_initialized`, RELIC's core | init, cleanup, keygen, sign, verify, sizes | RELIC |
| unified API, UOV, `stego_sig_uov.c` | none | the same | UOV signatures |
| BLS wrapper, `BLS/bls_stego.c` | RELIC's core, the caller's pieces of a message | init, cleanup, keygen, sign, assemble, disassemble, verify | RELIC |
| payload tool, `stego_payload_tool.c` | files | keygen, generate, generate with an imported key, verify | unified API, stdio |
| demonstrations, unit tests, benchmarks, packaging, estimator | | | everything |

How they meet: the tool calls the API and meets other tools only in files; the API's
backends call a signature library; a signer and a verifier share a public key and a
payload, and nothing else; inside the UOV library the key generator, the
signer and the verifier each expand the same seed in their own way. The two BLS
libraries never meet in a process, but they write and read the same payloads. A build
selects one backend and one AES, and a key and a message must give the same bytes in
each of them.

### What is hard here, and what must hold

- *Buffering.* The seed expander serves bytes from a partly consumed refill, and can
  skip bytes. Whatever the sequence of calls, a call must deliver the seed's bytes
  at the position it is made (`StreamSpec`), with a 32-bit counter that may wrap.
- *Four readers of one key.* Key generator, signer and verifier cut the stream
  differently and the verifier leaves rows out. They must mean the same key
  (`SameKey`), and what is left out must not be needed (`NeededRowsWritten`).
- *Hashing in pieces.* Contexts are fed piece by piece, copied in the middle, and read in
  two ways. A digest must depend on the bytes alone (`XofSpec`).
- *Retries.* A signer retries with another counter until a linear system is regular.
  Attempts must differ (`RetriesDiffer`), a singular system must never yield
  a signature (`SignatureVerifies`), and the loop must end (`Returns`).
- *Two ways to the secret key* must agree (`SameSecretKey`), and a verifier that
  expands a compressed key, wholly or only where it needs it, must answer as one with the
  classic key (`SignatureVerifies`).
- *Lengths that are no multiple of a register.* Each vector function treats the remainder
  in its own way: with a head register that overlaps the next one and is repaired, with
  partial registers, or with bytes from the end (`VectorsRight`). Matrix products load
  whole registers that reach into the next column, and there is none behind the last
  (`ProductReadsInBounds`, `ProductRight`).
- *Elements in words.* A word holds up to 16 elements of GF(16), and a product must not
  carry from one into the next (`FieldRight`).
- *Pivots.* A zero pivot is repaired in constant time, where some backends read it again
  and others do not; all must refuse the same systems (`RefusesTheSame`) and solve
  the others (`SolutionRight`).
- *Walking through triangles.* A triangle has no fixed stride, odd rows of GF(16) begin in
  the middle of a byte, and the last rows of a form are one product (`BatchRight`).
- *Buckets and rounded-up reads.* The public map adds whole registers, which bring along bytes of
  the next coefficient; they must not get into the result, and the last
  coefficient has no next one (`PublicMapRight`).
- *Ciphers that skip steps.* The fixsliced AES never shifts rows, and turns its round keys
  instead (`AesInStep`).
- *Generators at their limit.* The seed expander serves a length fixed beforehand
  (`ExpanderSpec`, `LengthKept`), and the DRBG must never encrypt a block twice
  under one key (`BlocksFresh`).
- *Buffers that overlap.* `crypto_sign` writes the signature before it moves the message, and
  `crypto_sign_open` copies over its own input; `MessageCarried` says which messages arrive, for every overlap.
- *Two readers of one format.* The BLS wrapper finds the parts of a payload by another
  rule than the unified API (`ReadersAgree`).
- *Parsing by length.* The verifier of the API learns what a payload contains
  from its length and from its own idea of the pHash length, on a channel that damages
  payloads, and pHash and salt are signed as one string without a length. No cut
  may turn one signed pHash into another (`Authentic`), no read may leave the payload
  (`ReadsInBounds`), and an undamaged payload must be accepted (`RoundTrip`).
- *Verification by recovery.* The UOV backend returns a hash and a code that says
  nothing of validity; what the caller can rely on is a comparison
  (`ComparedSpec`). What is recovered depends on the pHash's length, and the signer, the library's own verifier and
  the documents must mean the same by it (`DigestVerified`, `RecoversHash`).
- *Half-done files.* The tool truncates and rewrites files one after the other, can
  be killed in between, does not look at what `fclose` returns, and may run twice
  at a time. A later run that no other writer disturbs must repair what is there, and
  must not leave an earlier run's file even where its own flush is lost
  (`KeygenRepairs`, `GenerateRepairs`); a verifier that sees parts of two runs or half a
  file must not call them valid (`VerifyAnswers`).

`PROJECT.json` lists these hazards with their lines, and which property would catch each.

## 2. The modules

```
KeyStream  <== refines ==  PrngPublicInputs  <-- ExpandPk, Generators  (--> NistRng)
Xof        <== refines ==  KeccakSponge

UovMap  <-- OvSign

Widths  <-- VectorOps, MatrixProducts, BucketMap     \
BitSets  <-- FieldArith, AesCiphers, BucketMap        >  <-- Backends
LinearSolvers, BatchProducts                         /

                 AuthChannel  <== refines ==  StegoSigBls, StegoSigUov
StegoBytes  <--  StegoSigBls  <--  BlsStego
StegoBytes  <--  StegoSigUov  <--  NistApi

PayloadTool

Generators, ExpandPk  <--  Generators_proofs           KeccakSponge_proofs
OvSign  <--  OvSign_proofs                             PayloadTool_proofs
Backends  <--  Backends_proofs
StegoBytes_proofs     <--  BlsStego_proofs, NistApi_proofs
```

Each `MC*` module instantiates the module after its prefix for TLC. Modules that serve the same
purpose and share no state run side by side in one model (Generators, Backends): a
behaviour is the life of one of them while the others are idle. MCGenerators also takes in the readers of ExpandPk, which
have the expander to themselves. A module `X_proofs` extends X and has
the theorems about it, `Generators_proofs` also those about ExpandPk, which rest on the same generator, and `OvSign_proofs` the
lemmas about UovMap's algebra; those of StegoBytes are lemmas only, which the next modules cite.

**KeyStream** (abstract). The bytes of a seed's stream, a position, and two
operations: deliver the next n, or move on by n.

**PrngPublicInputs** models `utils_prng.c` lines 247-341: `used`, `ctr` and `buf` are the
fields of `prng_publicinputs_t`. `Gen(n)` is `prng_gen_publicinputs`, with its three
parts (rest of the buffer, whole refills into the caller's memory, a new refill for the
tail) and `Skip(n)` is `prng_skip_publicinputs`. A key stream byte is the
pair of the counter that was encrypted and the offset in the block. That is faithful
because AES under one key is a permutation: two such bytes are known to
be equal only when the pairs are. The counter is `% CtrMod`. `pos` and `out` are history: they record what
was asked for and what the last call wrote.

**ExpandPk** runs one reader of `ov_keypair.c` over the expander: `expand_pk`,
`expand_sk`, or `expand_pk_predicate` for each pattern of zeros in the vinegar part of a
signature. It shares the expander's variables, so that each request is a `Gen` or a `Skip`
of the model above, and collects the buffer `pk`.

**NistRng** models `rng.c`: the seed expander with its limit, its big-endian counter and buffer, and the
DRBG with its carry loop. A refused request writes nothing. `vuses` is history, the blocks encrypted so far under each of the
numbered keys.

**UovMap** is the algebra as operators. A coefficient is a vector over the o equations;
triangles are functions on the pairs `i <= j`. Each operator is the C function of the
same name, and keeps what could go wrong in it: the cleared diagonal of
`batch_2trimat_madd`, mirrored entries of `batch_upper_matTr_x_mat`, buckets of monomials
by value in `accu_eval_quad`, the pivot repair and success flag of
`gfmat_gaussian_elim`. Key generation and both expansions of both keys are operators on what
a seed expands to. How the code packs elements and finds its way through memory is
in the modules of Backends.

**OvSign** is one call of a signer from its entry to its return: `Expand` (the memory and the
secret key of `ov_expand_and_sign`, when `csk` says that it is that one), `Start` (salt,
hash, target, base contexts), `RejectDigest`, one `Attempt` per round,
`GiveUp`, `Finish`, `Free`. Hashing gives some member of `Vinegars` in each round, so that
every sequence of regular and singular systems occurs. `live` is the set of hash
contexts, and expanded keys on the heap, that exist between steps. The verifiers are operators: `ov_verify`,
`ov_verify_digest`, and `ov_expand_and_verify` with the whole key expanded or (`_some`) the rows the signature
needs over whatever the memory held.

**VectorOps** has the vector functions of every backend as sequences of moves, each with the bytes it combines, loads
and puts back. Field arithmetic is abstracted: a byte of the destination is the sequence of
source bytes that were combined into it. `top` is the end of what was read.

**MatrixProducts** has the matrix products as sequences of kernel calls, each over some columns and registers,
with what a register loads of every column, of the last, and what it stores. A byte of the result
is the set of its terms.

**FieldArith** computes one pair of operands in every function of every backend: single elements, machine words, byte
shuffles, logarithms, polynomial products and affine matrices, on bits (**BitSets**). A product that would
carry between the elements of a word gets a mark that no result may have.

**LinearSolvers** has the eliminations and substitutions of every backend as they lay out, transpose
and repair the matrix, over the field of four elements, a pivot or a column at a time.

**BatchProducts** has the loops of `parallel_matrix_op.c`, whose terms are pairs of an address in
the triangle and an element of the other operand, for the three forms that operand can have: two elements
in a byte (`gf16`), one (`gf256`), or a table for each (`multab`).

**BucketMap** has `ov_publicmap.c` byte by byte: a byte of a bucket is the set of addresses in
the key that were added to it, a byte of the result such a set for each power of two.

**AesCiphers** encrypts the same eight counter blocks in the four forms a build can select, next to
the cipher of FIPS 197, a round at a time, with bits for words. `AesInStep` says that after each round the words of
every form are those of the blocks, in that form's order.

**Xof** (abstract). A hash context stands for the bytes it was given, a copy for the same bytes,
and a digest is a prefix of the stream that the bytes name.

**KeccakSponge** models the default build of `utils_hash.c` over the incremental SHAKE of
`fips202.c`: the sponge's state and position, absorbing, padding, and the two ways of squeezing, for
any number of contexts that are fed, copied and finalised in any order. The permutation is injective, so
a state is written as the blocks that were permuted into it, each a set of bytes per cell; exclusive or is the symmetric
difference of such sets, so that a byte added twice is lost. `RATE` is that of SHAKE256 or SHAKE128.

**AuthChannel** (abstract) says what an accepted payload means: the pair of key
and pHash was signed.

**StegoBytes** has the bytes of payloads, and the faults of the channel: a payload
is cut anywhere, padded with up to `PK_BYTE + 1` bytes, or has one byte changed.

**StegoSigBls** models `stego_sig_bls.c` whole. `core` and `s_initialized` are
RELIC's state and the static flag; `core_init` of a core that is up, and `core_clean` of one that is down, break it, and
`stego_init` and `stego_cleanup` may be called at any time and any number of times. `stego_sign` and `stego_verify` have one disjunct for each
way out, in the code's order; `sent` keeps the arguments, return code and outputs of the last
signing, and `verdict` those of a verification until the next call of anything else, which
is enough, for `stego_verify` keeps no state. Bytes that do not verify yield `ERR_VERIFY`, or `ERR` when they
do not decode to a point. Signatures are ideal: `cp_bls_ver` accepts the bytes
of the signature of this input under this key, and no others.

**BlsStego** adds `bls_stego.c` to that: a process has one of the two libraries (`lib`), and both use the channel
and histories of StegoSigBls, so that everything promised of one is checked of the other. The caller holds the
pieces between two calls (`held`, `cut`). `bls_verify` has one way to refuse; bytes that are
no point are invalid there.

**StegoSigUov** models `stego_sig_uov.c` in the same shape. The public map of a key gives
back the target at its signature and noise elsewhere; that the library does the first
is what `SignatureVerifies` of OvSign says. `ov_verify_digest` is the library's own verifier of digests, which the backend does not
call; it draws the line between embedded and hashed pHashes for itself (`expected_hash`), and `DigestVerified` says that it draws it where the signer does.

**NistApi** adds `sign.c` as a second interface of the UOV library (`api`). Its buffers are places in
one memory `mem` of the caller, so that message and signed message can overlap in every way. A
signature may fail, and a signed message may be damaged or cut. `MessageCarried` leaves no overlap out: after signing, the signature is in its place
always, and the message beside it exactly if it did not reach that place; after opening, the message is there but where the
output starts inside of the input, and then the bytes in front are repeated.

**PayloadTool** models `stego_payload_tool.c` as processes over four files. A command is a
sequence of steps: `keygen`, `sign`, `open` (which truncates), `write`, `read`, `judge`.
A file's content is missing, empty, torn, or a whole value named by the key pair and pHash
it was made from. Failures are a failing `stego_init`, `stego_keygen`, `stego_sign`, `fopen` or `fwrite`, a flush lost in
`fclose`, and a kill between any two steps. `alone` says of a running process that no other writer ran meanwhile, and `lost` of which
of its files a flush was lost: the promises hold for the other files of such a run, and the file itself is empty or cut short. The command line's syntax and hex
conversion are left out.

## 3. The runs

All properties hold in the seven runs above the line of dots. TLC finds the other five violated, each by
what the code does against what a comment or document of the repository says.

| run | question | instance |
|---|---|---|
| `prng` | Does the buffered expander deliver the stream, for every sequence of requests and skips? Do all readers of a seed mean the same key? Do the generators of `rng.c` keep to their lengths and keys? | blocks of 2 bytes, refills of 3 blocks, 18 counter values, lengths 0 to 14, 60 bytes in all; keys of 4 vinegar and 2 oil variables, 2 bytes a coefficient, all 16 zero patterns; expanders of 0 to 16 bytes with counters of 4 binary digits; a DRBG with counters of 3 bits and 2 requests |
| `sponge` | Does a digest depend on the bytes only, however they came? | blocks of 3 bytes, 2 contexts, 6 bytes of two values in pieces of 0 to 6, digests of 0 to 7 bytes |
| `ov_sign` | Does a signature that is returned verify, for the right messages only and with every form of the key? Are attempts different, and does the call return? | v = 3, o = 2 over GF(4), 4 keys, 3 attempts, all sequences of regular and singular rounds |
| `backends` | Does every function of every backend compute what its definition says, inside its operands, and do the backends agree? | registers of 8 bytes; vectors to 27 bytes, columns of 1 to 42 bytes, 1 to 6 columns; 256 bytes by 12; 786 systems; triangles of 4 to 8 rows; a map of 5 variables; ciphers on 2 keys, 2 nonces, 2 counters |
| `bls_channel` | Is what the verifiers of the two BLS libraries accept authentic, whatever the channel did, and do they agree? | 2 keys, keys and signatures of 2 bytes, salts of 1, pHashes of 1, 3 and 4 bytes that are prefixes of each other, one signature and one fault |
| `uov_channel` | What may a caller of the UOV backend conclude? Do messages survive the NIST API? | 2 keys, digest of 2 + 1 bytes, pHashes of 1, 2 and 3 bytes; a memory of 10 bytes with 4 places for a message, 3 calls |
| `tool` | Do the tool's files survive failures, kills and concurrent runs? | 2 processes, 3 key pairs, 2 pHashes, 3 commands |
| ... | | |
| `ov_sign_last_attempt` | Is a success in the last round reported as one? | as `ov_sign` |
| `ov_sign_contexts` | Are all hash contexts freed? | as `ov_sign` |
| `bls_layout` | Is every layout recognised by its length? | as `bls_channel` |
| `uov_ok` | Does `STEGO_OK` mean a valid signature? | as `uov_channel` |
| `uov_recovered_hash` | Is what the UOV backend recovers the hash of the pHash? | as `uov_channel` |

Why the bounds are enough. In `prng`, the lengths go from nothing to beyond two refills, so
that each of the tests in the two functions has both outcomes at each value of
`used`, and 60 bytes are more than the 36 of the counter's 18 blocks: it wraps inside a request
and between two. As in the code, where refills of 1, 2, 4 or 8 blocks divide 2^32, it never wraps inside a
refill here; the theorems cover that too. They remove the bounds. A key is 36 bytes too, so that no reader gets a block
twice; its rows are shorter than, as long as, and longer than a refill, and start at every even place in one. In `sponge`,
a piece can begin and end at each place of a block, fill it exactly, and span two blocks; digests end before, at and after the
ends of the first two blocks. In `ov_sign`,
GF(4) has singular systems, zero pivots that can be repaired and zero pivots that cannot; 3 attempts give
success in the first, a middle and the last round, and exhaustion. In
`bls_channel`, pHashes shorter and longer than a key, than a salt and than a salt with
a signature give each outcome of the length tests for right and wrong `phash_len`; the
largest is refused by the length check. One signature per behaviour suffices for a payload
to be cut into another one's shape, since the alternatives are cuts of its own bytes; the theorem covers
any number. In `tool`, three commands are what it takes for one to fail, one to
disturb and one to repair, or for an import to find files of two runs, and 3 keys let each command draw
its own.

In `backends`, a register of 8 bytes stands for one of 32, and 4 and 2 for those of 16 and for words: what the code does depends on the length
by its quotient and remainder by the register, which take every value there, and on chunks and blocks of registers, which are
passed and left incomplete. Columns of 42 bytes are five registers and a remainder. The first
element is every byte, so that squares and inverses are checked wholly; a product is linear in the second, which has each single
bit, and some bytes with many that would show a carry. The systems are all of two equations over GF(4), all of three with entries 0 and 1, and mixed ones; 8 equations
stand for 64, a length with code of its own. A triangle of 4 rows is all
taken by the joint product at the end (`LastRows` = 4, for 15), one of 8 leaves 4 rows before it. The public map's vectors of 8 bytes fill a register, those of 5 and 11 do
not, and reach into the next by up to 5 bytes. The second counter of the ciphers carries into the next byte within the eight blocks.
In the memory of `uov_channel` a message lies across the beginning of, at, inside, and behind the place of the signed
message; three calls are to sign, damage and open, or to sign twice, the second time without success, and open.

`CHECK_DEADLOCK FALSE` is set where the system stops: a reader that is done, a call that has returned,
an expander, tool or NIST API at the bound of the model. The model of the BLS libraries never stops.

Symmetry is over keys (and process slots and pHashes of the tool), in runs without liveness
properties.

### Fairness

Only `Returns` needs it: `WF_vars(Next)` of OvSign says that a call that can take a step
takes one, which is what a sequential function does. Nothing is assumed of the
hash: the adversarial choice of vinegar values for ever is bounded by the code's own counter.

### Mutants

Each property of a passing run has a mutant, an operator named in a comment `Mutant:`
before the definition it changes, the way a plausible bug would: a dropped test, a counter
that does not advance, a swapped order. Under the mutant TLC finds the property violated.

### The divergences

1. `ov.c:99`: `n_attempt` is incremented before a round is tried, so that success in round
   256 of 256 is reported as a failure although `x_o1` holds the solution (`SolvedMeansSigned`).
2. `ov.c:53`: `h_vinegar_base` is never finalised. With OpenSSL a context is a heap
   object, and each signature loses one (`ContextsFreed`).
3. `stego_sig_bls.c:248`: a payload without pHash and with an embedded key is parsed as if
   it held a pHash, when the key is not shorter than the pHash (`LayoutRecognised`). It
   is then refused, or read wrongly; it is never accepted wrongly.
4. `stego_sig_uov.c:176`: `stego_verify` of the UOV backend answers `STEGO_OK` to every
   payload that is long enough (`OkMeansSigned`).
5. `ov.c:222`: a pHash that fills the place of the hash is embedded as it is, and comes back as it is.
   `unified-api/README.md:228` and the comment at `stego_sig_uov.c:166` say that the hash of the pHash comes back, and that the caller
   compares with that: at this length such a caller refuses a genuine payload (`RecoversHash`). `stego_sig.h:167` promises the pHash
   itself, which is right at this length and at no shorter one. What holds at every length is `DigestVerified`.

Seen while modelling, and not stated as runs: the maximal pHash length that `stego_sig_bls.c:85`
announces is 2 more than what `stego_sign` takes, for the salt shares the buffer; a product of
more than `_V` columns in GF(16) (`blas_matrix_avx2.c:209`) passes all the columns that are left
where it has tables for `_V` of them, which no parameter set asks for; the quadratic form of GF(256) needs at least 15
variables (`parallel_matrix_op.c:456`, an unsigned difference), and additions of rounded-up length must not reach
beyond the next coefficient, both of which all parameter sets satisfy (`BatchAssumption`, `MapAssumption`);
AES-NI counts with 64 bits where the other ciphers count with 32, which differs after 2^32 blocks only; the
seed expander refuses a request for all the bytes that are left (`rng.c:68`, the action `Refused`), so that it serves at
most one byte less than its length; `crypto_sign` sets the length and moves the message also when signing failed, returns 0
also when the message overlapped the place of its signature and was spoiled by it, and
`crypto_sign_open` counts lengths of 64 bits with an `unsigned`; `ov_expand_and_verify` answers -1 also when
memory is lacking; the demonstration of the BLS wrapper prints VALID for every result of `bls_verify` that is not
0 (`BLS/stego_demo.c:114`), -1 for an error included, and does not look at what most of its calls of `bls_sign` return; `ov_sign_digest` refuses digests longer than the
recoverable part (`ov.c:217`, the action `RejectDigest`), which `ov.h:180` says are truncated and which
`ov_verify_digest` does truncate; `stego_sig.h` says that the salt is ignored for
BLS, and the backend uses it; `append_pk` with a NULL key leaves the key out without an error
(`PayloadSized` assumes the header's contract that it is given); the length of an external key's buffer is taken on
trust (`ReadsInBounds` is about the payload);
built with `BLS_SALT_BYTE` 0 the wrapper takes pHashes of any length (`bls_stego.c:165` and `:209` test the length only `#if
BLS_SALT_BYTE > 0`), and the unified API does not; `recovered_phash` is written before anything is verified, and stays written when verification fails;
the tool does not look at what `fclose` returns, so that a write lost in the flush is reported as success
(`KeygenRepairs` and `GenerateRepairs` say what it may leave); two runs of the tool that write the same files at a time may both
report success and leave a mixture, which no verify accepts.

## 4. The theorems

Proved by TLAPS for every value of the constants that the modules' named `ASSUME`s allow. The inductive
invariants were checked by TLC on the runs' instances before they were proved.

**The expander** (`Generators_proofs`: PrngInvariant, PrngTypeOK, PrngPositionAgrees, PrngImplementsStream). The
code does not store its position. The invariant is `PositionAgrees` with `BufferFresh` and
bounds on `used` and `ctr`: position plus unread bytes is a whole number of refills, the counter is that
number of refills, and unread bytes are those of the refill at the position.
`BufferFresh` alone is not inductive, for a step that refills computes from `ctr`, and what
`ctr` has to do with the position is the first conjunct. The arithmetic (a refill at
counter `c` continues the stream where the last one ended; quotients and remainders of a
position and of a wrapped counter) is in lemmas of its own, since the SMT solver loses its way in
products; each case of `Gen` and `Skip` then cites them. The refinement follows step by step:
the three parts of an output are each equal to the stream. The run `prng` shows it beside the generators of `rng.c`;
`PublicAlone` is that its part of such a behaviour is one of its own.

**The readers of a key** (`Generators_proofs`: ExpandSameKey, ExpandNeededRowsWritten). By the expander's theorem a request
delivers the stream at its position, so the invariant `EIInv` says that position and write address
are equal, and `Pending`: the requests that are left are those of the rows from some row on, and the address is
where that row begins. `Left(p, i)`, what `expand_pk_predicate` has to do from row i on, is a recursive function of
the row; that it ends where the key ends, and that each of its steps is one request, is shown with the sizes of a
triangle (`TwiceA`, `ANext`, `AMonotonic`). Rows are disjoint, so a byte written once stays, and a row that is skipped has a zero
vinegar value in front of it (`Written`).

**The known-answer generators** (`Generators_proofs`: RngImplementsStream, RngLengthKept, RngBlocksFresh). Counters and
lengths are digits, and the argument begins with what the digits mean. `Span(n)` is the number that follows the
largest one of n digits. The carry loop adds 1 to the number and takes the largest to 0 (`IncrementValue`), repeated
remainders give back a number below `Span(n)` (`DigitsValue`), and a run of increments, no longer than `Span(n)`,
has no digits twice (`RunValues`, `RunDistinct`). These are inductions along a number of digits or steps, by `NatSetInduction`; that the
recursive functions exist is the first step of each (`PrefixExists`, `RestsExist`, `CountersExist`).
For the DRBG, the invariant `DrbgInv` adds to `BlocksFresh` that every block was encrypted under an earlier key than the one of now. A request and the
three blocks of its update are one run under one key (`UpdateFresh`), and then the key is a new one.
For the expander, `Ready` says how bytes served, place in the buffer and counter hang together: the bytes served and
those left in the buffer are all blocks made so far, and the buffer is the last of these. That the counter does not wrap is not local: the
request's last block begins before its last byte, that byte lies before the limit, and the limit is below `Span`
(`RequestCounters`). So block number and counter are the same number, and each byte is the one of its place (`ExpanderServes`).

**The payload tool** (`PayloadTool_proofs`: KeygenRepaired, GenerateRepaired, VerifyAnswered). The three properties speak of a step in which a
command ends, and what they promise was done by earlier steps. The invariant `ToolInv` says, for the command and the place in it
at which a process is, what it has in memory (`InMemory`), and, if no other writer ran since it started, which files are what it has
in memory (`OnDisk`) and, when importing, which are still what it found (`Imported`). It holds for the others too when
one process moves: next to a process that is `alone` only verifies run (`Undisturbed`), and those leave the disk as it is. Of a file whose flush was
lost it is known that it was empty before, so that it is empty or a part (`Left`), and a kill or an error ends the command. The promise of `verify` under concurrent writers needs no disk at all: it judges what
is in memory, and a content that verifies names the key and pHash it was made from (`ContentWhole`).

**The sponge** (`KeccakSponge_proofs`: SpongeAbsorbs, SpongeImplementsXof). `AbsorbedAgrees` names the state as a function of the
message and is inductive as it stands, once `AbsorbsMore` is shown: absorbing a piece after a message gives the state of
the longer message. The proof follows a cell of the state: which bytes of the
message were added to it since the last permutation. A state is as good as unknown after finalisation, so the
refinement rests on `StreamByte`: byte k of a digest is the same cell of the same permutation whether the digest is asked for
at once or is longer than a block.

**The algebra and the signer** (`OvSign_proofs`: SignRetriesDiffer, SignSameSecretKey, SignedVerifies).
`SignedVerifies` is `Spec => []SignatureVerifies`: for every finite field of characteristic two, any numbers of variables
and equations, every key, hash and course of the rounds, what a call returns with success is a preimage of its target under
the public key of the same seed, and each form of verification accepts it for the messages that have the target's hash and for
no others. The argument, bottom up:

1. `VSum` is a fold over a set. That the fold does not depend on its order is an induction over the set's
   cardinality (`PickInduction`), and so are the rules for sums: they can be split, exchanged, scaled and collected
   in buckets (`SumUnion`, `SumExchange`, `SumScale`, `SumBuckets`).
2. Key generation writes P1, P2 and `P3 = Upper(O^T (P1 O + P2))`. `Folded` shows what a fold of a square matrix to its
   triangle means for the quadratic form, and `PublicForm` that the public map at `(v + O x, x)` is the
   secret one: the terms in x twice cancel in pairs, `P1(v)` and `S` times x are left.
3. `accu_eval_quad` sums monomials in buckets by their value; `QuadEntry` shows that this is the form. The oil system's columns and constant
   are the secret form's (`SystemInverts`).
4. `gfmat_gaussian_elim` repairs a zero pivot by adding later rows, normalises and eliminates. Each step keeps the solutions
   (`EliminatedSolves`), and, when it reports success, the columns that are done are those of a unit triangle
   (`EliminatedTriangular`). `gfmat_back_substitute` solves such a triangle (`BackSolves`). Both are recursive
   functions over the columns; that such functions exist (`RunExists`, `BackExists`) and what they compute are inductions of
   the lemma `NatSetInduction`, which takes a set where the library's theorem takes an operator.
5. `ExpandedKey` and `PredicateSame`: expanding a compressed key gives the same triangles, and the rows left out are multiplied by
   zero, so whatever is in the memory there does not count.

The invariant `SInv` joins this with the call: from the loop on `y` is the target of the message's hash (`Targeted`), after it
the system of the last vinegar values is regular (`Solved`), and with success the signature is what that system gives (`Signed`).
`SignatureVerifies` is not inductive without them, for the step that returns knows the target and vinegar values only from earlier steps.
`SignSameSecretKey` says that the two ways to S agree, `SignRetriesDiffer` that no counter repeats, as the
attempts do not outnumber the counter's values.

**The BLS backend and wrapper** (`StegoBytes_proofs`, `BlsStego_proofs`: BlsAuthentic, BlsImplementsChannel, BothAuthentic, BothImplementChannel,
BothLifecycle, BothReadInBounds, BothPayloadSized, BothRoundTrip, SaltedReadersAgree). The invariant says
that every signature byte on the wire is a byte of an issued signature: faults only
cut, append noise, or put in a data or noise byte (`StegoBytes_proofs`). So an accepted signature, whose
every byte names key and input, is one that was issued, under the key of the verification, for an input that is
the checked pHash with the checked salt. The two cuts of that input have salts
of the same fixed length at the end, so the pHashes are equal. This is where the fixed `BLS_SALT_BYTE`
carries the argument: with a salt of free length the theorem is false, as the mutant
`ParseFromEnd` shows. `SentRight` (a payload that nothing damaged is the one `sent` describes) gives `RoundTrip` and
`PayloadSized`; `HeldRight` and `CutRight` say the same of the pieces that the wrapper's caller holds between two calls.
Number of keys, signatures and faults, and all lengths, are
arbitrary. `SaltedReadersAgree` has the hypothesis `BLS_SALT_BYTE > 0`, which is the code's default: built without a salt
the two libraries really differ (see "Seen while modelling").

**The UOV backend and the NIST API** (`NistApi_proofs`: UovReadsInBounds, UovPayloadSized, UovDigestVerified, UovImplementsChannel,
UovMessageCarried). The first four go as for BLS, with the comparison in the place of the verifier's answer. For
`UovMessageCarried` the invariant `MInv` says of the caller's memory that a signature byte in it was made by `crypto_sign`
for a pair of key and message in `opens`, and that `sm` lies inside; a
signature is accepted only if all of its bytes name the bytes that follow it, and the moves of both functions are
computed cell by cell for every place of the two buffers, those included where one write spoils what the next would move.

**The vector functions of the backends** (`Backends_proofs`: VectorFunctionsRight, VectorFunctionsReadInside). `Cuts(s, a, b, e)`
says that a sequence of moves takes each byte from a up to b once and from its own place, no other byte, and reads nothing at e or
behind. Sequences that cut neighbouring pieces can be put behind each other (`CutsBoth`), so each way to deal with a remainder is one
lemma: a part (`CutsBlocksThenPart`), single bytes (`CutsThenBytes`), a head that overlaps the first register and is
put back behind the remainder (`CutsHeadThenRegisters`, `CutsHeadThenTriples`), the split register of the tables (`CutsTables`).
`FunctionsCut` collects them for all 44 functions. Where a loop takes several registers at a time or starts behind a head, the
arithmetic is that what is left stays a multiple of the register (`StillWhole`). The invariant `VecRuns` is that the moves not made yet
take exactly the bytes that are not combined yet, and no byte twice. `VectorsRight` says nothing before the last move and is not
inductive without it. The widths need be no powers of two; that a register of AVX2 is two of SSE is the only relation used.

**The matrix products** (`Backends_proofs`: MatrixProductsRight, MatrixProductsReadInside). Rows are cut as vectors are, and columns
into chunks of one sweep, so the argument is one for rows (`SseRowsCut`, `RaggedRowsCut`, `SmallRowsCut`, `OverlapRowsCut` and their like: each
byte of a column is taken once by the registers of one sweep, and nothing is read behind the matrix) and one for columns (`ChunksCut`,
`ColumnsAre`); `SweepOnce` puts them together. `Plan` is what a product has to be as a sequence of calls: a byte of the result is
written by one call, then added to by calls that take the other columns, each once. `ProductsPlan` shows it for all 17
products and the shapes they are written for (`Supported`). The invariant `MatRuns` says which calls are still to come, byte by byte: a byte that
is not written yet has its writing call to come (`Unwritten`) and all its columns, a written one has the terms of exactly the
columns that are not to come any more (`Awaited`). `ProductRight`, which speaks of the end, is not inductive without it.

**The batched products** (`Backends_proofs`: BatchedProductsRight). A triangle is its rows behind each other, and row i begins
at `RowStart(i, n)`; half of a product of neighbours is exact, which `HalfNext` and `RowStartNext` turn into steps of
addition. So `idx_of_trimat` is a bijection from the pairs of the upper half onto the cells (`IdxUnique`, `IdxCovers`), and
the pointer that each column advances by a step shorter than the one before stands on `idx_of_trimat(j, i)` in row j (`WalkIs`). Of B,
`FromRowIs` shows that the odd rows of GF(16), which start in the middle of a byte and are taken from the shifted copy,
never use the element that is missing at the end of a column. With both, the terms that one row adds are known for each product and each form of B
(`MaddTerms`, `TransposedTerms`, `BothTerms`, `ColumnTerms`, `FormRowIs`), and for the last rows that gf256 evaluates in one product
(`LastTermsAre`). The invariant `BatchRuns` says where the next row of the triangle begins and what a result has between two rows: for
the triangle of a transposed product an entry has its own terms when its row is done, and its mirror image's only when that row is done too
(`TriangleDone`). `BatchRight` speaks of the end alone.

**The public map in bytes** (`Backends_proofs`: PublicMapInBytesRight). The key's rows are numbered through P1, P2 and P3, and
`KeyRow(m)` is the place of the first coefficient of row m; `RowOrder` shows that the coefficients of a row follow it, and `KeyOrdered` that
coefficients have a place each, those of the rows done in front of the next row. So an addition meets no address that is in its bucket already, although buckets
are exclusive ors. `GatheredInside` is the argument about reading: a rounded-up vector reaches less than one vector too far, and
behind every row but the last there is another vector (`KeyRowInside`); the last vector is not rounded. A bucket's number has the bits of
its half of the product (`NumOfBits`, `ValueFacts`), no two buckets share an address, and so the three
halvings leave in bucket 2^k what was in any bucket whose number has bit k (`HalveIs`, `ReducedIs`). The rows that GF(16) leaves out belong to
the value zero (`ZeroRowCollects`). The invariant `MapRuns` says what the buckets have between two rows, for the bytes that belong to a
vector; of the bytes behind it only that they are inside the key.

Assumptions on constants that carry a theorem: the field axioms (`FieldAssumption`), that hashes have their length, seeds and vinegar values
their type, and the counter's byte holds the number of attempts (`OvSignAssumption`, `ov.c` counts to 256 with a byte), that the
NIST caller's buffers fit in its memory (`NistAssumption`), and that a request of `randombytes` and the update after it take no more blocks than a counter has
values (`DrbgAssumption`; the code has 2^128 of them, a length has 64 bits).

Only model-checked: liveness (`Returns`), outside the prover's reach, as is `ENABLED`; of the parts of Backends, the linear solvers
(`SolutionRight`, `RefusesTheSame`). `FieldRight`
and `AesInStep` compare tables and circuits with a definition over a finite domain, which is work for TLC.

## 5. Idealisations

- AES under one key is injective; hashes are functions given as constants, of which
  nothing is assumed but their length.
- BLS signatures are unforgeable and unique. A UOV public map gives noise at vectors that are
  not signatures.
- Field arithmetic is a parameter of UovMap. Its instance is GF(4), which is the subfield
  `{0, 1, 6, 7}` of the code's GF(16).
- The NIST API's signatures are ideal too: one verifies for its message under its key. AES of the known-answer
  generators is injective under a key, as it is in PrngPublicInputs; AesCiphers is what models it.
- VectorOps, MatrixProducts, BatchProducts and BucketMap follow bytes and terms, not values: what a product of two
  elements is, FieldArith says.
- A file operation of stdio that is below one `write` system call is one step. Two
  writers of one file may leave either value or a mixture.

## 6. Not modelled, and why

- Of the backends, the Cortex-M4 assembly with `ov_publicmap_pkc`, the tables of all products of two elements, `gf256v_squ_u64` and
  functions that nothing calls.
- Of the ciphers, the single-block functions of the ARM form, which nothing calls, and those of OpenSSL, PQM4 and liboqs.
- Of `fips202.c`, SHA-3 and the one-shot functions, which the default build does not call; of
  `utils_hash.c`, the OpenSSL and liboqs builds, but for the lifetime of their contexts (OvSign).
- `utils_randombytes.c`, `utils_malloc.h`, `utils.c`: I/O and wrappers of the platform.
- Demonstrations, unit tests and benchmarks: they drive the code above.
- Packaging, parameter scripts and the security estimator: no state.
- Timing behaviour of constant-time code, which TLA+ does not speak of.

## 7. Plan

Done, in this order: expander and key expansion; the sponge; algebra and signing; the API's
promise and its two backends; the tool; the theorems of section 4; the generators of `rng.c`; vectors, matrix products, fields
and linear solvers of all backends; the ciphers; compressed keys; the BLS wrapper; the NIST API; the batched products and
the public map in bytes.

Next theorems: the linear solvers, the last part of Backends whose lengths are arbitrary. They need
that each form's steps keep the solutions, as `EliminatedSolves` of `OvSign_proofs` shows it for the reference form, with widths that are powers of two
for the transpositions.
