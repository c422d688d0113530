------------------------------ MODULE NistApi ------------------------------
(***************************************************************************)
(* The library's own interface, src/sign.c: a signed message is the        *)
(* message with its signature behind it.  Buffers are places in one memory *)
(* of the caller's, so that they may overlap.                              *)
(*                                                                         *)
(* Both this interface and the unified API call ov_sign and ov_verify; a   *)
(* process uses one of them.  The hash is ideal here: a signature verifies *)
(* for its message, under its key, and no other.                           *)
(***************************************************************************)
EXTENDS StegoSigUov

CONSTANTS
  Cells,       \* bytes of the memory
  NistMsgs,    \* messages, sequences of data bytes
  MsgPlaces,   \* where a caller keeps a message
  SmPlaces,    \* where a signed message is put
  MaxCalls     \* bound on the calls that sign and open, and faults (for TLC)

(* The caller's buffers hold what is put in them.                          *)
ASSUME NistAssumption ==
  /\ Cells \in Nat /\ MaxCalls \in Nat
  /\ NistMsgs \subseteq Seq(DataBytes)
  /\ MsgPlaces \subseteq Nat /\ SmPlaces \subseteq Nat
  /\ \A msg \in NistMsgs, at \in MsgPlaces \cup SmPlaces : at + Len(msg) + SIG_BYTE <= Cells

VARIABLES
  api,     \* the interface of this process: "unified" or "nist"
  mem,     \* the caller's memory
  sm,      \* the signed message: [at, len], <<>> before the first
  opens,   \* history: pairs of key and message that were signed
  ncall,   \* history: the last call, with what was in the memory before it
  calls    \* history: the number of calls and faults

nist_vars == <<api, mem, sm, opens, ncall, calls>>
uov_vars == <<vars, nist_vars>>

OV_SIGNATUREBYTES == SIG_BYTE
NSig(k, msg) == [i \in 1 .. OV_SIGNATUREBYTES |-> Byte("sig", k, msg, i)]
Zero == DataByte(0)

In(m, at, n) == [i \in 1 .. n |-> m[at + i]]
Put(m, at, bytes) ==
  [c \in 1 .. Cells |-> IF c - at \in DOMAIN bytes THEN bytes[c - at] ELSE m[c]]

-----------------------------------------------------------------------------
(* ov_sign hashes the message before it writes; it may run out of attempts.*)
ov_sign(m, sig_at, key, msg, r) == IF r = 0 THEN Put(m, sig_at, NSig(key, msg)) ELSE m

crypto_sign_signature(m, sig_at, at, mlen, key, r) == ov_sign(m, sig_at, key, In(m, at, mlen), r)

(* Mutant: the message is moved first.                                     *)
crypto_sign_moved(m, sm_at, at, mlen, key, r) ==
  crypto_sign_signature(Put(m, sm_at, In(m, at, mlen)), sm_at + mlen, at, mlen, key, r)

(* The signature, then the message in front of it, signature or not.       *)
crypto_sign(m, sm_at, at, mlen, key, r) ==
  LET signed == crypto_sign_signature(m, sm_at + mlen, at, mlen, key, r) IN
  Put(signed, sm_at, In(signed, at, mlen))

crypto_sign_keypair ==
  /\ \E k \in Keys \ keys : keys' = keys \cup {k}
  /\ UNCHANGED <<nist_vars, issued, sent, wire, verdict>>

CallSign ==
  /\ \E key \in keys, msg \in NistMsgs, at \in MsgPlaces, sm_at \in SmPlaces, r \in {0, -1} :
       LET before == Put(mem, at, msg)
           signed == In(before, at, Len(msg))
       IN  /\ mem' = crypto_sign(before, sm_at, at, Len(msg), key, r)
           /\ sm' = [at |-> sm_at, len |-> Len(msg) + OV_SIGNATUREBYTES]
           /\ opens' = IF r = 0 THEN opens \cup {<<key, signed>>} ELSE opens
           /\ ncall' = [op |-> "sign", key |-> key, msg |-> msg, at |-> at, r |-> r]
  /\ UNCHANGED <<vars, api>>

(* A signed message may be damaged, or cut, on its way.                    *)
SmFault ==
  /\ sm # <<>>
  /\ ncall.op = "sign"
  /\ \/ \E c \in sm.at + 1 .. sm.at + sm.len : mem' = [mem EXCEPT ![c] = Noise] /\ UNCHANGED sm
     \/ \E n \in 0 .. sm.len - 1 : sm' = [sm EXCEPT !.len = n] /\ UNCHANGED mem
  /\ ncall' = [op |-> "fault"]
  /\ UNCHANGED <<vars, api, opens>>

-----------------------------------------------------------------------------
crypto_sign_verify(sig, msg, key) == Len(sig) = OV_SIGNATUREBYTES /\ sig = NSig(key, msg)

(* The copy runs forward, a byte at a time.                                *)
CopyForward(m, to, from, n) ==
  LET f[i \in 0 .. n] == IF i = 0 THEN m ELSE [f[i-1] EXCEPT ![to + i] = f[i-1][from + i]]
  IN  f[n]

(* The bytes that come back are the message of a valid signature, or as    *)
(* many zeros as were given.                                               *)
crypto_sign_open(key, to) ==
  LET mlen  == sm.len - OV_SIGNATUREBYTES
      valid == /\ sm.len >= OV_SIGNATUREBYTES
               /\ crypto_sign_verify(In(mem, sm.at + mlen, OV_SIGNATUREBYTES),
                                     In(mem, sm.at, mlen), key)
      Return(r, len) ==
        ncall' = [op |-> "open", key |-> key, at |-> to, r |-> r, len |-> len,
                  signed |-> In(mem, sm.at, sm.len)]
  IN  /\ sm # <<>>
      /\ \/ /\ valid
            /\ mem' = CopyForward(mem, to, sm.at, mlen)
            /\ Return(0, mlen)
         \/ /\ ~valid
            /\ mem' = Put(mem, to, [i \in 1 .. sm.len |-> Zero])
            /\ Return(-1, 0)
      /\ UNCHANGED <<vars, api, sm, opens>>

-----------------------------------------------------------------------------
BothInit ==
  /\ Init
  /\ api \in {"unified", "nist"}
  /\ mem = [c \in 1 .. Cells |-> Noise]
  /\ sm = <<>>
  /\ opens = {}
  /\ ncall = <<>>
  /\ calls = 0

NistNext ==
  \/ crypto_sign_keypair
  \/ /\ calls < MaxCalls
     /\ calls' = calls + 1
     /\ \/ CallSign
        \/ SmFault
        \/ \E key \in keys, to \in MsgPlaces : crypto_sign_open(key, to)

BothNext ==
  \/ api = "unified" /\ Next /\ UNCHANGED nist_vars
  \/ api = "nist" /\ NistNext

BothSpec == BothInit /\ [][BothNext]_uov_vars

-----------------------------------------------------------------------------
(* A call that signs leaves the signature where the caller wants it, and   *)
(* in front of it the message, although it may have lain in the way: unless*)
(* it reached into the place of the signature, which is written first. The *)
(* call that spoils such a message returns 0 like any other.               *)
SignedInPlace ==
  ncall.op = "sign" /\ ncall.r = 0 =>
    LET n       == Len(ncall.msg)
        reaches == \E i \in 1 .. n : ncall.at + i \in sm.at + n + 1 .. sm.at + n + OV_SIGNATUREBYTES
    IN  /\ In(mem, sm.at + n, OV_SIGNATUREBYTES) = NSig(ncall.key, ncall.msg)
        /\ In(mem, sm.at, n) = ncall.msg <=> ~reaches

(* A call that opens accepts what was signed with the key, damaged in no   *)
(* byte, and nothing else, even where a signature failed and an old one    *)
(* was left in the buffer.  The message comes out, although it may be      *)
(* written over the input, but where the output starts inside of the input *)
(* the bytes in front of it are repeated; of a refused one nothing comes   *)
(* out.                                                                    *)
OpenedRight ==
  ncall.op = "open" =>
    LET msg        == SubSeq(ncall.signed, 1, ncall.len)
        Repeats(i) == sm.at < ncall.at /\ ncall.at < sm.at + i
    IN  /\ ncall.r = 0 =>
             /\ <<ncall.key, msg>> \in opens
             /\ ncall.signed = msg \o NSig(ncall.key, msg)
             /\ \A i \in 1 .. ncall.len :
                  mem[ncall.at + i] = IF Repeats(i) THEN mem[sm.at + i] ELSE msg[i]
        /\ ncall.r # 0 =>
             /\ ncall.len = 0
             /\ \A s \in opens : ncall.key = s[1] => ncall.signed # s[2] \o NSig(s[1], s[2])
             /\ \A i \in 1 .. Len(ncall.signed) : mem[ncall.at + i] = Zero

(* Signing and opening carry a message through the caller's memory.        *)
MessageCarried == ncall # <<>> => SignedInPlace /\ OpenedRight
=============================================================================
