---------------------------- MODULE PayloadTool ----------------------------
(***************************************************************************)
(* The command line tool (unified-api/stego_payload_tool.c) with the BLS   *)
(* backend: generate, generate --sk, keygen and verify are processes that  *)
(* meet only in the files they are given.  Every fopen, fwrite and read is *)
(* a step of its own; a process may be killed between any two, writes may  *)
(* fail, and what stdio could not flush is lost without a word, because    *)
(* write_bin does not look at what fclose returns.                         *)
(*                                                                         *)
(* All processes use the same four paths.  A file's content is named by    *)
(* the key pair and the pHash it was made from.                            *)
(***************************************************************************)
EXTENDS Integers, Sequences, FiniteSets

CONSTANTS
  Procs,        \* process slots
  Keys,         \* key pairs, in the order they are drawn
  PHashes,      \* pHashes given on the command line
  Failures,     \* what may go wrong: "init", "call", "open", "write",
                \* "flush", "kill"
  MaxCommands   \* bound on the commands started (for TLC)

Files == {"payload", "pk", "phash", "sk"}

(* Contents: missing; the empty file fopen "wb" leaves; a whole value; a   *)
(* value cut short or mixed with another.                                  *)
Missing == <<"missing">>
Empty == <<"empty">>
Torn == <<"torn">>
Whole(v) == <<"whole", v>>

Step(op, file) == [op |-> op, file |-> file]
WriteFile(f) == <<Step("open", f), Step("write", f)>>
ReadFile(f) == <<Step("read", f)>>

(* Mutants: a file is opened before its content exists; an imported public *)
(* key is written but not read.                                            *)
cmd_keygen_early == WriteFile("pk") \o <<Step("keygen", "")>> \o WriteFile("sk")

(* What each command does after stego_init, in the order it does it.       *)
cmd_keygen == <<Step("keygen", "")>> \o WriteFile("pk") \o WriteFile("sk")

WriteOutputs == WriteFile("payload") \o WriteFile("pk") \o WriteFile("phash")

cmd_generate == <<Step("keygen", ""), Step("sign", "")>> \o WriteOutputs

cmd_generate_import_unread == ReadFile("sk") \o <<Step("sign", "")>> \o WriteOutputs

cmd_generate_import ==
  ReadFile("sk") \o ReadFile("pk") \o <<Step("sign", "")>> \o WriteOutputs

cmd_verify ==
  ReadFile("payload") \o ReadFile("pk") \o ReadFile("phash") \o <<Step("judge", "")>>

Command(c) ==
  CASE c = "keygen" -> cmd_keygen
    [] c = "generate" -> cmd_generate
    [] c = "import" -> cmd_generate_import
    [] c = "verify" -> cmd_verify

(* Exit codes: done or VALID, an error, INVALID.                           *)
Exit0 == "exit 0"
Exit1 == "exit 1"
Exit2 == "exit 2"

VARIABLES
  disk,      \* the files
  todo,      \* per process: the steps of its command still to do
  cmd,       \* per process: the command it runs, or ""
  mem,       \* per process: what it holds for each file
  exit,      \* per process: "running", an exit code, "killed", "" before
  drawn,     \* key pairs drawn so far
  commands,  \* commands started so far
  alone,     \* history, per running process: no other writer ran meanwhile
  lost,      \* history, per process: the files of which it lost a flush
  before     \* history, per running import: the files when it started

vars == <<disk, todo, cmd, mem, exit, drawn, commands, alone, lost, before>>

Running == {p \in Procs : exit[p] = "running"}
Nothing == [f \in Files |-> Missing]

Init ==
  /\ disk = Nothing
  /\ todo = [p \in Procs |-> <<>>]
  /\ cmd = [p \in Procs |-> ""]
  /\ mem = [p \in Procs |-> Nothing]
  /\ exit = [p \in Procs |-> ""]
  /\ drawn = {}
  /\ commands = 0
  /\ alone = [p \in Procs |-> FALSE]
  /\ lost = [p \in Procs |-> {}]
  /\ before = [p \in Procs |-> Nothing]

(* A new process in slot p, in its own memory, past stego_init.            *)
Start(p, c, phash) ==
  /\ p \notin Running
  /\ commands < MaxCommands
  /\ commands' = commands + 1
  /\ cmd' = [cmd EXCEPT ![p] = c]
  /\ mem' = [mem EXCEPT ![p] = IF c \in {"generate", "import"}
                               THEN [Nothing EXCEPT !["phash"] = Whole(phash)] ELSE Nothing]
  /\ exit' = [exit EXCEPT ![p] = "running"]
  /\ todo' = [todo EXCEPT ![p] = Command(c)]
  /\ alone' = [q \in Procs |-> IF q = p THEN \A r \in Running : cmd[r] = "verify"
                               ELSE alone[q] /\ c = "verify"]
  /\ lost' = [lost EXCEPT ![p] = {}]
  /\ before' = [before EXCEPT ![p] = IF c = "import" THEN disk ELSE Nothing]
  /\ UNCHANGED <<disk, drawn>>

Now(p, op) == p \in Running /\ todo[p] # <<>> /\ Head(todo[p]).op = op

(* The process ends: nothing but its exit code and the files remain.       *)
End(p, code) ==
  /\ exit' = [exit EXCEPT ![p] = code]
  /\ todo' = [todo EXCEPT ![p] = <<>>]
  /\ cmd' = [cmd EXCEPT ![p] = ""]
  /\ mem' = [mem EXCEPT ![p] = Nothing]
  /\ alone' = [alone EXCEPT ![p] = FALSE]
  /\ before' = [before EXCEPT ![p] = Nothing]

(* The step is done, with m in memory; the command ends with the last one. *)
Advance(p, m) ==
  \/ Len(todo[p]) = 1 /\ End(p, Exit0)
  \/ /\ Len(todo[p]) > 1
     /\ todo' = [todo EXCEPT ![p] = Tail(todo[p])]
     /\ mem' = [mem EXCEPT ![p] = m]
     /\ UNCHANGED <<exit, cmd, alone, before>>

Hold(p, f, v) == [mem[p] EXCEPT ![f] = v]

(* stego_keygen or stego_sign fails: the command ends before any file is   *)
(* opened.                                                                 *)
Fails(p) == "call" \in Failures /\ End(p, Exit1)

(* stego_keygen: a pair no one has.                                        *)
Keygen(p) ==
  /\ Now(p, "keygen")
  /\ \/ \E k \in Keys \ drawn :
          /\ drawn' = drawn \cup {k}
          /\ Advance(p, [mem[p] EXCEPT !["pk"] = Whole(k), !["sk"] = Whole(k)])
     \/ Fails(p) /\ UNCHANGED drawn
  /\ UNCHANGED <<disk, commands, lost>>

(* stego_sign: with a torn secret key, a payload that no key verifies.     *)
SignedWith(sk, phash) == IF sk = Torn THEN Torn ELSE Whole(<<sk[2], phash[2]>>)

Sign(p) ==
  /\ Now(p, "sign")
  /\ \/ Advance(p, Hold(p, "payload", SignedWith(mem[p]["sk"], mem[p]["phash"])))
     \/ Fails(p)
  /\ UNCHANGED <<disk, drawn, commands, lost>>

(* read_bin, and the check of the length it returned: at once when         *)
(* importing, after the three reads when verifying.                        *)
Unreadable(v) == v \in {Missing, Empty}

Read(p) ==
  /\ Now(p, "read")
  /\ LET f == Head(todo[p]).file
     IN  \/ cmd[p] = "import" /\ Unreadable(disk[f]) /\ End(p, Exit1)
         \/ /\ cmd[p] = "verify" \/ ~Unreadable(disk[f])
            /\ Advance(p, Hold(p, f, disk[f]))
  /\ UNCHANGED <<disk, drawn, commands, lost>>

(* write_bin: fopen truncates the file,                                    *)
Open(p) ==
  /\ Now(p, "open")
  /\ \/ /\ disk' = [disk EXCEPT ![Head(todo[p]).file] = Empty]
        /\ Advance(p, mem[p])
     \/ /\ "open" \in Failures
        /\ End(p, Exit1)
        /\ UNCHANGED disk
  /\ UNCHANGED <<drawn, commands, lost>>

(* then fwrite, which reports a short write, and fclose, whose failure to  *)
(* flush goes unnoticed.  What another process wrote since the file was    *)
(* truncated stays when nothing reaches the file, and the result may be a  *)
(* mixture when something does.                                            *)
Write(p) ==
  /\ Now(p, "write")
  /\ LET f == Head(todo[p]).file
         Leaves(v) == disk' = [disk EXCEPT ![f] = v]
     IN  \/ /\ \/ Leaves(mem[p][f])
               \/ disk[f] \notin {Empty, mem[p][f]} /\ Leaves(Torn)
            /\ Advance(p, mem[p])
            /\ UNCHANGED lost
         \/ /\ "write" \in Failures
            /\ UNCHANGED disk \/ Leaves(Torn)
            /\ End(p, Exit1)
            /\ UNCHANGED lost
         \/ /\ "flush" \in Failures
            /\ UNCHANGED disk \/ Leaves(Torn)
            /\ lost' = [lost EXCEPT ![p] = @ \cup {f}]
            /\ Advance(p, mem[p])
  /\ UNCHANGED <<drawn, commands>>

(* Mutant: the pHash is not looked at.                                     *)
stego_verify_key_only(payload, pk, phash) ==
  /\ Torn \notin {payload, pk, phash}
  /\ payload[2][1] = pk[2]

(* stego_verify on what was read, as StegoSigBls verifies: signature, key  *)
(* and pHash must belong together.                                         *)
stego_verify(payload, pk, phash) ==
  /\ Torn \notin {payload, pk, phash}
  /\ payload[2] = <<pk[2], phash[2]>>

Judge(p) ==
  LET payload == mem[p]["payload"]
      pk      == mem[p]["pk"]
      phash   == mem[p]["phash"]
  IN  /\ Now(p, "judge")
      /\ End(p, IF \E v \in {payload, pk, phash} : Unreadable(v) THEN Exit1
                ELSE IF stego_verify(payload, pk, phash) THEN Exit0 ELSE Exit2)
      /\ UNCHANGED <<disk, drawn, commands, lost>>

(* stego_init fails.                                                       *)
NoInit(p) ==
  /\ "init" \in Failures
  /\ p \in Running
  /\ todo[p] = Command(cmd[p])
  /\ End(p, Exit1)
  /\ UNCHANGED <<disk, drawn, commands, lost>>

(* A process may be killed, or the machine stop, between any two steps.    *)
Kill(p) ==
  /\ "kill" \in Failures
  /\ p \in Running
  /\ End(p, "killed")
  /\ UNCHANGED <<disk, drawn, commands, lost>>

Next ==
  \E p \in Procs :
    \/ \E c \in {"keygen", "generate", "import", "verify"}, phash \in PHashes : Start(p, c, phash)
    \/ Keygen(p) \/ Sign(p) \/ Read(p) \/ Open(p) \/ Write(p) \/ Judge(p)
    \/ NoInit(p) \/ Kill(p)

Spec == Init /\ [][Next]_vars

-----------------------------------------------------------------------------
Paired(d) == d["pk"][1] = "whole" /\ d["pk"] = d["sk"]
Verifies(d) ==
  /\ d["payload"][1] = "whole" /\ d["pk"][1] = "whole" /\ d["phash"][1] = "whole"
  /\ stego_verify(d["payload"], d["pk"], d["phash"])

(* The step of p that ends its command with exit code 0.                   *)
Succeeds(p) == exit[p] = "running" /\ exit'[p] = Exit0

(* A file holds v; or, if a flush of it was lost, what the truncation left *)
(* or a part.                                                              *)
Left(d, f, v, lo) == d[f] = v \/ (f \in lo /\ d[f] \in {Empty, Torn})

(* Whatever failed, was killed or was interleaved before, a keygen that    *)
(* reports success, with no other writer meanwhile, leaves one fresh pair  *)
(* in both files, but for a file whose flush was lost: it never leaves     *)
(* there the key of an earlier run.                                        *)
KeygenRepairs ==
  [][\A p \in Procs : Succeeds(p) /\ cmd[p] = "keygen" /\ alone[p] =>
       LET k == mem[p]["pk"]
       IN  /\ k[1] = "whole"
           /\ Left(disk', "pk", k, lost'[p]) /\ Left(disk', "sk", k, lost'[p])]_vars

(* generate leaves a payload made with its key from its pHash, that key    *)
(* and that pHash, an import the payload made with the secret key it found *)
(* and both key files as they were although it rewrites one of them; again *)
(* but for a file whose flush was lost.  If none was, the files verify:    *)
(* those of an import, provided the key files it found belong together.    *)
Delivers(p, sk, pk) ==
  LET phash == mem[p]["phash"]
  IN  /\ Left(disk', "payload", SignedWith(sk, phash), lost'[p])
      /\ Left(disk', "pk", pk, lost'[p])
      /\ Left(disk', "phash", phash, lost'[p])

GenerateRepairs ==
  [][\A p \in Procs : Succeeds(p) /\ cmd[p] \in {"generate", "import"} /\ alone[p] =>
       /\ cmd[p] = "generate" => Delivers(p, mem[p]["pk"], mem[p]["pk"])
       /\ cmd[p] = "import" => /\ Delivers(p, before[p]["sk"], before[p]["pk"])
                               /\ disk'["sk"] = before[p]["sk"]
       /\ lost'[p] = {} /\ (cmd[p] = "import" => Paired(before[p])) => Verifies(disk')]_vars

(* A verify during which no writer runs answers for the files that are     *)
(* there, those a writer left cut short included; another one may miss     *)
(* them, but never says VALID of a payload, a key and a pHash that do not  *)
(* belong together.                                                        *)
VerifyAnswers ==
  [][\A p \in Procs : Now(p, "judge") /\ exit'[p] \in {Exit0, Exit1, Exit2} =>
       /\ alone[p] => (exit'[p] = Exit0 <=> Verifies(disk))
       /\ exit'[p] = Exit0 => mem[p]["payload"] = Whole(<<mem[p]["pk"][2], mem[p]["phash"][2]>>)]_vars
=============================================================================
