-------------------------- MODULE PayloadTool_proofs --------------------------
(***************************************************************************)
(* What a command of the payload tool leaves on the disk and answers, for  *)
(* any number of processes, keys, pHashes and commands, and any failures.  *)
(*                                                                         *)
(* A command is a fixed sequence of steps, so the invariant says for each  *)
(* place in it what the process has in memory, and, if no other writer ran *)
(* since it started, which files hold what it has in memory.               *)
(***************************************************************************)
EXTENDS PayloadTool, SequenceTheorems, TLAPS

Commands == {"keygen", "generate", "import", "verify"}

IsContent(v) == v \in {Missing, Empty, Torn} \/ v = Whole(v[2])

-----------------------------------------------------------------------------
(* The contents of files, and the steps of commands.                       *)

LEMMA Contents ==
  /\ \A v : Whole(v)[1] = "whole" /\ Whole(v)[2] = v
  /\ \A v : Whole(v) # Missing /\ Whole(v) # Empty /\ Whole(v) # Torn
  /\ Missing[1] # "whole" /\ Empty[1] # "whole" /\ Torn[1] # "whole"
  /\ Torn # Missing /\ Torn # Empty
BY DEF Whole, Missing, Empty, Torn

Names == Files \cup {""}
Steps == [op : {"keygen", "sign", "open", "write", "read", "judge"}, file : Names]

Joins(s, t, r, m, n) ==
  /\ s \in Seq(Steps) /\ t \in Seq(Steps) /\ r \in Seq(Steps)
  /\ Len(s) = m /\ Len(t) = n /\ Len(r) = m + n
  /\ \A i \in 1 .. m : r[i] = s[i]
  /\ \A i \in 1 .. n : r[i + m] = t[i]

LEMMA Joined ==
  ASSUME NEW s, NEW t, NEW r, NEW m, NEW n, Joins(s, t, r, m, n)
  PROVE  s \o t = r
<1>0. /\ s \in Seq(Steps) /\ t \in Seq(Steps) /\ r \in Seq(Steps)
      /\ Len(s) = m /\ Len(t) = n /\ Len(r) = m + n
      /\ \A i \in 1 .. m : r[i] = s[i]
      /\ \A i \in 1 .. n : r[i + m] = t[i]
  BY DEF Joins
<1>1. /\ s \o t \in Seq(Steps) /\ Len(s \o t) = Len(s) + Len(t)
      /\ \A i \in 1 .. Len(s) + Len(t) : (s \o t)[i] = IF i <= Len(s) THEN s[i] ELSE t[i - Len(s)]
  BY <1>0, ConcatProperties, Zenon
<1>2. Len(s) \in Nat /\ Len(t) \in Nat
  BY <1>0, LenProperties
<1>3. ASSUME NEW i \in 1 .. Len(r) PROVE (s \o t)[i] = r[i]
  <2>1. CASE i <= Len(s)
    BY <1>0, <1>1, <1>2, <2>1
  <2>2. CASE ~(i <= Len(s))
    <3> DEFINE j == i - Len(s)
    <3>1. j \in 1 .. Len(t) /\ i = j + Len(s)
      BY <1>0, <1>2, <2>2
    <3>2. r[i] = t[j]
      BY <1>0, <3>1
    <3>3. QED
      BY <1>0, <1>1, <1>2, <2>2, <3>2
  <2>3. QED
    BY <2>1, <2>2
<1>4. QED
  BY <1>0, <1>1, <1>3, SeqEqual

LEMMA StepType ==
  \A f \in Names : /\ Step("keygen", f) \in Steps /\ Step("sign", f) \in Steps
                    /\ Step("open", f) \in Steps /\ Step("write", f) \in Steps
                    /\ Step("read", f) \in Steps /\ Step("judge", f) \in Steps
BY DEF Step, Steps

LEMMA CommandSteps ==
  /\ Command("keygen") = << Step("keygen", ""), Step("open", "pk"), Step("write", "pk"),
                            Step("open", "sk"), Step("write", "sk") >>
  /\ Command("generate") = << Step("keygen", ""), Step("sign", ""),
                              Step("open", "payload"), Step("write", "payload"),
                              Step("open", "pk"), Step("write", "pk"),
                              Step("open", "phash"), Step("write", "phash") >>
  /\ Command("import") = << Step("read", "sk"), Step("read", "pk"), Step("sign", ""),
                            Step("open", "payload"), Step("write", "payload"),
                            Step("open", "pk"), Step("write", "pk"),
                            Step("open", "phash"), Step("write", "phash") >>
  /\ Command("verify") = << Step("read", "payload"), Step("read", "pk"), Step("read", "phash"),
                            Step("judge", "") >>
  /\ \A c \in Commands : Command(c) \in Seq(Steps)
<1> DEFINE K == Step("keygen", "")
           Si == Step("sign", "")
           J == Step("judge", "")
           Op(f) == Step("open", f)
           Wr(f) == Step("write", f)
           Re(f) == Step("read", f)
<1>1. /\ K \in Steps /\ Si \in Steps /\ J \in Steps
      /\ Op("payload") \in Steps /\ Wr("payload") \in Steps /\ Re("payload") \in Steps
      /\ Op("pk") \in Steps /\ Wr("pk") \in Steps /\ Re("pk") \in Steps
      /\ Op("sk") \in Steps /\ Wr("sk") \in Steps /\ Re("sk") \in Steps
      /\ Op("phash") \in Steps /\ Wr("phash") \in Steps /\ Re("phash") \in Steps
  BY StepType DEF Names, Files
<1>2. /\ Command("keygen") = (<<K>> \o <<Op("pk"), Wr("pk")>>) \o <<Op("sk"), Wr("sk")>>
      /\ Command("generate") = <<K, Si>> \o WriteOutputs
      /\ Command("import") = ((<<Re("sk")>> \o <<Re("pk")>>) \o <<Si>>) \o WriteOutputs
      /\ Command("verify") =
           ((<<Re("payload")>> \o <<Re("pk")>>) \o <<Re("phash")>>) \o <<J>>
      /\ WriteOutputs = (<<Op("payload"), Wr("payload")>> \o <<Op("pk"), Wr("pk")>>)
                          \o <<Op("phash"), Wr("phash")>>
  BY DEF Command, cmd_keygen, cmd_generate, cmd_generate_import, cmd_verify, WriteFile, ReadFile,
         WriteOutputs
<1> HIDE DEF K, Si, J, Op, Wr, Re
<1>3. <<K>> \o <<Op("pk"), Wr("pk")>> = <<K, Op("pk"), Wr("pk")>>
  <2> DEFINE s == <<K>>
             t == <<Op("pk"), Wr("pk")>>
             r == <<K, Op("pk"), Wr("pk")>>
  <2>1. s \in Seq(Steps) /\ t \in Seq(Steps) /\ r \in Seq(Steps)
    BY <1>1
  <2>2. Len(s) = 1 /\ Len(t) = 2 /\ Len(r) = 1 + 2
    OBVIOUS
  <2>3. \A i \in 1 .. 1 : r[i] = s[i]
    OBVIOUS
  <2>4. \A i \in 1 .. 2 : r[i + 1] = t[i]
    OBVIOUS
  <2> HIDE DEF s, t, r
  <2>5. Joins(s, t, r, 1, 2)
    BY <2>1, <2>2, <2>3, <2>4 DEF Joins
  <2>6. s \o t = r
    BY <2>5, Joined
  <2>7. QED
    BY <2>6 DEF s, t, r
<1>4. <<K, Op("pk"), Wr("pk")>> \o <<Op("sk"), Wr("sk")>> = <<K, Op("pk"), Wr("pk"), Op("sk"), Wr("sk")>>
  <2> DEFINE s == <<K, Op("pk"), Wr("pk")>>
             t == <<Op("sk"), Wr("sk")>>
             r == <<K, Op("pk"), Wr("pk"), Op("sk"), Wr("sk")>>
  <2>1. s \in Seq(Steps) /\ t \in Seq(Steps) /\ r \in Seq(Steps)
    BY <1>1
  <2>2. Len(s) = 3 /\ Len(t) = 2 /\ Len(r) = 3 + 2
    OBVIOUS
  <2>3. \A i \in 1 .. 3 : r[i] = s[i]
    OBVIOUS
  <2>4. \A i \in 1 .. 2 : r[i + 3] = t[i]
    OBVIOUS
  <2> HIDE DEF s, t, r
  <2>5. Joins(s, t, r, 3, 2)
    BY <2>1, <2>2, <2>3, <2>4 DEF Joins
  <2>6. s \o t = r
    BY <2>5, Joined
  <2>7. QED
    BY <2>6 DEF s, t, r
<1>5. <<Op("payload"), Wr("payload")>> \o <<Op("pk"), Wr("pk")>>
        = <<Op("payload"), Wr("payload"), Op("pk"), Wr("pk")>>
  <2> DEFINE s == <<Op("payload"), Wr("payload")>>
             t == <<Op("pk"), Wr("pk")>>
             r == <<Op("payload"), Wr("payload"), Op("pk"), Wr("pk")>>
  <2>1. s \in Seq(Steps) /\ t \in Seq(Steps) /\ r \in Seq(Steps)
    BY <1>1
  <2>2. Len(s) = 2 /\ Len(t) = 2 /\ Len(r) = 2 + 2
    OBVIOUS
  <2>3. \A i \in 1 .. 2 : r[i] = s[i]
    OBVIOUS
  <2>4. \A i \in 1 .. 2 : r[i + 2] = t[i]
    OBVIOUS
  <2> HIDE DEF s, t, r
  <2>5. Joins(s, t, r, 2, 2)
    BY <2>1, <2>2, <2>3, <2>4 DEF Joins
  <2>6. s \o t = r
    BY <2>5, Joined
  <2>7. QED
    BY <2>6 DEF s, t, r
<1>6. <<Op("payload"), Wr("payload"), Op("pk"), Wr("pk")>> \o <<Op("phash"), Wr("phash")>>
        = <<Op("payload"), Wr("payload"), Op("pk"), Wr("pk"), Op("phash"), Wr("phash")>>
  <2> DEFINE s == <<Op("payload"), Wr("payload"), Op("pk"), Wr("pk")>>
             t == <<Op("phash"), Wr("phash")>>
             r == <<Op("payload"), Wr("payload"), Op("pk"), Wr("pk"), Op("phash"), Wr("phash")>>
  <2>1. s \in Seq(Steps) /\ t \in Seq(Steps) /\ r \in Seq(Steps)
    BY <1>1
  <2>2. Len(s) = 4 /\ Len(t) = 2 /\ Len(r) = 4 + 2
    OBVIOUS
  <2>3. \A i \in 1 .. 4 : r[i] = s[i]
    OBVIOUS
  <2>4. \A i \in 1 .. 2 : r[i + 4] = t[i]
    OBVIOUS
  <2> HIDE DEF s, t, r
  <2>5. Joins(s, t, r, 4, 2)
    BY <2>1, <2>2, <2>3, <2>4 DEF Joins
  <2>6. s \o t = r
    BY <2>5, Joined
  <2>7. QED
    BY <2>6 DEF s, t, r
<1>7. WriteOutputs = <<Op("payload"), Wr("payload"), Op("pk"), Wr("pk"), Op("phash"), Wr("phash")>>
  BY <1>2, <1>5, <1>6, Zenon
<1>8. <<K, Si>> \o <<Op("payload"), Wr("payload"), Op("pk"), Wr("pk"), Op("phash"), Wr("phash")>>
        = <<K, Si, Op("payload"), Wr("payload"), Op("pk"), Wr("pk"), Op("phash"), Wr("phash")>>
  <2> DEFINE s == <<K, Si>>
             t == <<Op("payload"), Wr("payload"), Op("pk"), Wr("pk"), Op("phash"), Wr("phash")>>
             r == <<K, Si, Op("payload"), Wr("payload"), Op("pk"), Wr("pk"), Op("phash"), Wr("phash")>>
  <2>1. s \in Seq(Steps) /\ t \in Seq(Steps) /\ r \in Seq(Steps)
    BY <1>1
  <2>2. Len(s) = 2 /\ Len(t) = 6 /\ Len(r) = 2 + 6
    OBVIOUS
  <2>3. \A i \in 1 .. 2 : r[i] = s[i]
    OBVIOUS
  <2>4. \A i \in 1 .. 6 : r[i + 2] = t[i]
    OBVIOUS
  <2> HIDE DEF s, t, r
  <2>5. Joins(s, t, r, 2, 6)
    BY <2>1, <2>2, <2>3, <2>4 DEF Joins
  <2>6. s \o t = r
    BY <2>5, Joined
  <2>7. QED
    BY <2>6 DEF s, t, r
<1>9. <<Re("sk")>> \o <<Re("pk")>> = <<Re("sk"), Re("pk")>>
  <2> DEFINE s == <<Re("sk")>>
             t == <<Re("pk")>>
             r == <<Re("sk"), Re("pk")>>
  <2>1. s \in Seq(Steps) /\ t \in Seq(Steps) /\ r \in Seq(Steps)
    BY <1>1
  <2>2. Len(s) = 1 /\ Len(t) = 1 /\ Len(r) = 1 + 1
    OBVIOUS
  <2>3. \A i \in 1 .. 1 : r[i] = s[i]
    OBVIOUS
  <2>4. \A i \in 1 .. 1 : r[i + 1] = t[i]
    OBVIOUS
  <2> HIDE DEF s, t, r
  <2>5. Joins(s, t, r, 1, 1)
    BY <2>1, <2>2, <2>3, <2>4 DEF Joins
  <2>6. s \o t = r
    BY <2>5, Joined
  <2>7. QED
    BY <2>6 DEF s, t, r
<1>10. <<Re("sk"), Re("pk")>> \o <<Si>> = <<Re("sk"), Re("pk"), Si>>
  <2> DEFINE s == <<Re("sk"), Re("pk")>>
             t == <<Si>>
             r == <<Re("sk"), Re("pk"), Si>>
  <2>1. s \in Seq(Steps) /\ t \in Seq(Steps) /\ r \in Seq(Steps)
    BY <1>1
  <2>2. Len(s) = 2 /\ Len(t) = 1 /\ Len(r) = 2 + 1
    OBVIOUS
  <2>3. \A i \in 1 .. 2 : r[i] = s[i]
    OBVIOUS
  <2>4. \A i \in 1 .. 1 : r[i + 2] = t[i]
    OBVIOUS
  <2> HIDE DEF s, t, r
  <2>5. Joins(s, t, r, 2, 1)
    BY <2>1, <2>2, <2>3, <2>4 DEF Joins
  <2>6. s \o t = r
    BY <2>5, Joined
  <2>7. QED
    BY <2>6 DEF s, t, r
<1>11. <<Re("sk"), Re("pk"), Si>>
         \o <<Op("payload"), Wr("payload"), Op("pk"), Wr("pk"), Op("phash"), Wr("phash")>>
       = <<Re("sk"), Re("pk"), Si, Op("payload"), Wr("payload"), Op("pk"), Wr("pk"),
           Op("phash"), Wr("phash")>>
  <2> DEFINE s == <<Re("sk"), Re("pk"), Si>>
             t == <<Op("payload"), Wr("payload"), Op("pk"), Wr("pk"), Op("phash"), Wr("phash")>>
             r == <<Re("sk"), Re("pk"), Si, Op("payload"), Wr("payload"), Op("pk"), Wr("pk"),
           Op("phash"), Wr("phash")>>
  <2>1. s \in Seq(Steps) /\ t \in Seq(Steps) /\ r \in Seq(Steps)
    BY <1>1
  <2>2. Len(s) = 3 /\ Len(t) = 6 /\ Len(r) = 3 + 6
    OBVIOUS
  <2>3. \A i \in 1 .. 3 : r[i] = s[i]
    OBVIOUS
  <2>4. \A i \in 1 .. 6 : r[i + 3] = t[i]
    OBVIOUS
  <2> HIDE DEF s, t, r
  <2>5. Joins(s, t, r, 3, 6)
    BY <2>1, <2>2, <2>3, <2>4 DEF Joins
  <2>6. s \o t = r
    BY <2>5, Joined
  <2>7. QED
    BY <2>6 DEF s, t, r
<1>12. <<Re("payload")>> \o <<Re("pk")>> = <<Re("payload"), Re("pk")>>
  <2> DEFINE s == <<Re("payload")>>
             t == <<Re("pk")>>
             r == <<Re("payload"), Re("pk")>>
  <2>1. s \in Seq(Steps) /\ t \in Seq(Steps) /\ r \in Seq(Steps)
    BY <1>1
  <2>2. Len(s) = 1 /\ Len(t) = 1 /\ Len(r) = 1 + 1
    OBVIOUS
  <2>3. \A i \in 1 .. 1 : r[i] = s[i]
    OBVIOUS
  <2>4. \A i \in 1 .. 1 : r[i + 1] = t[i]
    OBVIOUS
  <2> HIDE DEF s, t, r
  <2>5. Joins(s, t, r, 1, 1)
    BY <2>1, <2>2, <2>3, <2>4 DEF Joins
  <2>6. s \o t = r
    BY <2>5, Joined
  <2>7. QED
    BY <2>6 DEF s, t, r
<1>13. <<Re("payload"), Re("pk")>> \o <<Re("phash")>> = <<Re("payload"), Re("pk"), Re("phash")>>
  <2> DEFINE s == <<Re("payload"), Re("pk")>>
             t == <<Re("phash")>>
             r == <<Re("payload"), Re("pk"), Re("phash")>>
  <2>1. s \in Seq(Steps) /\ t \in Seq(Steps) /\ r \in Seq(Steps)
    BY <1>1
  <2>2. Len(s) = 2 /\ Len(t) = 1 /\ Len(r) = 2 + 1
    OBVIOUS
  <2>3. \A i \in 1 .. 2 : r[i] = s[i]
    OBVIOUS
  <2>4. \A i \in 1 .. 1 : r[i + 2] = t[i]
    OBVIOUS
  <2> HIDE DEF s, t, r
  <2>5. Joins(s, t, r, 2, 1)
    BY <2>1, <2>2, <2>3, <2>4 DEF Joins
  <2>6. s \o t = r
    BY <2>5, Joined
  <2>7. QED
    BY <2>6 DEF s, t, r
<1>14. <<Re("payload"), Re("pk"), Re("phash")>> \o <<J>>
         = <<Re("payload"), Re("pk"), Re("phash"), J>>
  <2> DEFINE s == <<Re("payload"), Re("pk"), Re("phash")>>
             t == <<J>>
             r == <<Re("payload"), Re("pk"), Re("phash"), J>>
  <2>1. s \in Seq(Steps) /\ t \in Seq(Steps) /\ r \in Seq(Steps)
    BY <1>1
  <2>2. Len(s) = 3 /\ Len(t) = 1 /\ Len(r) = 3 + 1
    OBVIOUS
  <2>3. \A i \in 1 .. 3 : r[i] = s[i]
    OBVIOUS
  <2>4. \A i \in 1 .. 1 : r[i + 3] = t[i]
    OBVIOUS
  <2> HIDE DEF s, t, r
  <2>5. Joins(s, t, r, 3, 1)
    BY <2>1, <2>2, <2>3, <2>4 DEF Joins
  <2>6. s \o t = r
    BY <2>5, Joined
  <2>7. QED
    BY <2>6 DEF s, t, r
<1>15. /\ Command("keygen") = <<K, Op("pk"), Wr("pk"), Op("sk"), Wr("sk")>>
       /\ Command("generate") = <<K, Si, Op("payload"), Wr("payload"), Op("pk"), Wr("pk"),
                                  Op("phash"), Wr("phash")>>
       /\ Command("import") = <<Re("sk"), Re("pk"), Si, Op("payload"), Wr("payload"),
                                Op("pk"), Wr("pk"), Op("phash"), Wr("phash")>>
       /\ Command("verify") = <<Re("payload"), Re("pk"), Re("phash"), J>>
  BY <1>2, <1>3, <1>4, <1>7, <1>8, <1>9, <1>10, <1>11, <1>12, <1>13, <1>14, Zenon
<1>16. <<K, Op("pk"), Wr("pk"), Op("sk"), Wr("sk")>> \in Seq(Steps)
  BY <1>1
<1>17. <<K, Si, Op("payload"), Wr("payload"), Op("pk"), Wr("pk"), Op("phash"), Wr("phash")>>
         \in Seq(Steps)
  BY <1>1
<1>18. <<Re("sk"), Re("pk"), Si, Op("payload"), Wr("payload"), Op("pk"), Wr("pk"),
         Op("phash"), Wr("phash")>> \in Seq(Steps)
  BY <1>1
<1>19. <<Re("payload"), Re("pk"), Re("phash"), J>> \in Seq(Steps)
  BY <1>1
<1>20. \A c \in Commands : Command(c) \in Seq(Steps)
  BY <1>15, <1>16, <1>17, <1>18, <1>19, Zenon DEF Commands
<1>21. QED
  BY <1>15, <1>20 DEF K, Si, J, Op, Wr, Re

-----------------------------------------------------------------------------
(* The invariant.  A process that runs command c has memory m and is       *)
(* before step k of it; a process that is alone knows the disk d, but for  *)
(* the files lo of which it lost a flush, and an import knows the files it *)
(* found, b.                                                               *)

Signed(m) == SignedWith(m["sk"], m["phash"])

InMemory(c, k, m) ==
  /\ c \in {"keygen", "generate"} /\ k > 1 => m["pk"] = m["sk"] /\ m["pk"] = Whole(m["pk"][2])
  /\ c \in {"generate", "import"} => m["phash"] = Whole(m["phash"][2])
  /\ (c = "generate" /\ k > 2) \/ (c = "import" /\ k > 3) => m["payload"] = Signed(m)

SamePk(c, k) ==
  \/ c = "keygen" /\ k > 3
  \/ c = "generate" /\ k > 6
  \/ c = "import" /\ k > 7
  \/ c = "verify" /\ k > 2

SamePayload(c, k) ==
  \/ c = "generate" /\ k > 4
  \/ c = "import" /\ k > 5
  \/ c = "verify" /\ k > 1

OnDisk(c, k, m, lo, d) ==
  /\ Command(c)[k].op = "write" => d[Command(c)[k].file] = Empty
  /\ c = "verify" => lo = {}
  /\ SamePk(c, k) => Left(d, "pk", m["pk"], lo)
  /\ SamePayload(c, k) => Left(d, "payload", m["payload"], lo)
  /\ c = "verify" /\ k > 3 => d["phash"] = m["phash"]

Imported(k, m, b, d) ==
  /\ d["sk"] = b["sk"]
  /\ k > 1 => m["sk"] = b["sk"]
  /\ k > 2 => m["pk"] = b["pk"]
  /\ k <= 6 => d["pk"] = b["pk"]

Facts(c, k, m, al, lo, b, d) ==
  /\ InMemory(c, k, m)
  /\ al => OnDisk(c, k, m, lo, d) /\ (c = "import" => Imported(k, m, b, d))

Rest(c, k) == SubSeq(Command(c), k, Len(Command(c)))

IsBefore(p, k) ==
  /\ todo[p] = Rest(cmd[p], k)
  /\ Facts(cmd[p], k, mem[p], alone[p], lost[p], before[p], disk)

InProgress(p) ==
  cmd[p] \in Commands /\ \E k \in 1 .. Len(Command(cmd[p])) : IsBefore(p, k)

Shapes ==
  /\ DOMAIN todo = Procs /\ DOMAIN cmd = Procs /\ DOMAIN mem = Procs /\ DOMAIN exit = Procs
  /\ alone \in [Procs -> BOOLEAN] /\ lost \in [Procs -> SUBSET Files] /\ DOMAIN before = Procs
  /\ DOMAIN disk = Files /\ \A p \in Procs : DOMAIN mem[p] = Files

Undisturbed(p) == p \in Running /\ \A q \in Running : q # p => cmd[q] = "verify"

ToolInv ==
  /\ Shapes
  /\ \A f \in Files : IsContent(disk[f])
  /\ \A p \in Procs, f \in Files : IsContent(mem[p][f])
  /\ \A p \in Procs : alone[p] => Undisturbed(p)
  /\ \A p \in Running : InProgress(p)

-----------------------------------------------------------------------------
(* Where the steps are.                                                    *)

(* A command C step by step, and which command it is.                      *)
KeygenScript(C) ==
  /\ Len(C) = 5
  /\ C[1].op = "keygen"
  /\ C[2].op = "open" /\ C[2].file = "pk"
  /\ C[3].op = "write" /\ C[3].file = "pk"
  /\ C[4].op = "open" /\ C[4].file = "sk"
  /\ C[5].op = "write" /\ C[5].file = "sk"

GenerateScript(C) ==
  /\ Len(C) = 8
  /\ C[1].op = "keygen"
  /\ C[2].op = "sign"
  /\ C[3].op = "open" /\ C[3].file = "payload"
  /\ C[4].op = "write" /\ C[4].file = "payload"
  /\ C[5].op = "open" /\ C[5].file = "pk"
  /\ C[6].op = "write" /\ C[6].file = "pk"
  /\ C[7].op = "open" /\ C[7].file = "phash"
  /\ C[8].op = "write" /\ C[8].file = "phash"

ImportScript(C) ==
  /\ Len(C) = 9
  /\ C[1].op = "read" /\ C[1].file = "sk"
  /\ C[2].op = "read" /\ C[2].file = "pk"
  /\ C[3].op = "sign"
  /\ C[4].op = "open" /\ C[4].file = "payload"
  /\ C[5].op = "write" /\ C[5].file = "payload"
  /\ C[6].op = "open" /\ C[6].file = "pk"
  /\ C[7].op = "write" /\ C[7].file = "pk"
  /\ C[8].op = "open" /\ C[8].file = "phash"
  /\ C[9].op = "write" /\ C[9].file = "phash"

VerifyScript(C) ==
  /\ Len(C) = 4
  /\ C[1].op = "read" /\ C[1].file = "payload"
  /\ C[2].op = "read" /\ C[2].file = "pk"
  /\ C[3].op = "read" /\ C[3].file = "phash"
  /\ C[4].op = "judge"

ScriptOf(c, C) ==
  \/ c = "keygen" /\ KeygenScript(C)
  \/ c = "generate" /\ GenerateScript(C)
  \/ c = "import" /\ ImportScript(C)
  \/ c = "verify" /\ VerifyScript(C)

LEMMA Scripts == \A c \in Commands : ScriptOf(c, Command(c))
<1>1. KeygenScript(Command("keygen"))
  <2> DEFINE C == Command("keygen")
  <2>1. C = << Step("keygen", ""), Step("open", "pk"), Step("write", "pk"), Step("open", "sk"),
              Step("write", "sk") >>
    BY CommandSteps
  <2> HIDE DEF C
  <2>2. KeygenScript(C)
    BY <2>1 DEF Step, KeygenScript
  <2>3. QED
    BY <2>2 DEF C
<1>2. GenerateScript(Command("generate"))
  <2> DEFINE C == Command("generate")
  <2>1. C = << Step("keygen", ""), Step("sign", ""), Step("open", "payload"), Step("write",
              "payload"), Step("open", "pk"), Step("write", "pk"), Step("open", "phash"),
              Step("write", "phash") >>
    BY CommandSteps
  <2> HIDE DEF C
  <2>2. GenerateScript(C)
    BY <2>1 DEF Step, GenerateScript
  <2>3. QED
    BY <2>2 DEF C
<1>3. ImportScript(Command("import"))
  <2> DEFINE C == Command("import")
  <2>1. C = << Step("read", "sk"), Step("read", "pk"), Step("sign", ""), Step("open", "payload"),
              Step("write", "payload"), Step("open", "pk"), Step("write", "pk"), Step("open",
              "phash"), Step("write", "phash") >>
    BY CommandSteps
  <2> HIDE DEF C
  <2>2. ImportScript(C)
    BY <2>1 DEF Step, ImportScript
  <2>3. QED
    BY <2>2 DEF C
<1>4. VerifyScript(Command("verify"))
  <2> DEFINE C == Command("verify")
  <2>1. C = << Step("read", "payload"), Step("read", "pk"), Step("read", "phash"), Step("judge",
              "") >>
    BY CommandSteps
  <2> HIDE DEF C
  <2>2. VerifyScript(C)
    BY <2>1 DEF Step, VerifyScript
  <2>3. QED
    BY <2>2 DEF C
<1>5. QED
  BY <1>1, <1>2, <1>3, <1>4, Zenon DEF ScriptOf, Commands

Ops == {"keygen", "sign", "read", "open", "write", "judge"}

(* Where each operation is.                                                *)
StepPlaces(c, C, k) ==
  /\ C[k].op \in Ops
  /\ C[k].op = "keygen" => k = 1 /\ c \in {"keygen", "generate"}
  /\ C[k].op = "sign" => (c = "generate" /\ k = 2) \/ (c = "import" /\ k = 3)
  /\ C[k].op = "judge" => c = "verify" /\ k = 4
  /\ C[k].op = "read" =>
       \/ c = "import" /\ k = 1 /\ C[k].file = "sk"
       \/ c = "import" /\ k = 2 /\ C[k].file = "pk"
       \/ c = "verify" /\ k = 1 /\ C[k].file = "payload"
       \/ c = "verify" /\ k = 2 /\ C[k].file = "pk"
       \/ c = "verify" /\ k = 3 /\ C[k].file = "phash"
  /\ C[k].op = "open" =>
       /\ k < Len(C) /\ C[k + 1].op = "write" /\ C[k + 1].file = C[k].file
       /\ \/ c = "keygen" /\ k = 2 /\ C[k].file = "pk"
          \/ c = "keygen" /\ k = 4 /\ C[k].file = "sk"
          \/ c = "generate" /\ k = 3 /\ C[k].file = "payload"
          \/ c = "generate" /\ k = 5 /\ C[k].file = "pk"
          \/ c = "generate" /\ k = 7 /\ C[k].file = "phash"
          \/ c = "import" /\ k = 4 /\ C[k].file = "payload"
          \/ c = "import" /\ k = 6 /\ C[k].file = "pk"
          \/ c = "import" /\ k = 8 /\ C[k].file = "phash"
  /\ C[k].op = "write" =>
       \/ c = "keygen" /\ k = 3 /\ C[k].file = "pk" /\ k < Len(C)
       \/ c = "keygen" /\ k = 5 /\ C[k].file = "sk" /\ k = Len(C)
       \/ c = "generate" /\ k = 4 /\ C[k].file = "payload" /\ k < Len(C)
       \/ c = "generate" /\ k = 6 /\ C[k].file = "pk" /\ k < Len(C)
       \/ c = "generate" /\ k = 8 /\ C[k].file = "phash" /\ k = Len(C)
       \/ c = "import" /\ k = 5 /\ C[k].file = "payload" /\ k < Len(C)
       \/ c = "import" /\ k = 7 /\ C[k].file = "pk" /\ k < Len(C)
       \/ c = "import" /\ k = 9 /\ C[k].file = "phash" /\ k = Len(C)
  /\ C[k].op \notin {"write", "judge"} => k < Len(C)
  /\ C[k].op # "open" /\ k < Len(C) => C[k + 1].op # "write"

LEMMA StepAt ==
  ASSUME NEW c, NEW C, ScriptOf(c, C), NEW k \in 1 .. Len(C)
  PROVE  StepPlaces(c, C, k)
<1>1. CASE c = "keygen" /\ KeygenScript(C)
  <2>1. k \in 1 .. 5
    BY <1>1 DEF KeygenScript
  <2>2. k = 1 \/ k = 2 \/ k = 3 \/ k = 4 \/ k = 5
    BY <2>1
  <2>3. QED
    BY <1>1, <2>2 DEF KeygenScript, StepPlaces, Ops
<1>2. CASE c = "generate" /\ GenerateScript(C)
  <2>1. k \in 1 .. 8
    BY <1>2 DEF GenerateScript
  <2>2. k = 1 \/ k = 2 \/ k = 3 \/ k = 4 \/ k = 5 \/ k = 6 \/ k = 7 \/ k = 8
    BY <2>1
  <2>3. QED
    BY <1>2, <2>2 DEF GenerateScript, StepPlaces, Ops
<1>3. CASE c = "import" /\ ImportScript(C)
  <2>1. k \in 1 .. 9
    BY <1>3 DEF ImportScript
  <2>2. k = 1 \/ k = 2 \/ k = 3 \/ k = 4 \/ k = 5 \/ k = 6 \/ k = 7 \/ k = 8 \/ k = 9
    BY <2>1
  <2>3. QED
    BY <1>3, <2>2 DEF ImportScript, StepPlaces, Ops
<1>4. CASE c = "verify" /\ VerifyScript(C)
  <2>1. k \in 1 .. 4
    BY <1>4 DEF VerifyScript
  <2>2. k = 1 \/ k = 2 \/ k = 3 \/ k = 4
    BY <2>1
  <2>3. QED
    BY <1>4, <2>2 DEF VerifyScript, StepPlaces, Ops
<1>5. QED
  BY <1>1, <1>2, <1>3, <1>4 DEF ScriptOf

LEMMA RestSteps ==
  ASSUME NEW c \in Commands, NEW k \in 1 .. Len(Command(c))
  PROVE  /\ Len(Command(c)) \in Nat
         /\ Rest(c, k) # << >>
         /\ Head(Rest(c, k)) = Command(c)[k]
         /\ Len(Rest(c, k)) = Len(Command(c)) - k + 1
         /\ Tail(Rest(c, k)) = Rest(c, k + 1)
<1> DEFINE C == Command(c)
           n == Len(C)
           r == SubSeq(C, k, n)
<1>1. C \in Seq(Steps)
  BY CommandSteps
<1>2. n \in Nat
  BY <1>1, LenProperties
<1>3. k \in 1 .. n /\ n \in k .. n
  BY <1>2
<1>4. \A i \in k .. n : C[i] \in Steps
  <2>1. \A i \in 1 .. n : C[i] \in Steps
    BY <1>1, ElementOfSeq
  <2>2. QED
    BY <1>2, <1>3, <2>1
<1> HIDE DEF C, n
<1>5. Head(r) = C[k] /\ Tail(r) = SubSeq(C, k + 1, n)
  BY <1>1, <1>3, HeadTailOfSubSeq DEF n
<1>6. r \in Seq(Steps) /\ Len(r) = IF k <= n THEN (n - k) + 1 ELSE 0
  BY <1>2, <1>3, <1>4, SubSeqProperties
<1>7. Len(r) = (n - k) + 1 /\ Len(r) # 0
  BY <1>2, <1>3, <1>6
<1>8. r # << >>
  <2>1. Len(<< >>) = 0
    OBVIOUS
  <2> HIDE DEF r
  <2>2. QED
    BY <1>7, <2>1
<1>9. QED
  BY <1>2, <1>5, <1>7, <1>8 DEF Rest, n, C

LEMMA WholeCommand == ASSUME NEW c \in Commands PROVE Rest(c, 1) = Command(c)
BY CommandSteps, SubSeqFull DEF Rest

LEMMA SomeSteps == \A c \in Commands : Len(Command(c)) \in Nat /\ 1 \in 1 .. Len(Command(c))
BY Scripts DEF ScriptOf, KeygenScript, GenerateScript, ImportScript, VerifyScript

(* The process that takes a step, and the step.                            *)
LEMMA StepOf ==
  ASSUME ToolInv, NEW p \in Running
  PROVE  /\ p \in Procs /\ cmd[p] \in Commands
         /\ \E k \in 1 .. Len(Command(cmd[p])) :
              /\ IsBefore(p, k)
              /\ StepPlaces(cmd[p], Command(cmd[p]), k)
              /\ todo[p] # << >>
              /\ Head(todo[p]) = Command(cmd[p])[k]
              /\ Len(todo[p]) = Len(Command(cmd[p])) - k + 1
              /\ Tail(todo[p]) = Rest(cmd[p], k + 1)
<1>1. p \in Procs /\ InProgress(p)
  BY DEF ToolInv, Running
<1>2. cmd[p] \in Commands
  BY <1>1 DEF InProgress
<1>3. PICK k \in 1 .. Len(Command(cmd[p])) : IsBefore(p, k)
  BY <1>1 DEF InProgress
<1>4. todo[p] = Rest(cmd[p], k)
  BY <1>3 DEF IsBefore
<1>5. StepPlaces(cmd[p], Command(cmd[p]), k)
  BY <1>2, Scripts, StepAt
<1>6. /\ Rest(cmd[p], k) # << >>
      /\ Head(Rest(cmd[p], k)) = Command(cmd[p])[k]
      /\ Len(Rest(cmd[p], k)) = Len(Command(cmd[p])) - k + 1
      /\ Tail(Rest(cmd[p], k)) = Rest(cmd[p], k + 1)
  BY <1>2, RestSteps
<1>7. QED
  BY <1>1, <1>2, <1>3, <1>4, <1>5, <1>6

(* A process that is alone is not disturbed by the step of another one     *)
(* that leaves the disk as it is if it is a verify.                        *)
LEMMA OtherStays ==
  ASSUME ToolInv, NEW q \in Running,
         todo'[q] = todo[q], cmd'[q] = cmd[q], mem'[q] = mem[q], lost'[q] = lost[q],
         before'[q] = before[q], alone'[q] => alone[q] /\ disk' = disk
  PROVE  InProgress(q)'
<1>1. q \in Procs /\ InProgress(q)
  BY DEF ToolInv, Running
<1>2. PICK k \in 1 .. Len(Command(cmd[q])) : IsBefore(q, k)
  BY <1>1 DEF InProgress
<1>3. todo'[q] = Rest(cmd'[q], k) /\ InMemory(cmd'[q], k, mem'[q])
  BY <1>2 DEF IsBefore, Facts
<1>4. ASSUME alone'[q]
      PROVE  /\ OnDisk(cmd'[q], k, mem'[q], lost'[q], disk')
             /\ cmd'[q] = "import" => Imported(k, mem'[q], before'[q], disk')
  BY <1>2, <1>4 DEF IsBefore, Facts
<1>5. IsBefore(q, k)'
  BY <1>3, <1>4 DEF IsBefore, Facts
<1>6. cmd'[q] \in Commands /\ k \in 1 .. Len(Command(cmd'[q]))
  BY <1>1, <1>2 DEF InProgress
<1>7. QED
  BY <1>5, <1>6 DEF InProgress

(* While a process runs, another one is alone only if it is a verify.      *)
LEMMA Disturbed ==
  ASSUME ToolInv, NEW p \in Running, NEW q \in Procs, q # p, alone[q]
  PROVE  cmd[p] = "verify" /\ Undisturbed(q)
BY DEF ToolInv, Undisturbed

(* A step that ends the process.                                           *)
LEMMA EndInv ==
  ASSUME ToolInv, NEW p \in Running, NEW code, code # "running", End(p, code),
         NEW lo \in SUBSET Files, lost' = [lost EXCEPT ![p] = lo], cmd[p] = "verify" => disk' = disk,
         DOMAIN disk' = Files, \A f \in Files : IsContent(disk'[f])
  PROVE  ToolInv'
<1>1. p \in Procs /\ Shapes
  BY DEF ToolInv, Running
<1>2. Shapes'
  <2>1. /\ DOMAIN todo' = Procs /\ DOMAIN cmd' = Procs /\ DOMAIN exit' = Procs
        /\ DOMAIN before' = Procs
    BY <1>1 DEF End, Shapes
  <2>2. alone' \in [Procs -> BOOLEAN] /\ lost' \in [Procs -> SUBSET Files]
    BY <1>1 DEF End, Shapes
  <2>3. DOMAIN mem' = Procs /\ \A q \in Procs : DOMAIN mem'[q] = Files
    BY <1>1 DEF End, Shapes, Nothing
  <2>4. QED
    BY <2>1, <2>2, <2>3 DEF Shapes
<1>3. \A q \in Procs, f \in Files : IsContent(mem'[q][f])
  BY <1>1 DEF End, Shapes, ToolInv, Nothing, IsContent
<1>4. Running' = Running \ {p}
  BY <1>1 DEF End, Shapes, Running
<1>5. ASSUME NEW q \in Procs, alone'[q]
      PROVE  q # p /\ alone[q] /\ disk' = disk /\ Undisturbed(q)'
  <2>1. q # p /\ alone[q]
    BY <1>1, <1>5 DEF End, Shapes
  <2>2. cmd[p] = "verify" /\ Undisturbed(q)
    BY <2>1, Disturbed
  <2>3. \A r \in Running' : cmd'[r] = cmd[r]
    BY <1>1, <1>4 DEF End, Shapes, Running
  <2>4. QED
    BY <1>4, <2>1, <2>2, <2>3 DEF Undisturbed
<1>6. ASSUME NEW q \in Running' PROVE InProgress(q)'
  <2>1. q \in Running /\ q \in Procs /\ q # p
    BY <1>4 DEF Running
  <2>2. /\ todo'[q] = todo[q] /\ cmd'[q] = cmd[q] /\ mem'[q] = mem[q]
        /\ lost'[q] = lost[q] /\ before'[q] = before[q]
    BY <1>1, <2>1 DEF End, Shapes
  <2>3. alone'[q] => alone[q] /\ disk' = disk
    BY <1>5, <2>1
  <2>4. QED
    BY <2>1, <2>2, <2>3, OtherStays
<1>7. QED
  BY <1>2, <1>3, <1>5, <1>6 DEF ToolInv

(* A step after which the process goes on with memory m.                   *)
LEMMA AdvanceInv ==
  ASSUME ToolInv, NEW p \in Running, NEW m, Advance(p, m),
         NEW lo \in SUBSET Files, lost' = [lost EXCEPT ![p] = lo], cmd[p] = "verify" => disk' = disk,
         DOMAIN m = Files, \A f \in Files : IsContent(m[f]),
         DOMAIN disk' = Files, \A f \in Files : IsContent(disk'[f]),
         \A k \in 1 .. Len(Command(cmd[p])) :
           /\ IsBefore(p, k)
           /\ Head(todo[p]) = Command(cmd[p])[k]
           /\ k < Len(Command(cmd[p]))
           => Facts(cmd[p], k + 1, m, alone[p], lo, before[p], disk')
  PROVE  ToolInv'
<1>1. p \in Procs /\ Shapes /\ cmd[p] \in Commands
  BY StepOf DEF ToolInv
<1>2. CASE Len(todo[p]) = 1 /\ End(p, Exit0)
  BY <1>2, EndInv DEF Exit0
<1>3. CASE /\ Len(todo[p]) > 1
           /\ todo' = [todo EXCEPT ![p] = Tail(todo[p])]
           /\ mem' = [mem EXCEPT ![p] = m]
           /\ UNCHANGED <<exit, cmd, alone, before>>
  <2>1. Shapes'
    <3>1. DOMAIN todo' = Procs /\ DOMAIN cmd' = Procs /\ DOMAIN exit' = Procs /\ DOMAIN before' = Procs
      BY <1>1, <1>3 DEF Shapes
    <3>2. alone' \in [Procs -> BOOLEAN] /\ lost' \in [Procs -> SUBSET Files]
      BY <1>1, <1>3 DEF Shapes
    <3>3. DOMAIN mem' = Procs /\ \A q \in Procs : DOMAIN mem'[q] = Files
      BY <1>1, <1>3 DEF Shapes
    <3>4. QED
      BY <3>1, <3>2, <3>3 DEF Shapes
  <2>2. \A q \in Procs, f \in Files : IsContent(mem'[q][f])
    BY <1>1, <1>3 DEF Shapes, ToolInv
  <2>3. Running' = Running
    BY <1>3 DEF Running
  <2>4. \A q \in Procs : alone'[q] => Undisturbed(q)'
    BY <1>3, <2>3 DEF ToolInv, Undisturbed
  <2>5. ASSUME NEW q \in Running', q # p PROVE InProgress(q)'
    <3>1. q \in Running /\ q \in Procs
      BY <2>3, <2>5 DEF Running
    <3>2. /\ todo'[q] = todo[q] /\ cmd'[q] = cmd[q] /\ mem'[q] = mem[q]
          /\ lost'[q] = lost[q] /\ before'[q] = before[q] /\ alone'[q] = alone[q]
      BY <1>1, <1>3, <2>5, <3>1 DEF Shapes
    <3>3. alone'[q] => alone[q] /\ disk' = disk
      BY <2>5, <3>1, <3>2, Disturbed
    <3>4. QED
      BY <2>5, <3>1, <3>2, <3>3, OtherStays
  <2>6. InProgress(p)'
    <3>1. PICK k \in 1 .. Len(Command(cmd[p])) :
            /\ IsBefore(p, k)
            /\ Head(todo[p]) = Command(cmd[p])[k]
            /\ Len(todo[p]) = Len(Command(cmd[p])) - k + 1
            /\ Tail(todo[p]) = Rest(cmd[p], k + 1)
      BY StepOf
    <3>2. Len(Command(cmd[p])) \in Nat
      BY <1>1, SomeSteps
    <3>3. k < Len(Command(cmd[p])) /\ k + 1 \in 1 .. Len(Command(cmd[p]))
      <4> DEFINE n == Len(Command(cmd[p]))
                 l == Len(todo[p])
      <4>1. n \in Nat /\ k \in 1 .. n /\ l > 1 /\ l = n - k + 1
        BY <1>3, <3>1, <3>2
      <4> HIDE DEF n, l
      <4>2. k < n /\ k + 1 \in 1 .. n
        BY <4>1
      <4>3. QED
        BY <4>2 DEF n
    <3>4. Facts(cmd[p], k + 1, m, alone[p], lo, before[p], disk')
      BY <3>1, <3>3
    <3>5. todo'[p] = Rest(cmd[p], k + 1) /\ mem'[p] = m /\ cmd'[p] = cmd[p]
      BY <1>1, <1>3, <3>1 DEF Shapes
    <3>6. alone'[p] = alone[p] /\ before'[p] = before[p] /\ lost'[p] = lo
      BY <1>1, <1>3 DEF Shapes
    <3>7. IsBefore(p, k + 1)'
      BY <3>4, <3>5, <3>6 DEF IsBefore
    <3>8. cmd'[p] \in Commands /\ k + 1 \in 1 .. Len(Command(cmd'[p]))
      BY <1>1, <3>3, <3>5
    <3>9. QED
      BY <3>7, <3>8 DEF InProgress
  <2>7. QED
    BY <2>1, <2>2, <2>3, <2>4, <2>5, <2>6 DEF ToolInv
<1>4. QED
  BY <1>2, <1>3 DEF Advance

-----------------------------------------------------------------------------
(* The actions.                                                            *)

LEMMA InitToolInv == Init => ToolInv
<1> SUFFICES ASSUME Init PROVE ToolInv
  OBVIOUS
<1>1. Shapes
  BY DEF Init, Shapes, Nothing
<1>2. Running = {}
  BY DEF Init, Running
<1>3. \A f \in Files : IsContent(disk[f])
  BY DEF Init, Nothing, IsContent
<1>4. \A p \in Procs, f \in Files : IsContent(mem[p][f])
  BY DEF Init, Nothing, IsContent
<1>5. \A p \in Procs : ~alone[p]
  BY DEF Init
<1>6. QED
  BY <1>1, <1>2, <1>3, <1>4, <1>5 DEF ToolInv

LEMMA StartInv ==
  ASSUME ToolInv, NEW p \in Procs, NEW c \in Commands, NEW phash \in PHashes, Start(p, c, phash)
  PROVE  ToolInv'
<1> DEFINE m == IF c \in {"generate", "import"} THEN [Nothing EXCEPT !["phash"] = Whole(phash)] ELSE Nothing
<1>1. Shapes /\ p \notin Running
  BY DEF ToolInv, Start
<1>2. DOMAIN m = Files /\ \A f \in Files : IsContent(m[f])
  BY Contents DEF Nothing, IsContent, Files
<1>3. c \in {"generate", "import"} => m["phash"] = Whole(m["phash"][2])
  BY Contents DEF Nothing, Files
<1>4. mem' = [mem EXCEPT ![p] = m]
  BY DEF Start
<1> HIDE DEF m
<1>5. Shapes'
  <2>1. DOMAIN todo' = Procs /\ DOMAIN cmd' = Procs /\ DOMAIN exit' = Procs /\ DOMAIN before' = Procs
    BY <1>1 DEF Start, Shapes
  <2>2. alone' \in [Procs -> BOOLEAN] /\ lost' \in [Procs -> SUBSET Files]
    BY <1>1 DEF Start, Shapes
  <2>3. DOMAIN mem' = Procs /\ (\A q \in Procs : DOMAIN mem'[q] = Files) /\ DOMAIN disk' = Files
    BY <1>1, <1>2, <1>4 DEF Start, Shapes
  <2>4. QED
    BY <2>1, <2>2, <2>3 DEF Shapes
<1>6. /\ \A q \in Procs, f \in Files : IsContent(mem'[q][f])
      /\ \A f \in Files : IsContent(disk'[f])
  BY <1>1, <1>2, <1>4 DEF Start, Shapes, ToolInv
<1>7. Running' = Running \cup {p}
  BY <1>1 DEF Start, Shapes, Running
<1>8. /\ \A q \in Running : q \in Procs /\ q # p /\ cmd'[q] = cmd[q]
      /\ cmd'[p] = c
  BY <1>1 DEF Start, Shapes, Running
<1>9. ASSUME NEW q \in Procs, q # p, alone'[q] PROVE alone[q] /\ c = "verify"
  BY <1>9 DEF Start
<1>10. ASSUME NEW q \in Procs, alone'[q] PROVE Undisturbed(q)'
  <2>1. CASE q = p
    <3>1. \A r \in Running : cmd[r] = "verify"
      BY <1>10, <2>1 DEF Start
    <3>2. QED
      BY <1>7, <1>8, <2>1, <3>1 DEF Undisturbed
  <2>2. CASE q # p
    <3>1. alone[q] /\ c = "verify" /\ Undisturbed(q)
      BY <1>9, <1>10, <2>2 DEF ToolInv
    <3>2. QED
      BY <1>7, <1>8, <3>1 DEF Undisturbed
  <2>3. QED
    BY <2>1, <2>2
<1>11. ASSUME NEW q \in Running', q # p PROVE InProgress(q)'
  <2>1. q \in Running /\ q \in Procs
    BY <1>7, <1>11 DEF Running
  <2>2. /\ todo'[q] = todo[q] /\ cmd'[q] = cmd[q] /\ mem'[q] = mem[q]
        /\ lost'[q] = lost[q] /\ before'[q] = before[q] /\ disk' = disk
    BY <1>1, <1>11, <2>1 DEF Start, Shapes
  <2>3. alone'[q] => alone[q] /\ disk' = disk
    BY <1>9, <1>11, <2>1, <2>2
  <2>4. QED
    BY <2>1, <2>2, <2>3, OtherStays
<1>12. InProgress(p)'
  <2>1. cmd'[p] = c /\ mem'[p] = m /\ lost'[p] = {} /\ disk' = disk
    BY <1>1, <1>4 DEF Start, Shapes
  <2>2. todo'[p] = Rest(c, 1)
    BY <1>1, WholeCommand DEF Start, Shapes
  <2>3. c = "import" => before'[p] = disk
    BY <1>1 DEF Start, Shapes
  <2>4. 1 \in 1 .. Len(Command(c)) /\ StepPlaces(c, Command(c), 1)
    BY SomeSteps, Scripts, StepAt
  <2>5. InMemory(c, 1, m)
    BY <1>3 DEF InMemory
  <2>6. Command(c)[1].op # "write"
    BY <2>4 DEF StepPlaces
  <2>7. OnDisk(c, 1, m, {}, disk)
    BY <2>6 DEF OnDisk, SamePk, SamePayload
  <2>8. c = "import" => Imported(1, m, before'[p], disk)
    BY <2>3 DEF Imported
  <2>9. Facts(c, 1, m, alone'[p], {}, before'[p], disk)
    BY <2>5, <2>7, <2>8 DEF Facts
  <2>10. IsBefore(p, 1)'
    BY <2>1, <2>2, <2>9 DEF IsBefore
  <2>11. cmd'[p] \in Commands /\ 1 \in 1 .. Len(Command(cmd'[p]))
    BY <2>1, <2>4
  <2>12. QED
    BY <2>10, <2>11 DEF InProgress
<1>13. QED
  BY <1>5, <1>6, <1>10, <1>11, <1>12 DEF ToolInv

LEMMA SameLost ==
  ASSUME ToolInv, NEW p \in Procs
  PROVE  lost[p] \in SUBSET Files /\ lost = [lost EXCEPT ![p] = lost[p]]
BY DEF ToolInv, Shapes

LEMMA SameDisk ==
  ASSUME ToolInv, disk' = disk
  PROVE  DOMAIN disk' = Files /\ \A f \in Files : IsContent(disk'[f])
BY DEF ToolInv, Shapes

(* A step that ends the process and leaves the disk as it is.              *)
LEMMA ExitInv ==
  ASSUME ToolInv, NEW p \in Running, NEW code, code # "running", End(p, code),
         UNCHANGED <<disk, lost>>
  PROVE  ToolInv'
<1>1. p \in Procs
  BY DEF Running
<1>2. lost[p] \in SUBSET Files /\ lost' = [lost EXCEPT ![p] = lost[p]]
  BY <1>1, SameLost
<1>3. DOMAIN disk' = Files /\ \A f \in Files : IsContent(disk'[f])
  BY SameDisk
<1>4. QED
  BY <1>2, <1>3, EndInv

LEMMA JudgeInv == ASSUME ToolInv, NEW p \in Procs, Judge(p) PROVE ToolInv'
<1>1. p \in Running /\ UNCHANGED <<disk, lost>>
  BY DEF Judge, Now
<1>2. \E code \in {Exit0, Exit1, Exit2} : End(p, code)
  BY DEF Judge
<1>3. QED
  BY <1>1, <1>2, ExitInv DEF Exit0, Exit1, Exit2

LEMMA KeygenInv == ASSUME ToolInv, NEW p \in Procs, Keygen(p) PROVE ToolInv'
<1>1. p \in Running /\ Head(todo[p]).op = "keygen" /\ UNCHANGED <<disk, lost>>
  BY DEF Keygen, Now
<1> SUFFICES ASSUME ~End(p, Exit1) PROVE ToolInv'
  BY <1>1, ExitInv DEF Exit1
<1>2. PICK key : Advance(p, [mem[p] EXCEPT !["pk"] = Whole(key), !["sk"] = Whole(key)])
  BY DEF Keygen, Fails
<1> DEFINE m == [mem[p] EXCEPT !["pk"] = Whole(key), !["sk"] = Whole(key)]
<1>3. /\ DOMAIN m = Files /\ \A f \in Files : IsContent(m[f])
      /\ m["pk"] = Whole(key) /\ m["sk"] = Whole(key) /\ m["phash"] = mem[p]["phash"]
  <2>1. DOMAIN mem[p] = Files /\ \A f \in Files : IsContent(mem[p][f])
    BY DEF ToolInv, Shapes
  <2>2. IsContent(Whole(key))
    BY Contents DEF IsContent
  <2>3. QED
    BY <2>1, <2>2 DEF Files
<1> HIDE DEF m
<1>4. ASSUME NEW k \in 1 .. Len(Command(cmd[p])), IsBefore(p, k),
             Head(todo[p]) = Command(cmd[p])[k], k < Len(Command(cmd[p]))
      PROVE  Facts(cmd[p], k + 1, m, alone[p], lost[p], before[p], disk')
  <2>1. cmd[p] \in Commands /\ StepPlaces(cmd[p], Command(cmd[p]), k)
    BY <1>1, StepOf, Scripts, StepAt
  <2>2. k = 1 /\ cmd[p] \in {"keygen", "generate"} /\ Command(cmd[p])[2].op # "write"
    BY <1>1, <1>4, <2>1 DEF StepPlaces
  <2>3. Facts(cmd[p], 1, mem[p], alone[p], lost[p], before[p], disk)
    BY <1>4, <2>2 DEF IsBefore
  <2>4. InMemory(cmd[p], 2, m)
    BY <1>3, <2>2, <2>3, Contents DEF InMemory, Facts
  <2>5. alone[p] => OnDisk(cmd[p], 2, m, lost[p], disk)
    BY <2>2 DEF OnDisk, SamePk, SamePayload
  <2>6. Facts(cmd[p], 2, m, alone[p], lost[p], before[p], disk)
    BY <2>2, <2>4, <2>5 DEF Facts
  <2>7. QED
    BY <1>1, <2>2, <2>6
<1>5. lost[p] \in SUBSET Files /\ lost' = [lost EXCEPT ![p] = lost[p]]
  BY <1>1, SameLost
<1>6. DOMAIN disk' = Files /\ \A f \in Files : IsContent(disk'[f])
  BY <1>1, SameDisk
<1>7. Advance(p, m)
  BY <1>2 DEF m
<1>8. QED
  BY <1>1, <1>3, <1>4, <1>5, <1>6, <1>7, AdvanceInv

LEMMA SignInv == ASSUME ToolInv, NEW p \in Procs, Sign(p) PROVE ToolInv'
<1> DEFINE m == Hold(p, "payload", Signed(mem[p]))
<1>1. p \in Running /\ Head(todo[p]).op = "sign" /\ UNCHANGED <<disk, lost>>
  BY DEF Sign, Now
<1> SUFFICES ASSUME ~End(p, Exit1) PROVE ToolInv'
  BY <1>1, ExitInv DEF Exit1
<1>2. Advance(p, m)
  BY DEF Sign, Fails, Signed
<1>3. /\ DOMAIN m = Files /\ \A f \in Files : IsContent(m[f])
      /\ m["payload"] = Signed(mem[p])
      /\ \A f \in Files : f # "payload" => m[f] = mem[p][f]
  <2>1. DOMAIN mem[p] = Files /\ \A f \in Files : IsContent(mem[p][f])
    BY DEF ToolInv, Shapes
  <2>2. IsContent(Signed(mem[p]))
    BY Contents DEF IsContent, Signed, SignedWith
  <2>3. QED
    BY <2>1, <2>2 DEF Files, Hold
<1> HIDE DEF m
<1>4. m["pk"] = mem[p]["pk"] /\ m["sk"] = mem[p]["sk"] /\ m["phash"] = mem[p]["phash"]
  BY <1>3 DEF Files
<1>5. m["payload"] = Signed(m)
  BY <1>3, <1>4 DEF Signed
<1>6. ASSUME NEW k \in 1 .. Len(Command(cmd[p])), IsBefore(p, k),
             Head(todo[p]) = Command(cmd[p])[k], k < Len(Command(cmd[p]))
      PROVE  Facts(cmd[p], k + 1, m, alone[p], lost[p], before[p], disk')
  <2>1. cmd[p] \in Commands /\ StepPlaces(cmd[p], Command(cmd[p]), k)
    BY <1>1, StepOf, Scripts, StepAt
  <2>2. /\ (cmd[p] = "generate" /\ k = 2) \/ (cmd[p] = "import" /\ k = 3)
        /\ Command(cmd[p])[k + 1].op # "write"
    BY <1>1, <1>6, <2>1 DEF StepPlaces
  <2>3. Facts(cmd[p], k, mem[p], alone[p], lost[p], before[p], disk)
    BY <1>6 DEF IsBefore
  <2>4. InMemory(cmd[p], k + 1, m)
    BY <1>4, <1>5, <2>2, <2>3 DEF InMemory, Facts
  <2>5. OnDisk(cmd[p], k + 1, m, lost[p], disk)
    BY <2>2 DEF OnDisk, SamePk, SamePayload
  <2>6. alone[p] /\ cmd[p] = "import" => Imported(k + 1, m, before[p], disk)
    BY <1>4, <2>2, <2>3 DEF Facts, Imported
  <2>7. QED
    BY <1>1, <2>4, <2>5, <2>6 DEF Facts
<1>7. lost[p] \in SUBSET Files /\ lost' = [lost EXCEPT ![p] = lost[p]]
  BY <1>1, SameLost
<1>8. DOMAIN disk' = Files /\ \A f \in Files : IsContent(disk'[f])
  BY <1>1, SameDisk
<1>9. QED
  BY <1>1, <1>2, <1>3, <1>6, <1>7, <1>8, AdvanceInv

LEMMA ReadInv == ASSUME ToolInv, NEW p \in Procs, Read(p) PROVE ToolInv'
<1> DEFINE f == Head(todo[p]).file
           m == Hold(p, f, disk[f])
<1>1. p \in Running /\ Head(todo[p]).op = "read" /\ UNCHANGED <<disk, lost>>
  BY DEF Read, Now
<1>2. CASE End(p, Exit1)
  BY <1>1, <1>2, ExitInv DEF Exit1
<1>3. CASE Advance(p, m)
  <2>1. PICK i \in 1 .. Len(Command(cmd[p])) :
          StepPlaces(cmd[p], Command(cmd[p]), i) /\ Head(todo[p]) = Command(cmd[p])[i]
    BY <1>1, StepOf
  <2>2. f \in Files
    BY <1>1, <2>1 DEF StepPlaces, Files
  <2>3. /\ DOMAIN m = Files /\ \A g \in Files : IsContent(m[g])
        /\ m[f] = disk[f] /\ \A g \in Files : g # f => m[g] = mem[p][g]
    <3>1. DOMAIN mem[p] = Files /\ \A g \in Files : IsContent(mem[p][g])
      BY DEF ToolInv, Shapes
    <3>2. IsContent(disk[f])
      BY <2>2 DEF ToolInv
    <3>3. QED
      BY <2>2, <3>1, <3>2 DEF Hold
  <2> HIDE DEF m
  <2>4. ASSUME NEW k \in 1 .. Len(Command(cmd[p])), IsBefore(p, k),
               Head(todo[p]) = Command(cmd[p])[k], k < Len(Command(cmd[p]))
        PROVE  Facts(cmd[p], k + 1, m, alone[p], lost[p], before[p], disk')
    <3> DEFINE c == cmd[p]
               Held(g) == m[g] = mem[p][g]
    <3>1. c \in Commands /\ StepPlaces(c, Command(c), k)
      BY <1>1, StepOf, Scripts, StepAt
    <3>2. /\ \/ c = "import" /\ k = 1 /\ f = "sk"
             \/ c = "import" /\ k = 2 /\ f = "pk"
             \/ c = "verify" /\ k = 1 /\ f = "payload"
             \/ c = "verify" /\ k = 2 /\ f = "pk"
             \/ c = "verify" /\ k = 3 /\ f = "phash"
          /\ Command(c)[k + 1].op # "write"
      BY <1>1, <2>4, <3>1 DEF StepPlaces
    <3>3. Facts(c, k, mem[p], alone[p], lost[p], before[p], disk)
      BY <2>4 DEF IsBefore
    <3>4. /\ f # "sk" => m["sk"] = mem[p]["sk"]
          /\ f # "pk" => m["pk"] = mem[p]["pk"]
          /\ f # "payload" => m["payload"] = mem[p]["payload"]
          /\ f # "phash" => m["phash"] = mem[p]["phash"]
      BY <2>3 DEF Files
    <3> HIDE DEF f
    <3>5. InMemory(c, k + 1, m)
      BY <3>2, <3>3, <3>4 DEF InMemory, Facts
    <3>6. alone[p] => OnDisk(c, k + 1, m, lost[p], disk)
      BY <2>3, <3>2, <3>3, <3>4 DEF OnDisk, Facts, SamePk, SamePayload, Left
    <3>7. alone[p] /\ c = "import" => Imported(k + 1, m, before[p], disk)
      BY <2>3, <3>2, <3>3, <3>4 DEF Facts, Imported
    <3>8. QED
      BY <1>1, <3>5, <3>6, <3>7 DEF Facts
  <2>5. lost[p] \in SUBSET Files /\ lost' = [lost EXCEPT ![p] = lost[p]]
    BY <1>1, SameLost
  <2>6. DOMAIN disk' = Files /\ \A g \in Files : IsContent(disk'[g])
    BY <1>1, SameDisk
  <2>7. QED
    BY <1>1, <1>3, <2>3, <2>4, <2>5, <2>6, AdvanceInv
<1>4. QED
  BY <1>2, <1>3 DEF Read

(* One file gets new contents.                                             *)
LEMMA DiskChange ==
  ASSUME ToolInv, NEW f \in Files, NEW v, IsContent(v), disk' = [disk EXCEPT ![f] = v]
  PROVE  /\ DOMAIN disk' = Files /\ \A g \in Files : IsContent(disk'[g])
         /\ disk'[f] = v
         /\ f # "sk" => disk'["sk"] = disk["sk"]
         /\ f # "pk" => disk'["pk"] = disk["pk"]
         /\ f # "payload" => disk'["payload"] = disk["payload"]
         /\ f # "phash" => disk'["phash"] = disk["phash"]
<1>1. DOMAIN disk = Files /\ \A g \in Files : IsContent(disk[g])
  BY DEF ToolInv, Shapes
<1>2. \A g \in Files : disk'[g] = IF g = f THEN v ELSE disk[g]
  BY <1>1
<1>3. "sk" \in Files /\ "pk" \in Files /\ "payload" \in Files /\ "phash" \in Files
  BY DEF Files
<1>4. QED
  BY <1>1, <1>2, <1>3

LEMMA MemoryShape ==
  ASSUME ToolInv, NEW p \in Procs
  PROVE  DOMAIN mem[p] = Files /\ \A f \in Files : IsContent(mem[p][f])
BY DEF ToolInv, Shapes

LEMMA OpenInv == ASSUME ToolInv, NEW p \in Procs, Open(p) PROVE ToolInv'
<1> DEFINE f == Head(todo[p]).file
           c == cmd[p]
<1>1. p \in Running /\ Head(todo[p]).op = "open" /\ lost' = lost
  BY DEF Open, Now
<1>2. CASE End(p, Exit1) /\ disk' = disk
  BY <1>1, <1>2, ExitInv DEF Exit1
<1>3. CASE disk' = [disk EXCEPT ![f] = Empty] /\ Advance(p, mem[p])
  <2>1. PICK i \in 1 .. Len(Command(c)) :
          StepPlaces(c, Command(c), i) /\ Head(todo[p]) = Command(c)[i]
    BY <1>1, StepOf
  <2>2. f \in Files
    BY <1>1, <2>1 DEF StepPlaces, Files
  <2>3. IsContent(Empty)
    BY DEF IsContent
  <2>4. /\ DOMAIN disk' = Files /\ \A g \in Files : IsContent(disk'[g])
        /\ disk'[f] = Empty
        /\ f # "sk" => disk'["sk"] = disk["sk"]
        /\ f # "pk" => disk'["pk"] = disk["pk"]
        /\ f # "payload" => disk'["payload"] = disk["payload"]
        /\ f # "phash" => disk'["phash"] = disk["phash"]
    BY <1>3, <2>2, <2>3, DiskChange
  <2>5. ASSUME NEW k \in 1 .. Len(Command(c)), IsBefore(p, k),
               Head(todo[p]) = Command(c)[k], k < Len(Command(c))
        PROVE  Facts(c, k + 1, mem[p], alone[p], lost[p], before[p], disk')
    <3>1. c \in Commands /\ StepPlaces(c, Command(c), k)
      BY <1>1, StepOf, Scripts, StepAt
    <3>2. /\ Command(c)[k + 1].op = "write" /\ Command(c)[k + 1].file = f
          /\ \/ c = "keygen" /\ k = 2 /\ f = "pk"
             \/ c = "keygen" /\ k = 4 /\ f = "sk"
             \/ c = "generate" /\ k = 3 /\ f = "payload"
             \/ c = "generate" /\ k = 5 /\ f = "pk"
             \/ c = "generate" /\ k = 7 /\ f = "phash"
             \/ c = "import" /\ k = 4 /\ f = "payload"
             \/ c = "import" /\ k = 6 /\ f = "pk"
             \/ c = "import" /\ k = 8 /\ f = "phash"
      BY <1>1, <2>5, <3>1 DEF StepPlaces
    <3>3. Facts(c, k, mem[p], alone[p], lost[p], before[p], disk)
      BY <2>5 DEF IsBefore
    <3> HIDE DEF f, c
    <3>4. InMemory(c, k + 1, mem[p])
      BY <3>2, <3>3 DEF InMemory, Facts
    <3>5. alone[p] => OnDisk(c, k + 1, mem[p], lost[p], disk')
      BY <2>4, <3>2, <3>3 DEF OnDisk, Facts, SamePk, SamePayload, Left
    <3>6. alone[p] /\ c = "import" => Imported(k + 1, mem[p], before[p], disk')
      BY <2>4, <3>2, <3>3 DEF Facts, Imported
    <3>7. QED
      BY <3>4, <3>5, <3>6 DEF Facts
  <2>6. lost[p] \in SUBSET Files /\ lost' = [lost EXCEPT ![p] = lost[p]]
    BY <1>1, SameLost
  <2>7. DOMAIN mem[p] = Files /\ \A g \in Files : IsContent(mem[p][g])
    BY MemoryShape
  <2>8. DOMAIN disk' = Files /\ \A g \in Files : IsContent(disk'[g])
    BY <2>4
  <2>9. c # "verify"
    BY <1>1, <2>1 DEF StepPlaces
  <2>10. QED
    BY <1>1, <1>3, <2>5, <2>6, <2>7, <2>8, <2>9, AdvanceInv
<1>4. QED
  BY <1>2, <1>3 DEF Open

(* What fwrite leaves of a file that was truncated for this process alone. *)
LEMMA WriteInv == ASSUME ToolInv, NEW p \in Procs, Write(p) PROVE ToolInv'
<1> DEFINE f == Head(todo[p]).file
           c == cmd[p]
<1>1. p \in Running /\ Head(todo[p]).op = "write"
  BY DEF Write, Now
<1>2. PICK i \in 1 .. Len(Command(c)) :
        StepPlaces(c, Command(c), i) /\ Head(todo[p]) = Command(c)[i]
  BY <1>1, StepOf
<1>3. f \in Files /\ c # "verify"
  BY <1>1, <1>2 DEF StepPlaces, Files
<1>4. IsContent(Empty) /\ IsContent(Torn) /\ IsContent(mem[p][f])
  BY <1>3 DEF IsContent, ToolInv
<1>5. DOMAIN mem[p] = Files /\ \A g \in Files : IsContent(mem[p][g])
  BY MemoryShape
<1>6. ASSUME NEW k \in 1 .. Len(Command(c)), IsBefore(p, k),
             Head(todo[p]) = Command(c)[k]
      PROVE  /\ Facts(c, k, mem[p], alone[p], lost[p], before[p], disk)
             /\ alone[p] => disk[f] = Empty
             /\ k < Len(Command(c)) =>
                  /\ Command(c)[k + 1].op # "write"
                  /\ \/ c = "keygen" /\ k = 3 /\ f = "pk"
                     \/ c = "generate" /\ k = 4 /\ f = "payload"
                     \/ c = "generate" /\ k = 6 /\ f = "pk"
                     \/ c = "import" /\ k = 5 /\ f = "payload"
                     \/ c = "import" /\ k = 7 /\ f = "pk"
  <2>1. c \in Commands /\ StepPlaces(c, Command(c), k)
    BY <1>1, StepOf, Scripts, StepAt
  <2>2. Facts(c, k, mem[p], alone[p], lost[p], before[p], disk)
    BY <1>6 DEF IsBefore
  <2>3. alone[p] => disk[f] = Empty
    BY <1>1, <1>6, <2>2 DEF Facts, OnDisk
  <2>4. ASSUME k < Len(Command(c))
        PROVE  /\ Command(c)[k + 1].op # "write"
               /\ \/ c = "keygen" /\ k = 3 /\ f = "pk"
                  \/ c = "generate" /\ k = 4 /\ f = "payload"
                  \/ c = "generate" /\ k = 6 /\ f = "pk"
                  \/ c = "import" /\ k = 5 /\ f = "payload"
                  \/ c = "import" /\ k = 7 /\ f = "pk"
    <3>1. Command(c)[k].op = "write" /\ Command(c)[k].file = f
      BY <1>1, <1>6
    <3>2. Len(Command(c)) \in Nat /\ ~(k = Len(Command(c)))
      BY <2>1, <2>4, SomeSteps
    <3>3. Command(c)[k + 1].op # "write"
      BY <2>1, <2>4, <3>1 DEF StepPlaces
    <3> HIDE DEF c, f
    <3>4. QED
      BY <2>1, <3>1, <3>2, <3>3 DEF StepPlaces
  <2>5. QED
    BY <2>2, <2>3, <2>4
<1>7. CASE /\ \/ disk' = [disk EXCEPT ![f] = mem[p][f]]
              \/ disk[f] \notin {Empty, mem[p][f]} /\ disk' = [disk EXCEPT ![f] = Torn]
           /\ Advance(p, mem[p])
           /\ lost' = lost
  <2>1. DOMAIN disk' = Files /\ \A g \in Files : IsContent(disk'[g])
    BY <1>3, <1>4, <1>7, DiskChange
  <2>2. ASSUME NEW k \in 1 .. Len(Command(c)), IsBefore(p, k),
               Head(todo[p]) = Command(c)[k], k < Len(Command(c))
        PROVE  Facts(c, k + 1, mem[p], alone[p], lost[p], before[p], disk')
    <3>1. /\ Facts(c, k, mem[p], alone[p], lost[p], before[p], disk)
          /\ alone[p] => disk[f] = Empty
          /\ Command(c)[k + 1].op # "write"
          /\ \/ c = "keygen" /\ k = 3 /\ f = "pk"
             \/ c = "generate" /\ k = 4 /\ f = "payload"
             \/ c = "generate" /\ k = 6 /\ f = "pk"
             \/ c = "import" /\ k = 5 /\ f = "payload"
             \/ c = "import" /\ k = 7 /\ f = "pk"
      BY <1>6, <2>2
    <3>2. InMemory(c, k + 1, mem[p])
      BY <3>1 DEF InMemory, Facts
    <3>3. ASSUME alone[p]
          PROVE  /\ OnDisk(c, k + 1, mem[p], lost[p], disk')
                 /\ c = "import" => Imported(k + 1, mem[p], before[p], disk')
      <4>1. disk' = [disk EXCEPT ![f] = mem[p][f]]
        BY <1>7, <3>1, <3>3
      <4>2. /\ disk'[f] = mem[p][f]
            /\ f # "sk" => disk'["sk"] = disk["sk"]
            /\ f # "pk" => disk'["pk"] = disk["pk"]
            /\ f # "payload" => disk'["payload"] = disk["payload"]
            /\ f # "phash" => disk'["phash"] = disk["phash"]
        BY <1>3, <1>4, <4>1, DiskChange
      <4> HIDE DEF f, c
      <4>3. OnDisk(c, k + 1, mem[p], lost[p], disk')
        BY <3>1, <3>3, <4>2 DEF OnDisk, Facts, SamePk, SamePayload, Left
      <4>4. c = "import" => Imported(k + 1, mem[p], before[p], disk')
        BY <3>1, <3>3, <4>2 DEF Facts, Imported
      <4>5. QED
        BY <4>3, <4>4
    <3>4. QED
      BY <3>2, <3>3 DEF Facts
  <2>3. lost[p] \in SUBSET Files /\ lost' = [lost EXCEPT ![p] = lost[p]]
    BY <1>7, SameLost
  <2>4. QED
    BY <1>1, <1>3, <1>5, <1>7, <2>1, <2>2, <2>3, AdvanceInv
<1>8. CASE /\ disk' = disk \/ disk' = [disk EXCEPT ![f] = Torn]
           /\ End(p, Exit1)
           /\ lost' = lost
  <2>1. DOMAIN disk' = Files /\ \A g \in Files : IsContent(disk'[g])
    BY <1>3, <1>4, <1>8, DiskChange, SameDisk
  <2>2. lost[p] \in SUBSET Files /\ lost' = [lost EXCEPT ![p] = lost[p]]
    BY <1>8, SameLost
  <2>3. QED
    BY <1>1, <1>3, <1>8, <2>1, <2>2, EndInv DEF Exit1
<1>9. CASE /\ disk' = disk \/ disk' = [disk EXCEPT ![f] = Torn]
           /\ lost' = [lost EXCEPT ![p] = lost[p] \cup {f}]
           /\ Advance(p, mem[p])
  <2>1. DOMAIN disk' = Files /\ \A g \in Files : IsContent(disk'[g])
    BY <1>3, <1>4, <1>9, DiskChange, SameDisk
  <2>2. ASSUME NEW k \in 1 .. Len(Command(c)), IsBefore(p, k),
               Head(todo[p]) = Command(c)[k], k < Len(Command(c))
        PROVE  Facts(c, k + 1, mem[p], alone[p], lost[p] \cup {f}, before[p], disk')
    <3>1. /\ Facts(c, k, mem[p], alone[p], lost[p], before[p], disk)
          /\ alone[p] => disk[f] = Empty
          /\ Command(c)[k + 1].op # "write"
          /\ \/ c = "keygen" /\ k = 3 /\ f = "pk"
             \/ c = "generate" /\ k = 4 /\ f = "payload"
             \/ c = "generate" /\ k = 6 /\ f = "pk"
             \/ c = "import" /\ k = 5 /\ f = "payload"
             \/ c = "import" /\ k = 7 /\ f = "pk"
      BY <1>6, <2>2
    <3>2. /\ f # "sk" => disk'["sk"] = disk["sk"]
          /\ f # "pk" => disk'["pk"] = disk["pk"]
          /\ f # "payload" => disk'["payload"] = disk["payload"]
          /\ disk'[f] \in {disk[f], Torn}
      BY <1>3, <1>4, <1>9, DiskChange
    <3> DEFINE old == lost[p]
    <3> HIDE DEF f, c, old
    <3>3. InMemory(c, k + 1, mem[p])
      BY <3>1 DEF InMemory, Facts
    <3>4. ASSUME alone[p] PROVE OnDisk(c, k + 1, mem[p], old \cup {f}, disk')
      <4>1. OnDisk(c, k, mem[p], old, disk)
        BY <3>1, <3>4 DEF Facts, old
      <4>2. disk'[f] \in {Empty, Torn}
        BY <3>1, <3>2, <3>4
      <4>3. QED
        BY <3>1, <3>2, <4>1, <4>2 DEF OnDisk, SamePk, SamePayload, Left
    <3>5. alone[p] /\ c = "import" => Imported(k + 1, mem[p], before[p], disk')
      BY <3>1, <3>2 DEF Facts, Imported
    <3>6. QED
      BY <3>3, <3>4, <3>5 DEF Facts, old
  <2>3. lost[p] \cup {f} \in SUBSET Files
    <3>1. lost[p] \in SUBSET Files
      BY SameLost
    <3> HIDE DEF f
    <3>2. QED
      BY <1>3, <3>1
  <2> DEFINE lo == lost[p] \cup {f}
  <2>4. lost' = [lost EXCEPT ![p] = lo] /\ Advance(p, mem[p]) /\ c # "verify"
    BY <1>3, <1>9
  <2>5. lo \in SUBSET Files
    BY <2>3
  <2>6. \A k \in 1 .. Len(Command(c)) :
          IsBefore(p, k) /\ Head(todo[p]) = Command(c)[k] /\ k < Len(Command(c))
          => Facts(c, k + 1, mem[p], alone[p], lo, before[p], disk')
    BY <2>2
  <2> HIDE DEF lo, f
  <2>7. QED
    BY <1>1, <1>5, <2>1, <2>4, <2>5, <2>6, AdvanceInv
<1>10. QED
  BY <1>7, <1>8, <1>9 DEF Write

LEMMA StepToolInv == ToolInv /\ [Next]_vars => ToolInv'
<1> SUFFICES ASSUME ToolInv, [Next]_vars PROVE ToolInv'
  OBVIOUS
<1>1. ASSUME NEW p \in Procs, NEW c \in Commands, NEW phash \in PHashes, Start(p, c, phash)
      PROVE  ToolInv'
  BY <1>1, StartInv
<1>2. ASSUME NEW p \in Procs, Keygen(p) \/ Sign(p) \/ Read(p) PROVE ToolInv'
  BY <1>2, KeygenInv, SignInv, ReadInv
<1>3. ASSUME NEW p \in Procs, Open(p) \/ Write(p) \/ Judge(p) PROVE ToolInv'
  BY <1>3, OpenInv, WriteInv, JudgeInv
<1>4. ASSUME NEW p \in Procs, NoInit(p) \/ Kill(p) PROVE ToolInv'
  <2>1. p \in Running /\ UNCHANGED <<disk, lost>>
    BY <1>4 DEF NoInit, Kill
  <2>2. End(p, Exit1) \/ End(p, "killed")
    BY <1>4 DEF NoInit, Kill
  <2>3. QED
    BY <2>1, <2>2, ExitInv DEF Exit1
<1>5. CASE UNCHANGED vars
  <2>1. UNCHANGED <<disk, todo, cmd, mem, exit, alone, lost, before>>
    BY <1>5 DEF vars
  <2>2. Running' = Running
    BY <2>1 DEF Running
  <2>3. \A p \in Procs : InProgress(p) => InProgress(p)'
    BY <2>1 DEF InProgress, IsBefore
  <2>4. Shapes'
    BY <2>1 DEF Shapes, ToolInv
  <2>5. \A p \in Running' : InProgress(p)'
    BY <2>2, <2>3 DEF ToolInv, Running
  <2>6. \A p \in Procs : alone'[p] => Undisturbed(p)'
    BY <2>1, <2>2 DEF ToolInv, Undisturbed
  <2>7. QED
    BY <2>1, <2>2, <2>4, <2>5, <2>6 DEF ToolInv
<1>6. QED
  BY <1>1, <1>2, <1>3, <1>4, <1>5 DEF Next, Commands

LEMMA ToolInvariant == Spec => []ToolInv
BY InitToolInv, StepToolInv, PTL DEF Spec

-----------------------------------------------------------------------------
(* The step that ends a process is its own.                                *)

LEMMA Mover ==
  ASSUME ToolInv, [Next]_vars, NEW p \in Running, exit'[p] # "running"
  PROVE  \/ Keygen(p) \/ Sign(p) \/ Read(p) \/ Open(p) \/ Write(p) \/ Judge(p)
         \/ NoInit(p) \/ Kill(p)
<1> DEFINE Moves(q) == \/ Keygen(q) \/ Sign(q) \/ Read(q) \/ Open(q) \/ Write(q) \/ Judge(q)
                       \/ NoInit(q) \/ Kill(q)
<1>1. p \in Procs /\ exit[p] = "running" /\ DOMAIN exit = Procs
  BY DEF Running, ToolInv, Shapes
<1>2. ASSUME NEW q \in Procs, NEW c, NEW phash, Start(q, c, phash) PROVE FALSE
  <2>1. q # p /\ exit' = [exit EXCEPT ![q] = "running"]
    BY <1>2 DEF Start
  <2>2. QED
    BY <1>1, <2>1
<1>3. ASSUME NEW q \in Procs, Moves(q) PROVE q = p
  <2>1. exit' = exit \/ \E code : exit' = [exit EXCEPT ![q] = code]
    BY <1>3 DEF Keygen, Sign, Read, Open, Write, Judge, NoInit, Kill, Advance, Fails, End
  <2>2. QED
    BY <1>1, <2>1
<1>4. ~UNCHANGED vars
  BY <1>1 DEF vars
<1>5. \E q \in Procs : (\E c, phash : Start(q, c, phash)) \/ Moves(q)
  BY <1>4 DEF Next
<1>6. QED
  BY <1>2, <1>3, <1>5

(* The last write of p, to file f.                                         *)
Closes(p, f) ==
  /\ Left(disk', f, mem[p][f], lost'[p])
  /\ lost[p] \subseteq lost'[p]
  /\ f # "sk" => disk'["sk"] = disk["sk"]
  /\ f # "pk" => disk'["pk"] = disk["pk"]
  /\ f # "payload" => disk'["payload"] = disk["payload"]

(* A command that writes files and that no other writer disturbs leaves on *)
(* the disk what it has in memory, but for the files of which it lost a    *)
(* flush.                                                                  *)
LEMMA Finished ==
  ASSUME ToolInv, [Next]_vars, NEW p \in Procs, Succeeds(p), cmd[p] # "verify", alone[p]
  PROVE  \E k \in 1 .. Len(Command(cmd[p])) :
           /\ Facts(cmd[p], k, mem[p], TRUE, lost[p], before[p], disk)
           /\ \/ cmd[p] = "keygen" /\ k = 5 /\ Closes(p, "sk")
              \/ cmd[p] = "generate" /\ k = 8 /\ Closes(p, "phash")
              \/ cmd[p] = "import" /\ k = 9 /\ Closes(p, "phash")
<1> DEFINE f == Head(todo[p]).file
           c == cmd[p]
<1>1. p \in Running /\ exit'[p] = Exit0 /\ exit'[p] # "running"
  BY DEF Succeeds, Running, Exit0
<1>2. DOMAIN exit = Procs /\ DOMAIN lost = Procs /\ alone[p] = TRUE
  BY DEF ToolInv, Shapes
<1>3. PICK k \in 1 .. Len(Command(c)) :
        /\ IsBefore(p, k) /\ StepPlaces(c, Command(c), k)
        /\ Head(todo[p]) = Command(c)[k]
        /\ Len(todo[p]) = Len(Command(c)) - k + 1
  BY <1>1, StepOf
<1>4. c \in Commands /\ Len(Command(c)) \in Nat
  BY <1>1, StepOf, SomeSteps
<1>5. \A code : End(p, code) => code = Exit0
  BY <1>1, <1>2 DEF End
<1>6. \A m : Advance(p, m) => k = Len(Command(c))
  <2> SUFFICES ASSUME NEW m, Advance(p, m) PROVE k = Len(Command(c))
    OBVIOUS
  <2>1. Len(todo[p]) = 1
    <3>1. CASE exit' = exit
      BY <1>1, <3>1 DEF Running
    <3>2. QED
      BY <3>1 DEF Advance
  <2> DEFINE n == Len(Command(c))
             l == Len(todo[p])
  <2>2. n \in Nat /\ k \in 1 .. n /\ l = n - k + 1 /\ l = 1
    BY <1>3, <1>4, <2>1
  <2> HIDE DEF n, l
  <2>3. k = n
    BY <2>2
  <2>4. QED
    BY <2>3 DEF n
<1>7. c # "verify" /\ Command(c)[k].op # "judge"
  BY <1>3 DEF StepPlaces
<1>8. k = Len(Command(c)) => Command(c)[k].op = "write"
  <2> DEFINE n == Len(Command(c))
  <2>1. n \in Nat
    BY <1>4
  <2>2. Command(c)[k].op \notin {"write", "judge"} => k < n
    BY <1>3 DEF StepPlaces
  <2> HIDE DEF n
  <2>3. k = n => Command(c)[k].op = "write"
    BY <1>7, <2>1, <2>2
  <2>4. QED
    BY <2>3 DEF n
<1>9. Write(p)
  <2>1. ~End(p, Exit1) /\ ~End(p, "killed")
    BY <1>5 DEF Exit0, Exit1
  <2>2. (\E m : Advance(p, m)) => Command(c)[k].op = "write"
    BY <1>6, <1>8
  <2>3. ~NoInit(p) /\ ~Kill(p)
    BY <2>1 DEF NoInit, Kill
  <2>4. ~Judge(p)
    BY <1>3, <1>7 DEF Judge, Now
  <2>5. ~Keygen(p)
    BY <1>3, <2>1, <2>2 DEF Keygen, Fails, Now
  <2>6. ~Sign(p)
    BY <1>3, <2>1, <2>2 DEF Sign, Fails, Now
  <2>7. ~Read(p)
    BY <1>3, <2>1, <2>2 DEF Read, Now
  <2>8. ~Open(p)
    BY <1>3, <2>1, <2>2 DEF Open, Now
  <2>9. QED
    BY <1>1, <2>3, <2>4, <2>5, <2>6, <2>7, <2>8, Mover
<1>10. /\ Advance(p, mem[p])
       /\ \/ /\ lost' = lost
             /\ \/ disk' = [disk EXCEPT ![f] = mem[p][f]]
                \/ disk[f] \notin {Empty, mem[p][f]}
          \/ /\ lost' = [lost EXCEPT ![p] = lost[p] \cup {f}]
             /\ disk' = disk \/ disk' = [disk EXCEPT ![f] = Torn]
  <2>1. ~End(p, Exit1)
    BY <1>5 DEF Exit0, Exit1
  <2>2. QED
    BY <1>9, <2>1 DEF Write
<1>11. Command(c)[k].op = "write" /\ k = Len(Command(c))
  BY <1>6, <1>8, <1>10
<1>12. Facts(c, k, mem[p], TRUE, lost[p], before[p], disk) /\ f \in Files
  <2>1. f \in Files
    BY <1>3, <1>11 DEF StepPlaces, Files
  <2>2. QED
    BY <1>2, <1>3, <2>1 DEF IsBefore
<1>13. Closes(p, f)
  <2>1. disk[f] = Empty
    BY <1>3, <1>11, <1>12 DEF Facts, OnDisk
  <2>2. IsContent(mem[p][f]) /\ IsContent(Torn)
    BY <1>12, MemoryShape DEF IsContent
  <2>3. CASE lost' = lost /\ disk' = [disk EXCEPT ![f] = mem[p][f]]
    BY <1>12, <2>2, <2>3, DiskChange DEF Closes, Left
  <2>4. CASE lost' = [lost EXCEPT ![p] = lost[p] \cup {f}] /\ disk' = disk
    BY <1>2, <2>1, <2>4 DEF Closes, Left
  <2>5. CASE lost' = [lost EXCEPT ![p] = lost[p] \cup {f}] /\ disk' = [disk EXCEPT ![f] = Torn]
    <3>1. lost'[p] = lost[p] \cup {f}
      BY <1>2, <2>5
    <3>2. QED
      BY <1>12, <2>2, <2>5, <3>1, DiskChange DEF Closes, Left
  <2>6. QED
    BY <1>10, <2>1, <2>3, <2>4, <2>5
<1>14. \/ c = "keygen" /\ k = 5 /\ f = "sk"
       \/ c = "generate" /\ k = 8 /\ f = "phash"
       \/ c = "import" /\ k = 9 /\ f = "phash"
  <2> DEFINE n == Len(Command(c))
             file == Command(c)[k].file
  <2>1. n \in Nat /\ k = n /\ ~(k < n)
    BY <1>4, <1>11
  <2>2. Command(c)[k].op = "write" =>
          \/ c = "keygen" /\ k = 3 /\ file = "pk" /\ k < n
          \/ c = "keygen" /\ k = 5 /\ file = "sk" /\ k = n
          \/ c = "generate" /\ k = 4 /\ file = "payload" /\ k < n
          \/ c = "generate" /\ k = 6 /\ file = "pk" /\ k < n
          \/ c = "generate" /\ k = 8 /\ file = "phash" /\ k = n
          \/ c = "import" /\ k = 5 /\ file = "payload" /\ k < n
          \/ c = "import" /\ k = 7 /\ file = "pk" /\ k < n
          \/ c = "import" /\ k = 9 /\ file = "phash" /\ k = n
    BY <1>3 DEF StepPlaces
  <2>3. f = file
    BY <1>3
  <2> HIDE DEF n, file, f
  <2>4. QED
    BY <1>11, <2>1, <2>2, <2>3
<1>15. QED
  BY <1>12, <1>13, <1>14

LEMMA ContentWhole ==
  ASSUME NEW v, IsContent(v)
  PROVE  /\ v[1] = "whole" <=> v \notin {Missing, Empty, Torn}
         /\ v[1] = "whole" => v = Whole(v[2])
BY Contents DEF IsContent

-----------------------------------------------------------------------------
(* The promises of the tool.                                               *)

LEMMA KeygenStep ==
  ASSUME ToolInv, [Next]_vars, NEW p \in Procs, Succeeds(p), cmd[p] = "keygen", alone[p]
  PROVE  LET k == mem[p]["pk"]
         IN  /\ k[1] = "whole"
             /\ Left(disk', "pk", k, lost'[p]) /\ Left(disk', "sk", k, lost'[p])
<1> DEFINE m == mem[p]
<1>1. PICK k \in 1 .. Len(Command(cmd[p])) :
        Facts("keygen", k, m, TRUE, lost[p], before[p], disk) /\ k = 5 /\ Closes(p, "sk")
  BY Finished
<1>2. /\ m["pk"] = m["sk"] /\ m["pk"] = Whole(m["pk"][2])
      /\ Left(disk, "pk", m["pk"], lost[p])
  BY <1>1 DEF Facts, InMemory, OnDisk, SamePk
<1>3. Left(disk', "pk", m["pk"], lost'[p]) /\ Left(disk', "sk", m["sk"], lost'[p])
  BY <1>1, <1>2 DEF Closes, Left
<1>4. m["pk"][1] = "whole"
  BY <1>2, Contents
<1>5. QED
  BY <1>2, <1>3, <1>4

(* Three files made with the whole key k, none of them lost, verify.       *)
LEMMA Delivered ==
  ASSUME NEW p \in Procs, NEW k, k[1] = "whole", IsContent(k), Delivers(p, k, k),
         mem[p]["phash"] = Whole(mem[p]["phash"][2]), lost'[p] = {}
  PROVE  Verifies(disk')
<1> DEFINE phash == mem[p]["phash"]
           payload == Whole(<< k[2], phash[2] >>)
<1>1. k # Torn /\ k = Whole(k[2])
  BY ContentWhole, Contents
<1>2. disk'["payload"] = payload /\ disk'["pk"] = k /\ disk'["phash"] = phash
  BY <1>1 DEF Delivers, Left, SignedWith
<1>3. payload[1] = "whole" /\ payload # Torn /\ payload[2] = << k[2], phash[2] >>
  BY Contents
<1>4. phash[1] = "whole" /\ phash # Torn
  BY Contents
<1> HIDE DEF payload, phash
<1>5. QED
  BY <1>1, <1>2, <1>3, <1>4 DEF Verifies, stego_verify

LEMMA GenerateStep ==
  ASSUME ToolInv, [Next]_vars, NEW p \in Procs, Succeeds(p), cmd[p] \in {"generate", "import"},
         alone[p]
  PROVE  /\ cmd[p] = "generate" => Delivers(p, mem[p]["pk"], mem[p]["pk"])
         /\ cmd[p] = "import" => /\ Delivers(p, before[p]["sk"], before[p]["pk"])
                                 /\ disk'["sk"] = before[p]["sk"]
         /\ lost'[p] = {} /\ (cmd[p] = "import" => Paired(before[p])) => Verifies(disk')
<1> DEFINE m == mem[p]
<1>1. PICK k \in 1 .. Len(Command(cmd[p])) :
        /\ Facts(cmd[p], k, m, TRUE, lost[p], before[p], disk)
        /\ \/ cmd[p] = "generate" /\ k = 8
           \/ cmd[p] = "import" /\ k = 9
        /\ Closes(p, "phash")
  BY Finished
<1>2. /\ m["phash"] = Whole(m["phash"][2]) /\ m["payload"] = Signed(m)
      /\ Left(disk, "pk", m["pk"], lost[p]) /\ Left(disk, "payload", m["payload"], lost[p])
  BY <1>1 DEF Facts, InMemory, OnDisk, SamePk, SamePayload
<1>3. Delivers(p, m["sk"], m["pk"])
  BY <1>1, <1>2 DEF Delivers, Closes, Left, Signed
<1>4. IsContent(m["pk"])
  BY MemoryShape DEF Files
<1>5. ASSUME cmd[p] = "generate"
      PROVE  m["sk"] = m["pk"] /\ m["pk"][1] = "whole"
  <2>1. m["pk"] = m["sk"] /\ m["pk"] = Whole(m["pk"][2])
    BY <1>1, <1>5 DEF Facts, InMemory
  <2>2. QED
    BY <2>1, Contents
<1>6. ASSUME cmd[p] = "import"
      PROVE  /\ m["sk"] = before[p]["sk"] /\ m["pk"] = before[p]["pk"]
             /\ disk'["sk"] = before[p]["sk"]
  BY <1>1, <1>6 DEF Facts, Imported, Closes
<1>7. ASSUME lost'[p] = {}, cmd[p] = "import" => Paired(before[p])
      PROVE  Verifies(disk')
  <2>1. m["sk"] = m["pk"] /\ m["pk"][1] = "whole"
    BY <1>5, <1>6, <1>7 DEF Paired
  <2>2. QED
    BY <1>2, <1>3, <1>4, <1>7, <2>1, Delivered
<1>8. QED
  BY <1>3, <1>5, <1>6, <1>7

LEMMA VerifyStep ==
  ASSUME ToolInv, [Next]_vars, NEW p \in Procs, Now(p, "judge"),
         exit'[p] \in {Exit0, Exit1, Exit2}
  PROVE  /\ alone[p] => (exit'[p] = Exit0 <=> Verifies(disk))
         /\ exit'[p] = Exit0 => mem[p]["payload"] = Whole(<<mem[p]["pk"][2], mem[p]["phash"][2]>>)
<1> DEFINE payload == mem[p]["payload"]
           pk == mem[p]["pk"]
           phash == mem[p]["phash"]
           c == cmd[p]
<1>1. p \in Running /\ Head(todo[p]).op = "judge" /\ exit'[p] # "running"
  BY DEF Now, Exit0, Exit1, Exit2
<1>2. PICK k \in 1 .. Len(Command(c)) :
        /\ IsBefore(p, k) /\ StepPlaces(c, Command(c), k)
        /\ Head(todo[p]) = Command(c)[k]
        /\ Len(todo[p]) = Len(Command(c)) - k + 1
  BY <1>1, StepOf
<1>3. c = "verify" /\ k = 4
  BY <1>1, <1>2 DEF StepPlaces
<1>4. DOMAIN exit = Procs
  BY DEF ToolInv, Shapes
<1>5. Judge(p)
  <2>1. ~Kill(p)
    BY <1>4 DEF Kill, End, Exit0, Exit1, Exit2
  <2>2. ~NoInit(p)
    <3>1. Len(Command(c)) \in Nat
      BY <1>1, StepOf, SomeSteps
    <3> DEFINE n == Len(Command(c))
               l == Len(todo[p])
    <3>2. n \in Nat /\ l = n - k + 1
      BY <1>2, <3>1
    <3> HIDE DEF n, l
    <3>3. l # n
      BY <1>3, <3>2
    <3>4. QED
      BY <3>3 DEF n, l, NoInit
  <2>3. ~Keygen(p) /\ ~Sign(p) /\ ~Read(p) /\ ~Open(p) /\ ~Write(p)
    BY <1>1 DEF Keygen, Sign, Read, Open, Write, Now
  <2>4. QED
    BY <1>1, <2>1, <2>2, <2>3, Mover
<1>6. /\ IsContent(payload) /\ IsContent(pk) /\ IsContent(phash)
  BY MemoryShape DEF Files
<1>7. exit'[p] = Exit0 <=>
        /\ ~Unreadable(payload) /\ ~Unreadable(pk) /\ ~Unreadable(phash)
        /\ stego_verify(payload, pk, phash)
  BY <1>4, <1>5 DEF Judge, End, Exit0, Exit1, Exit2
<1>8. exit'[p] = Exit0 <=>
        /\ payload[1] = "whole" /\ pk[1] = "whole" /\ phash[1] = "whole"
        /\ stego_verify(payload, pk, phash)
  BY <1>6, <1>7, ContentWhole DEF Unreadable, stego_verify
<1>9. ASSUME alone[p] PROVE exit'[p] = Exit0 <=> Verifies(disk)
  <2>1. disk["payload"] = payload /\ disk["pk"] = pk /\ disk["phash"] = phash
    BY <1>2, <1>3, <1>9 DEF IsBefore, Facts, OnDisk, SamePk, SamePayload, Left
  <2>2. QED
    BY <1>8, <2>1 DEF Verifies
<1>10. ASSUME exit'[p] = Exit0 PROVE payload = Whole(<< pk[2], phash[2] >>)
  <2>1. payload = Whole(payload[2]) /\ payload[2] = << pk[2], phash[2] >>
    BY <1>6, <1>8, <1>10, ContentWhole DEF stego_verify
  <2>2. QED
    BY <2>1
<1>11. QED
  BY <1>9, <1>10

(* cmd_keygen: whatever failed, was killed or was interleaved before, a    *)
(* keygen that exits with 0, with no other writer meanwhile, leaves one    *)
(* pair in the public and the secret key file, but for a file of which it  *)
(* lost a flush.                                                           *)
THEOREM KeygenRepaired == Spec => KeygenRepairs
<1>1. ToolInv /\ [Next]_vars =>
        [\A p \in Procs : Succeeds(p) /\ cmd[p] = "keygen" /\ alone[p] =>
           LET k == mem[p]["pk"]
           IN  /\ k[1] = "whole"
               /\ Left(disk', "pk", k, lost'[p]) /\ Left(disk', "sk", k, lost'[p])]_vars
  BY KeygenStep
<1>2. QED
  BY <1>1, ToolInvariant, PTL DEF Spec, KeygenRepairs

(* cmd_generate: under the same conditions generate leaves the payload,    *)
(* key and pHash it made, an import the payload made with the secret key   *)
(* it found, and both key files as they were; and if no flush was lost,    *)
(* the three files verify, after an import of two files of one pair.       *)
THEOREM GenerateRepaired == Spec => GenerateRepairs
<1>1. ToolInv /\ [Next]_vars =>
        [\A p \in Procs : Succeeds(p) /\ cmd[p] \in {"generate", "import"} /\ alone[p] =>
           /\ cmd[p] = "generate" => Delivers(p, mem[p]["pk"], mem[p]["pk"])
           /\ cmd[p] = "import" => /\ Delivers(p, before[p]["sk"], before[p]["pk"])
                                   /\ disk'["sk"] = before[p]["sk"]
           /\ lost'[p] = {} /\ (cmd[p] = "import" => Paired(before[p])) => Verifies(disk')]_vars
  BY GenerateStep
<1>2. QED
  BY <1>1, ToolInvariant, PTL DEF Spec, GenerateRepairs

(* cmd_verify: with no writer meanwhile it says VALID exactly of files     *)
(* that verify; and however many writers ran between its three reads, it   *)
(* says so only of a payload, a key and a pHash that belong together.      *)
THEOREM VerifyAnswered == Spec => VerifyAnswers
<1>1. ToolInv /\ [Next]_vars =>
        [\A p \in Procs : Now(p, "judge") /\ exit'[p] \in {Exit0, Exit1, Exit2} =>
           /\ alone[p] => (exit'[p] = Exit0 <=> Verifies(disk))
           /\ exit'[p] = Exit0 =>
                mem[p]["payload"] = Whole(<<mem[p]["pk"][2], mem[p]["phash"][2]>>)]_vars
  BY VerifyStep
<1>2. QED
  BY <1>1, ToolInvariant, PTL DEF Spec, VerifyAnswers
=============================================================================
