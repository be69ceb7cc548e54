----------------------------- MODULE OtaProofs -----------------------------
(***************************************************************************)
(* What the tool says of an upload is true, and it gives up asking only     *)
(* after enough faults, for every number of tries, chunks and faults.       *)
(*                                                                          *)
(* Two facts carry the first: the text OK enters the connection only when   *)
(* the image is installed, and the device never has more of the image,      *)
(* written and unread together, than the tool has sent, whatever            *)
(* connections were opened, closed and forgotten meanwhile. The second is   *)
(* a count, see Budget.                                                     *)
(***************************************************************************)
EXTENDS ArduinoOta, SequenceTheorems, TLAPS

Words == {"count", "O", "K", "error"}

Typed ==
    /\ replies \in Seq(Words) /\ installed \in BOOLEAN
    /\ progress \in Nat /\ data \in Nat /\ sent \in Nat

(* Nobody says OK of an image that is not installed.                        *)
OkIsTrue == ~installed => \A i \in 1 .. Len(replies) : replies[i] # "O"

(* The device has at most what was sent.                                    *)
Conserved ==
    /\ progress + data <= Pieces * sent
    /\ sent <= Chunks

Inv == Typed /\ OkIsTrue /\ Conserved /\ SuccessMeansInstalled

-----------------------------------------------------------------------------
LEMMA ChunksType == Chunks \in Nat
BY OtaAssumption

(* A read takes the front of the text; what says OK contains an O.          *)
LEMMA TakenIsAPrefix ==
  ASSUME replies \in Seq(Words), NEW n \in 0 .. Len(replies)
  PROVE  /\ SaysOk(n) => \E i \in 1 .. Len(replies) : replies[i] = "O"
         /\ Recv(n) => /\ replies' \in Seq(Words)
                       /\ \A i \in 1 .. Len(replies') :
                            \E j \in 1 .. Len(replies) : replies'[i] = replies[j]
<1>1. /\ Taken(n) \in Seq(Words) /\ Len(Taken(n)) = n
      /\ \A i \in 1 .. n : Taken(n)[i] = replies[i]
  BY SubSeqProperties DEF Taken
<1>2. SaysOk(n) => \E i \in 1 .. Len(replies) : replies[i] = "O"
  BY <1>1 DEF SaysOk
<1>3. ASSUME Recv(n)
      PROVE  /\ replies' \in Seq(Words)
             /\ \A i \in 1 .. Len(replies') :
                  \E j \in 1 .. Len(replies) : replies'[i] = replies[j]
  <2>1. replies' = SubSeq(replies, n + 1, Len(replies))
    BY <1>3 DEF Recv
  <2>2. /\ replies' \in Seq(Words) /\ Len(replies') = Len(replies) - n
        /\ \A i \in 1 .. Len(replies') : replies'[i] = replies[n + i]
    BY <2>1, SubSeqProperties
  <2> QED BY <2>2
<1> QED BY <1>2, <1>3

LEMMA FewerPieces ==
  \A p, d, q, e, s \in Nat : p + d <= 2 * s /\ q + e <= p + d => q + e <= 2 * s
OBVIOUS

LEMMA MorePieces ==
  \A p, d, s \in Nat :
    p + d <= 2 * s => /\ d + 2 \in Nat
                      /\ p + d <= 2 * (s + 1) /\ p + (d + 2) <= 2 * (s + 1)
OBVIOUS

-----------------------------------------------------------------------------
(* Most steps touch neither the text nor the image nor the counts.          *)
Quiet == UNCHANGED <<replies, installed, sent, outcome>>

LEMMA NothingGained ==
  ASSUME Inv, sent' = sent, progress' \in Nat, data' \in Nat,
         progress' + data' <= progress + data
  PROVE  Conserved'
<1>1. /\ sent \in Nat /\ progress \in Nat /\ data \in Nat
      /\ progress + data <= 2 * sent /\ sent <= Chunks
  BY DEF Inv, Typed, Conserved, Pieces
<1>2. progress' + data' <= 2 * sent
  BY <1>1, FewerPieces
<1> QED BY <1>1, <1>2 DEF Conserved, Pieces

LEMMA QuietSteps ==
  ASSUME Inv, Quiet, progress' \in Nat, data' \in Nat,
         progress' + data' <= progress + data
  PROVE  Inv'
<1>1. Typed' /\ OkIsTrue' /\ SuccessMeansInstalled'
  BY DEF Inv, Typed, OkIsTrue, SuccessMeansInstalled, Quiet
<1>2. Conserved'
  BY NothingGained DEF Quiet
<1> QED BY <1>1, <1>2 DEF Inv

LEMMA DeviceListens ==
  ASSUME Inv, Receives \/ Begin \/ Connect \/ LoopHead \/ Restart
  PROVE  Inv'
<1>1. Quiet /\ progress' \in Nat /\ data' \in Nat /\ progress' + data' <= progress + data
  BY DEF Inv, Typed, Receives, OnRx, Begin, Connect, LoopHead, Restart, Quiet, update, tcp,
         serving
<1> QED BY <1>1, QuietSteps

(* Reading moves pieces from unread to written.                             *)
LEMMA ReadKeepsInv ==
  ASSUME Inv, Read
  PROVE  Inv'
<1>1. PICK n \in 1 .. data :
        /\ data' = data - n
        /\ \/ progress' = progress + n /\ replies' = Append(replies, "count")
           \/ UNCHANGED <<progress, replies>>
  BY DEF Read
<1>2. UNCHANGED <<installed, sent, outcome>>
  BY DEF Read, serving
<1>3. replies' \in Seq(Words) /\ OkIsTrue'
  <2>1. CASE replies' = Append(replies, "count")
    BY <1>2, <2>1, AppendProperties DEF Inv, Typed, OkIsTrue, Words
  <2>2. CASE replies' = replies
    BY <1>2, <2>2 DEF Inv, Typed, OkIsTrue
  <2> QED BY <1>1, <2>1, <2>2
<1>4. progress' \in Nat /\ data' \in Nat /\ progress' + data' <= progress + data
  BY <1>1 DEF Inv, Typed
<1>5. Conserved'
  BY <1>2, <1>4, NothingGained
<1> QED
  BY <1>2, <1>3, <1>4, <1>5 DEF Inv, Typed, SuccessMeansInstalled

LEMMA WaitTimesOutKeepsInv ==
  ASSUME Inv, WaitTimesOut
  PROVE  Inv'
<1>1. UNCHANGED <<installed, sent, outcome, progress>>
  BY DEF WaitTimesOut, serving
<1>2. data' = data \/ data' = 0
  BY DEF WaitTimesOut
<1>3. replies' = replies \/ replies' = Append(replies, "count")
  BY DEF WaitTimesOut
<1>4. replies' \in Seq(Words) /\ OkIsTrue'
  <2>1. CASE replies' = Append(replies, "count")
    BY <1>1, <2>1, AppendProperties DEF Inv, Typed, OkIsTrue, Words
  <2>2. CASE replies' = replies
    BY <1>1, <2>2 DEF Inv, Typed, OkIsTrue
  <2> QED BY <1>3, <2>1, <2>2
<1>5. progress' \in Nat /\ data' \in Nat /\ progress' + data' <= progress + data
  BY <1>1, <1>2 DEF Inv, Typed
<1>6. Conserved'
  BY <1>1, <1>5, NothingGained
<1> QED
  BY <1>1, <1>4, <1>5, <1>6 DEF Inv, Typed, SuccessMeansInstalled

(* A complete image has as many pieces as all chunks: all were sent.        *)
LEMMA EndKeepsInv ==
  ASSUME Inv, End
  PROVE  Inv'
<1>1. UNCHANGED <<sent, outcome, progress>> /\ data' = 0
  BY DEF End, serving
<1>2. CASE /\ progress = ImageSize /\ installed' = TRUE
           /\ replies' = replies \o <<"O", "K">>
  <2>1. sent = Chunks
    BY <1>2, ChunksType DEF Inv, Typed, Conserved, Pieces, ImageSize
  <2>2. <<"O", "K">> \in Seq(Words)
    BY DEF Words
  <2>3. replies' \in Seq(Words)
    BY <1>2, <2>2, ConcatProperties DEF Inv, Typed
  <2> QED
    BY <1>1, <1>2, <2>1, <2>3, ChunksType
    DEF Inv, Typed, OkIsTrue, Conserved, SuccessMeansInstalled, Pieces
<1>3. CASE /\ installed' = installed
           /\ replies' = IF link = 0 THEN replies ELSE Append(replies, "error")
  <2>1. replies' \in Seq(Words) /\ OkIsTrue'
    <3>1. CASE replies' = Append(replies, "error")
      BY <1>3, <3>1, AppendProperties DEF Inv, Typed, OkIsTrue, Words
    <3>2. CASE replies' = replies
      BY <1>3, <3>2 DEF Inv, Typed, OkIsTrue
    <3> QED BY <1>3, <3>1, <3>2
  <2> QED BY <1>1, <1>3, <2>1, ChunksType DEF Inv, Typed, Conserved, SuccessMeansInstalled, Pieces
<1> QED BY <1>2, <1>3 DEF End

-----------------------------------------------------------------------------
(* The tool says nothing of success before it has read OK.                  *)
LEMMA OtherOutcomes ==
  ASSUME Inv, UNCHANGED <<replies, installed, sent, progress, data>>,
         outcome' = outcome \/ outcome' # "success"
  PROVE  Inv'
BY DEF Inv, Typed, OkIsTrue, Conserved, SuccessMeansInstalled

LEMMA AskingKeepsInv ==
  ASSUME Inv, Asks
  PROVE  Inv'
<1>1. UNCHANGED <<replies, installed, sent, progress, data>>
  BY DEF Asks, Invite, Answered, AnswerTimesOut, NoResponse, Authenticate, Authenticated,
         AuthenticationFails, device, update, tcp, serving
<1>2. outcome' = outcome \/ outcome' # "success"
  BY DEF Asks, Invite, Answered, AnswerTimesOut, NoResponse, Authenticate, Authenticated,
         AuthenticationFails, Go, Exit
<1> QED BY <1>1, <1>2, OtherOutcomes

LEMMA SendChunkKeepsInv ==
  ASSUME Inv, SendChunk
  PROVE  Inv'
<1>1. UNCHANGED <<replies, installed, progress>> /\ outcome' \in {outcome, "uploadError"}
  BY DEF SendChunk, device, update, Go, Exit
<1>2. CASE sent' = sent + 1 /\ data' \in {data, data + Pieces}
  <2>1. sent < Chunks
    BY DEF SendChunk
  <2>2. ~installed
    BY <2>1 DEF Inv, Typed, SuccessMeansInstalled
  <2>3. /\ sent \in Nat /\ progress \in Nat /\ data \in Nat
        /\ progress + data <= 2 * sent /\ data' \in {data, data + 2}
    BY <1>2 DEF Inv, Typed, Conserved, Pieces
  <2>4. data' \in Nat /\ progress + data' <= 2 * (sent + 1)
    <3>1. /\ data + 2 \in Nat
          /\ progress + data <= 2 * (sent + 1) /\ progress + (data + 2) <= 2 * (sent + 1)
      BY <2>3, MorePieces
    <3>2. CASE data' = data
      BY <2>3, <3>1, <3>2
    <3>3. CASE data' = data + 2
      BY <3>1, <3>3
    <3> QED BY <2>3, <3>2, <3>3
  <2>5. Typed'
    BY <1>1, <1>2, <2>3, <2>4 DEF Inv, Typed
  <2>6. OkIsTrue' /\ SuccessMeansInstalled'
    BY <1>1, <2>2 DEF Inv, OkIsTrue, SuccessMeansInstalled
  <2>7. sent + 1 <= Chunks
    BY <2>1, <2>3, ChunksType
  <2>8. Conserved'
    BY <1>1, <1>2, <2>4, <2>7 DEF Conserved, Pieces
  <2> QED BY <2>5, <2>6, <2>8 DEF Inv
<1>3. CASE UNCHANGED <<sent, data>>
  BY <1>1, <1>3, OtherOutcomes
<1> QED BY <1>2, <1>3 DEF SendChunk

(* What it reads as OK was said of an installed image.                      *)
LEMMA ReadingKeepsInv ==
  ASSUME Inv, UNCHANGED <<installed, sent, progress, data>>,
         NEW n \in 0 .. Len(replies), Recv(n),
         outcome' = "success" => SaysOk(n) \/ outcome = "success"
  PROVE  Inv'
<1>1. replies' \in Seq(Words) /\ OkIsTrue'
  BY TakenIsAPrefix DEF Inv, Typed, OkIsTrue
<1>2. outcome' = "success" => installed
  BY TakenIsAPrefix DEF Inv, Typed, OkIsTrue, SuccessMeansInstalled
<1> QED BY <1>1, <1>2 DEF Inv, Typed, Conserved, SuccessMeansInstalled

LEMMA ServingKeepsInv ==
  ASSUME Inv, Serves
  PROVE  Inv'
<1>1. CASE Accept \/ AcceptTimesOut \/ ReplyTimesOut \/ ResultTimesOut \/ NoResult
  <2>1. UNCHANGED <<replies, installed, sent, progress, data>>
    BY <1>1 DEF Accept, AcceptTimesOut, ReplyTimesOut, ResultTimesOut, NoResult, device,
         update, tcp, serving
  <2>2. outcome' = outcome \/ outcome' # "success"
    BY <1>1 DEF Accept, AcceptTimesOut, ReplyTimesOut, ResultTimesOut, NoResult, Go, Exit
  <2> QED BY <2>1, <2>2, OtherOutcomes
<1>2. CASE SendChunk
  BY <1>2, SendChunkKeepsInv
<1>3. CASE RecvReply
  <2>1. PICK n \in 0 .. Len(replies) :
          /\ Recv(n) /\ ok' = SaysOk(n)
          /\ IF sent < Chunks THEN Go("send")
             ELSE IF ok' THEN Exit("success") ELSE Go("result")
    BY <1>3 DEF RecvReply
  <2>2. UNCHANGED <<installed, sent, progress, data>>
    BY <1>3 DEF RecvReply, device, update
  <2>3. outcome' = "success" => SaysOk(n) \/ outcome = "success"
    BY <2>1, Zenon DEF Go, Exit
  <2> QED BY <2>1, <2>2, <2>3, ReadingKeepsInv
<1>4. CASE RecvResult
  <2>1. PICK n \in 0 .. Len(replies) :
          Recv(n) /\ IF SaysOk(n) THEN Exit("success") ELSE Go("result")
    BY <1>4 DEF RecvResult
  <2>2. UNCHANGED <<installed, sent, progress, data>>
    BY <1>4 DEF RecvResult, device, update
  <2>3. outcome' = "success" => SaysOk(n) \/ outcome = "success"
    BY <2>1, Zenon DEF Go, Exit
  <2> QED BY <2>1, <2>2, <2>3, ReadingKeepsInv
<1> QED BY <1>1, <1>2, <1>3, <1>4 DEF Serves

-----------------------------------------------------------------------------
LEMMA InitInv == Init => Inv
<1> SUFFICES ASSUME Init PROVE Inv
  OBVIOUS
<1>1. replies = <<>> /\ <<>> \in Seq(Words)
  BY DEF Init
<1>2. installed = FALSE /\ progress = 0 /\ data = 0 /\ sent = 0 /\ outcome = "none"
  BY DEF Init
<1>3. Typed /\ SuccessMeansInstalled
  BY <1>1, <1>2 DEF Typed, SuccessMeansInstalled
<1>4. OkIsTrue
  <2>1. Len(replies) = 0
    BY <1>1
  <2> QED BY <2>1 DEF OkIsTrue
<1>5. Conserved
  BY <1>2, ChunksType DEF Conserved, Pieces
<1> QED BY <1>3, <1>4, <1>5 DEF Inv

LEMMA NextKeepsInv == Inv /\ [Next]_vars => Inv'
<1> SUFFICES ASSUME Inv, [Next]_vars PROVE Inv'
  OBVIOUS
<1>1. CASE UNCHANGED vars
  BY <1>1 DEF vars, device, update, tcp, serving, Inv, Typed, OkIsTrue, Conserved,
         SuccessMeansInstalled
<1>2. CASE Device \/ Restart
  BY <1>2, DeviceListens, ReadKeepsInv, WaitTimesOutKeepsInv, EndKeepsInv DEF Device
<1>3. CASE Tool
  BY <1>3, AskingKeepsInv, ServingKeepsInv DEF Tool
<1> QED BY <1>1, <1>2, <1>3 DEF Next

\* espota.py says "Success" only of an image that the device has installed, and a
\* device installs one only when every chunk was sent to it: for any image, any
\* number of tries and connections, and whatever is lost, late or restarted.
THEOREM SuccessIsTrue == Spec => []SuccessMeansInstalled
<1>1. Inv => SuccessMeansInstalled
  BY DEF Inv
<1> QED BY InitInv, NextKeepsInv, <1>1, PTL DEF Spec

-----------------------------------------------------------------------------
(* How often the tool has to ask. Every datagram at the device but the one  *)
(* the tool waits for is a stray, and cost a fault; a try that was missed   *)
(* cost one too, or left a stray behind, or met a device that waited for    *)
(* another tool's answer and gave that up.                                  *)
Datagram == [type : {"invitation", "response"}, sock : Nat, nonce : Nat,
             hash : {"none", "wrong", "md5", "sha"}]

Told ==
    /\ toDevice \in Seq(Datagram) /\ sock \in Nat /\ challenge \in Nat
    /\ tries \in Nat /\ faults \in Nat
    /\ state \in {"idle", "waitAuth", "runUpdate"} /\ answer \in Answers

(* No datagram is of a socket to come, and the tool invites from the last.  *)
Sockets ==
    \A i \in 1 .. Len(toDevice) :
        /\ toDevice[i].sock <= sock
        /\ tool = "waitAnswer" /\ toDevice[i].sock = sock => toDevice[i].type = "invitation"

(* While the tool asks, no image is there to be finished and restarted for. *)
NothingSent ==
    tool \in {"invite", "waitAnswer", "authenticate", "waitAuth", "accept"} => sent = 0

Waiting  == tool \in {"waitAnswer", "waitAuth"} /\ answer = "silence"
InFlight == Waiting /\ Asked
Strays   == IF InFlight THEN Len(toDevice) - 1 ELSE Len(toDevice)

HasAnswer == tool = "waitAnswer" /\ answer # "silence"
Missed    == IF tool = "waitAnswer" /\ (HasAnswer \/ Asked) THEN tries - 1 ELSE tries
Deaf      == IF state = "waitAuth" /\ ~HasAnswer THEN 1 ELSE 0

Budget ==
    /\ Strays <= faults
    /\ tool \in {"invite", "waitAnswer"} => Missed + Strays + Deaf <= 2 * faults + 1

Asking == Told /\ Sockets /\ NothingSent /\ Budget /\ LossIsSurvived

-----------------------------------------------------------------------------
LEMMA TriesType == MaxTries \in Nat
BY OtaAssumption

(* What a budget for f faults allows, one for g faults allows, too.         *)
LEMMA TwiceIsMore == \A f, g \in Nat : f <= g => 2 * f <= 2 * g /\ 2 * f \in Nat /\ 2 * g \in Nat
OBVIOUS

LEMMA TwiceMore == \A f \in Nat : 2 * (f + 1) = 2 * f + 2
OBVIOUS

LEMMA TwiceIsAtLeast == \A f \in Nat : f <= 2 * f /\ 2 * f \in Nat
OBVIOUS

LEMMA TwoMore ==
  \A a, b, c, d, e \in Nat : a <= d + 1 /\ b <= e + 1 => a + b + c <= d + e + c + 2
OBVIOUS

LEMMA OneMore ==
  \A a, b, c, d \in Nat : a <= c /\ c <= d /\ b <= 1 => 0 + a + b <= d + 1
OBVIOUS

LEMMA SameBudget ==
  ASSUME NEW f \in Nat, NEW g \in Nat, f <= g, NEW x \in Int, NEW y \in Int, y <= x,
         NEW k \in Nat, x <= 2 * f + k
  PROVE  y <= 2 * g + k
<1> DEFINE a == 2 * f
           b == 2 * g
<1>1. a \in Nat /\ b \in Nat /\ a <= b /\ x <= a + k
  BY TwiceIsMore
<1> HIDE DEF a, b
<1>2. y <= b + k
  BY <1>1
<1> QED BY <1>2 DEF b

LEMMA OneMoreFault ==
  ASSUME NEW f \in Nat, NEW g \in Nat, f + 1 <= g,
         NEW x \in Int, NEW y \in Int, y <= x + 2, x <= 2 * f + 1
  PROVE  y <= 2 * g + 1
<1> DEFINE a == 2 * f
           b == 2 * (f + 1)
           c == 2 * g
<1>1. a \in Nat /\ b = a + 2 /\ x <= a + 1
  BY TwiceMore
<1>2. c \in Nat /\ b <= c
  BY TwiceIsMore
<1> HIDE DEF a, b, c
<1>3. y <= c + 1
  BY <1>1, <1>2
<1> QED BY <1>3 DEF c

LEMMA MoreFaults ==
  ASSUME LossIsSurvived, faults \in Nat, faults' \in Nat, faults' >= faults,
         outcome' # "noResponse" \/ outcome' = outcome
  PROVE  LossIsSurvived'
<1> DEFINE a == 2 * faults
           b == 2 * faults'
<1>1. MaxTries <= a + 2 => MaxTries <= b + 2
  <2>1. a \in Nat /\ b \in Nat /\ a <= b
    BY TwiceIsMore
  <2> HIDE DEF a, b
  <2> QED BY <2>1, TriesType
<1>2. outcome' = "noResponse" => outcome = "noResponse"
  OBVIOUS
<1>3. 2 * faults \in Nat /\ 2 * faults' \in Nat
  BY TwiceIsMore
<1>4. CASE outcome' = "noResponse"
  <2>1. MaxTries <= 2 * faults + 2
    BY <1>2, <1>3, <1>4, TriesType DEF LossIsSurvived
  <2> QED BY <1>1, <1>3, <2>1, TriesType DEF LossIsSurvived
<1> QED BY <1>4 DEF LossIsSurvived

LEMMA FaultsGrow ==
  ASSUME faults \in Nat, NEW n \in Nat, Faults(n)
  PROVE  faults' = faults + n /\ faults' \in Nat /\ faults' >= faults
BY DEF Faults

LEMMA LateCosts ==
  ASSUME faults \in Nat, NEW p \in BOOLEAN, Late(p)
  PROVE  /\ faults' = faults + IF p THEN 1 ELSE 0
         /\ faults' \in Nat /\ faults' >= faults
BY DEF Faults, Late

LEMMA BudgetType ==
  ASSUME Told
  PROVE  /\ Strays \in Int /\ Missed \in Int /\ Deaf \in {0, 1} /\ Len(toDevice) \in Nat
         /\ Missed + Strays + Deaf \in Int
<1>1. Strays \in Int /\ Missed \in Int /\ Deaf \in {0, 1} /\ Len(toDevice) \in Nat
  BY DEF Told, Strays, Missed, Deaf
<1> HIDE DEF Strays, Missed, Deaf
<1> QED BY <1>1

LEMMA BudgetTypeNext ==
  ASSUME Told'
  PROVE  /\ Strays' \in Int /\ Missed' \in Int /\ Deaf' \in {0, 1} /\ Len(toDevice') \in Nat
         /\ Missed' + Strays' + Deaf' \in Int
<1>1. Strays' \in Int /\ Missed' \in Int /\ Deaf' \in {0, 1} /\ Len(toDevice') \in Nat
  BY DEF Told, Strays, Missed, Deaf
<1> HIDE DEF Strays, Missed, Deaf
<1> QED BY <1>1

(* A step that costs nothing, or at most two with a fault.                  *)
LEMMA BudgetKept ==
  ASSUME Asking, Told', faults' >= faults, Strays' <= faults',
         tool' \in {"invite", "waitAnswer"} =>
           /\ tool \in {"invite", "waitAnswer"}
           /\ \/ Missed' + Strays' + Deaf' <= Missed + Strays + Deaf
              \/ /\ faults + 1 <= faults'
                 /\ Missed' + Strays' + Deaf' <= Missed + Strays + Deaf + 2
  PROVE  Budget'
<1> SUFFICES ASSUME tool' \in {"invite", "waitAnswer"}
             PROVE  Missed' + Strays' + Deaf' <= 2 * faults' + 1
  BY DEF Budget
<1> DEFINE x == Missed + Strays + Deaf
           y == Missed' + Strays' + Deaf'
<1>1. x \in Int /\ y \in Int /\ faults \in Nat /\ faults' \in Nat
  BY BudgetType, BudgetTypeNext DEF Asking, Told
<1>2. x <= 2 * faults + 1
  BY DEF Asking, Budget
<1>3. \/ y <= x
      \/ faults + 1 <= faults' /\ y <= x + 2
  OBVIOUS
<1> HIDE DEF x, y
<1>4. y <= 2 * faults' + 1
  <2>1. CASE y <= x
    BY <1>1, <1>2, <2>1, SameBudget
  <2>2. CASE faults + 1 <= faults' /\ y <= x + 2
    BY <1>1, <1>2, <2>2, OneMoreFault
  <2> QED BY <1>3, <2>1, <2>2
<1> QED BY <1>4 DEF y

(* Steps of the device with no datagram.                                    *)
LEMMA DeviceWorks ==
  ASSUME Asking, UNCHANGED <<toDevice, answer, sock, challenge, tries, tool, sent, outcome>>,
         state' \in {state, "idle", "runUpdate"}, faults' \in Nat, faults' >= faults
  PROVE  Asking'
<1>1. Told' /\ Sockets' /\ NothingSent'
  BY DEF Asking, Told, Sockets, NothingSent
<1>2. LossIsSurvived'
  BY MoreFaults DEF Asking, Told
<1>3. /\ Waiting' = Waiting /\ Asked' = Asked /\ InFlight' = InFlight /\ HasAnswer' = HasAnswer
      /\ Strays' = Strays /\ Missed' = Missed
  BY DEF Waiting, Asked, InFlight, HasAnswer, Strays, Missed
<1>4. Deaf' \in {0, 1} /\ Deaf \in {0, 1} /\ Deaf' <= Deaf
  BY <1>3 DEF Deaf, Asking, Told
<1>5. Strays \in Int /\ Missed \in Int /\ faults \in Nat /\ Strays <= faults
  BY BudgetType DEF Asking, Told, Budget
<1> HIDE DEF Strays, Missed, Deaf
<1>6. Strays' <= faults'
  BY <1>3, <1>5
<1>7. Missed' + Strays' + Deaf' <= Missed + Strays + Deaf
  <2>1. Missed' + Strays' + Deaf' = Missed + Strays + Deaf'
    BY <1>3
  <2> QED BY <1>4, <1>5, <2>1
<1>8. Budget'
  BY <1>1, <1>6, <1>7, BudgetKept
<1> QED BY <1>1, <1>2, <1>8 DEF Asking

(* Steps of the tool that serves: it waits for no datagram any more.        *)
LEMMA ToolServes ==
  ASSUME Asking, UNCHANGED <<toDevice, answer, sock, challenge, tries, state>>,
         tool \in {"accept", "send", "ack", "result"},
         tool' \in {"send", "ack", "result", "exit"},
         outcome' # "noResponse" \/ outcome' = outcome, faults' \in Nat, faults' >= faults
  PROVE  Asking'
<1>1. Told' /\ Sockets' /\ NothingSent'
  BY DEF Asking, Told, Sockets, NothingSent
<1>2. LossIsSurvived'
  BY MoreFaults DEF Asking, Told
<1>3. Strays = Len(toDevice) /\ Strays' = Len(toDevice) /\ Len(toDevice) \in Nat /\ faults \in Nat
  BY DEF Strays, InFlight, Waiting, Asking, Told
<1>4. Budget'
  BY <1>3 DEF Asking, Budget
<1> QED BY <1>1, <1>2, <1>4 DEF Asking

LEMMA EndKeepsAsking ==
  ASSUME Inv, Asking, End
  PROVE  Asking'
<1>1. /\ UNCHANGED <<answer, sock, challenge, tries, tool, sent, outcome>> /\ state' = "idle"
      /\ toDevice' \in {toDevice, <<>>}
      /\ progress = ImageSize \/ toDevice' = toDevice
      /\ faults' \in Nat /\ faults' >= faults
  BY FaultsGrow, LateCosts DEF End, asking, serving, Asking, Told
<1>2. CASE toDevice' = toDevice
  BY <1>1, <1>2, DeviceWorks
<1>3. CASE toDevice' # toDevice
  <2>1. sent # 0
    BY <1>1, <1>3, ChunksType, OtaAssumption DEF Inv, Typed, Conserved, Pieces, ImageSize
  <2>2. tool \notin {"invite", "waitAnswer", "authenticate", "waitAuth", "accept"}
    BY <2>1 DEF Asking, NothingSent
  <2>3. toDevice' = <<>> /\ Len(toDevice') = 0
    BY <1>1, <1>3
  <2>4. Told' /\ Sockets' /\ NothingSent'
    BY <1>1, <2>2, <2>3 DEF Asking, Told, Sockets, NothingSent
  <2>5. LossIsSurvived'
    BY <1>1, MoreFaults DEF Asking, Told
  <2>6. Strays' = 0
    BY <1>1, <2>2, <2>3 DEF Strays, InFlight, Waiting
  <2>7. Budget'
    BY <1>1, <2>2, <2>6 DEF Budget
  <2> QED BY <2>4, <2>5, <2>7 DEF Asking
<1> QED BY <1>2, <1>3

(* A restart forgets what was asked; that is the fault it is.               *)
LEMMA RestartKeepsAsking ==
  ASSUME Asking, Restart
  PROVE  Asking'
<1>1. /\ UNCHANGED <<answer, sock, challenge, tries, tool, sent, outcome>> /\ state' = "idle"
      /\ toDevice' = <<>> /\ Len(toDevice') = 0
      /\ faults \in Nat /\ faults' \in Nat /\ faults' = faults + 1
  BY FaultsGrow DEF Restart, asking, serving, Asking, Told
<1>2. Told' /\ Sockets' /\ NothingSent'
  BY <1>1 DEF Asking, Told, Sockets, NothingSent
<1>3. LossIsSurvived'
  BY <1>1, MoreFaults DEF Asking, Told
<1>4. ~Asked' /\ ~InFlight' /\ Strays' = 0 /\ Deaf' = 0
  BY <1>1 DEF Asked, InFlight, Strays, Deaf
<1>5. Missed' \in Int /\ Missed \in Int /\ Missed' <= Missed + 1 /\ Strays >= 0 /\ Deaf >= 0
  <2>1. InFlight => Len(toDevice) > 0
    BY DEF InFlight, Asked, Asking, Told
  <2>2. Told /\ tries \in Nat /\ Len(toDevice) \in Nat /\ tries' = tries
    BY <1>1 DEF Asking, Told
  <2>3. Missed' \in {tries - 1, tries} /\ Missed \in {tries - 1, tries}
    BY <2>2 DEF Missed
  <2>4. Strays >= 0
    BY <2>1, <2>2 DEF Strays
  <2>5. Deaf \in {0, 1}
    BY <2>2, BudgetType
  <2> HIDE DEF Missed, Strays, Deaf
  <2> QED BY <2>2, <2>3, <2>4, <2>5
<1>6. Missed' + Strays' + Deaf' <= Missed + Strays + Deaf + 2
  <2>1. Strays \in Int /\ Deaf \in {0, 1}
    BY BudgetType DEF Asking
  <2>2. Missed' + Strays' + Deaf' = Missed' + 0 + 0
    BY <1>4
  <2> HIDE DEF Missed, Strays, Deaf
  <2> QED BY <1>5, <2>1, <2>2
<1>7. Budget'
  BY <1>1, <1>2, <1>4, <1>6, BudgetKept
<1> QED BY <1>2, <1>3, <1>7 DEF Asking

-----------------------------------------------------------------------------
(* The datagrams that are left when one was taken.                          *)
LEMMA OneTaken ==
  ASSUME NEW q \in Seq(Datagram), NEW i \in 1 .. Len(q)
  PROVE  /\ RemoveAt(q, i) \in Seq(Datagram) /\ Len(RemoveAt(q, i)) = Len(q) - 1
         /\ \A k \in 1 .. Len(q) - 1 :
              \E j \in 1 .. Len(q) : RemoveAt(q, i)[k] = q[j]
         /\ \A j \in 1 .. Len(q) :
              j # i => \E k \in 1 .. Len(q) - 1 : RemoveAt(q, i)[k] = q[j]
<1> DEFINE a == SubSeq(q, 1, i - 1)
           b == SubSeq(q, i + 1, Len(q))
           c == a \o b
           n == Len(q)
<1>1. n \in Nat /\ i \in Nat /\ 1 <= i /\ i <= n
  OBVIOUS
<1>2. a \in Seq(Datagram) /\ Len(a) = i - 1 /\ \A k \in 1 .. i - 1 : a[k] = q[k]
  BY <1>1, SubSeqProperties
<1>3. b \in Seq(Datagram) /\ Len(b) = n - i /\ \A k \in 1 .. n - i : b[k] = q[i + k]
  BY <1>1, SubSeqProperties
<1> HIDE DEF a, b
<1>4. /\ c \in Seq(Datagram) /\ Len(c) = Len(a) + Len(b)
      /\ \A k \in 1 .. Len(a) + Len(b) : c[k] = IF k <= Len(a) THEN a[k] ELSE b[k - Len(a)]
  BY <1>2, <1>3, ConcatProperties
<1> HIDE DEF c, n
<1>5. Len(c) = n - 1 /\ \A k \in 1 .. n - 1 : c[k] = IF k < i THEN q[k] ELSE q[k + 1]
  <2>1. Len(a) + Len(b) = n - 1
    BY <1>1, <1>2, <1>3
  <2>2. ASSUME NEW k \in 1 .. n - 1 PROVE c[k] = IF k < i THEN q[k] ELSE q[k + 1]
    <3>1. CASE k < i
      <4>1. k \in 1 .. i - 1 /\ k <= Len(a)
        BY <1>1, <1>2, <3>1
      <4> QED BY <1>2, <1>4, <2>1, <3>1, <4>1
    <3>2. CASE ~(k < i)
      <4>1. k - (i - 1) \in 1 .. n - i /\ ~(k <= Len(a)) /\ i + (k - (i - 1)) = k + 1
        BY <1>1, <1>2, <3>2
      <4>2. c[k] = b[k - (i - 1)]
        BY <1>2, <1>4, <2>1, <4>1
      <4> QED BY <1>3, <3>2, <4>1, <4>2
    <3> QED BY <3>1, <3>2
  <2> QED BY <1>4, <2>1, <2>2
<1>6. ASSUME NEW k \in 1 .. n - 1 PROVE \E j \in 1 .. n : c[k] = q[j]
  <2>1. k \in 1 .. n /\ k + 1 \in 1 .. n
    BY <1>1
  <2> QED BY <1>5, <2>1
<1>7. ASSUME NEW j \in 1 .. n, j # i PROVE \E k \in 1 .. n - 1 : c[k] = q[j]
  <2>1. CASE j < i
    <3>1. j \in 1 .. n - 1
      BY <1>1, <2>1
    <3> QED BY <1>5, <2>1, <3>1
  <2>2. CASE j > i
    <3>1. j - 1 \in 1 .. n - 1 /\ ~(j - 1 < i) /\ (j - 1) + 1 = j
      BY <1>1, <2>2
    <3>2. c[j - 1] = q[j]
      BY <1>5, <3>1
    <3> QED BY <3>1, <3>2
  <2> QED BY <1>1, <1>7, <2>1, <2>2
<1>8. RemoveAt(q, i) = c
  BY DEF RemoveAt, a, b, c
<1> QED BY <1>4, <1>5, <1>6, <1>7, <1>8 DEF n

LEMMA OnRxKeepsAsking ==
  ASSUME Asking, NEW i \in DOMAIN toDevice, NEW lost \in BOOLEAN, OnRx(i, lost)
  PROVE  Asking'
<1> DEFINE m == toDevice[i]
           r == Response(m)
           L == Len(toDevice)
<1>1. /\ Told /\ toDevice \in Seq(Datagram) /\ i \in 1 .. L /\ L \in Nat \ {0}
      /\ m \in Datagram /\ m.sock \in Nat /\ sock \in Nat /\ tries \in Nat /\ faults \in Nat
  <2>1. /\ Told /\ toDevice \in Seq(Datagram)
        /\ sock \in Nat /\ tries \in Nat /\ faults \in Nat
    BY DEF Asking, Told
  <2>2. i \in 1 .. L /\ L \in Nat \ {0}
    BY <2>1
  <2>3. m \in Datagram
    BY <2>1, <2>2
  <2>4. m.sock \in Nat
    BY <2>3 DEF Datagram
  <2> QED BY <2>1, <2>2, <2>3, <2>4
<1>2. /\ UNCHANGED <<sock, challenge, tries, tool, sent, outcome>>
      /\ toDevice' = RemoveAt(toDevice, i) /\ state # "runUpdate"
      /\ state' = StateAfter[r]
      /\ lost => r # "silence"
      /\ answer' = IF ~lost /\ m.sock = sock /\ answer = "silence" THEN r ELSE answer
  BY DEF OnRx, asking, serving
<1>3. faults' \in Nat /\ faults' >= faults /\ (lost => faults + 1 <= faults')
  BY <1>1, FaultsGrow DEF OnRx
<1>4. /\ r \in Answers /\ (r = "silence" => state' = "idle")
      /\ state' \in {"idle", "waitAuth", "runUpdate"}
  BY <1>2 DEF Response, Answers, StateAfter
<1>5. m.type = "invitation" /\ r = "silence" => state = "waitAuth"
  BY <1>1, <1>2 DEF Response, Told
<1> HIDE DEF m, r
<1>6. /\ toDevice' \in Seq(Datagram) /\ Len(toDevice') = L - 1
      /\ \A k \in 1 .. Len(toDevice') : \E j \in 1 .. L : toDevice'[k] = toDevice[j]
      /\ \A j \in 1 .. L :
           j # i => \E k \in 1 .. Len(toDevice') : toDevice'[k] = toDevice[j]
  <2>1. toDevice \in Seq(Datagram) /\ i \in 1 .. Len(toDevice) /\ toDevice' = RemoveAt(toDevice, i)
    BY <1>1, <1>2
  <2>2. Len(toDevice') = Len(toDevice) - 1
    BY <2>1, OneTaken
  <2>3. /\ \A k \in 1 .. Len(toDevice) - 1 :
             \E j \in 1 .. Len(toDevice) : toDevice'[k] = toDevice[j]
        /\ \A j \in 1 .. Len(toDevice) :
             j # i => \E k \in 1 .. Len(toDevice) - 1 : toDevice'[k] = toDevice[j]
    <3>1. toDevice \in Seq(Datagram) /\ i \in 1 .. Len(toDevice)
      BY <2>1
    <3> HIDE DEF L
    <3> QED BY <2>1, <3>1, OneTaken, Zenon
  <2>4. toDevice' \in Seq(Datagram)
    BY <2>1, OneTaken
  <2> QED BY <2>2, <2>3, <2>4
<1>7. Told' /\ Sockets' /\ NothingSent'
  <2>1. Told'
    BY <1>1, <1>2, <1>3, <1>4, <1>6 DEF Told
  <2>2. NothingSent'
    BY <1>2 DEF Asking, NothingSent
  <2>3. ASSUME NEW k \in 1 .. Len(toDevice')
        PROVE  /\ toDevice'[k].sock <= sock
               /\ tool = "waitAnswer" /\ toDevice'[k].sock = sock
                    => toDevice'[k].type = "invitation"
    <3>1. PICK j \in 1 .. L : toDevice'[k] = toDevice[j]
      BY <1>6
    <3> QED BY <3>1 DEF Asking, Sockets
  <2>4. Sockets'
    BY <1>2, <2>3 DEF Sockets
  <2> QED BY <2>1, <2>2, <2>4
<1>8. LossIsSurvived'
  BY <1>1, <1>2, <1>3, MoreFaults DEF Asking
<1>9. /\ Asked <=> \E j \in 1 .. L : toDevice[j].sock = sock
      /\ Asked' <=> \E k \in 1 .. Len(toDevice') : toDevice'[k].sock = sock
      /\ Asked' => Asked
      /\ m.sock # sock => (Asked' <=> Asked)
      /\ m.sock = sock => Asked
  <2>1. DOMAIN toDevice = 1 .. L /\ DOMAIN toDevice' = 1 .. Len(toDevice')
    BY <1>1, <1>6
  <2>2. /\ Asked <=> \E j \in 1 .. L : toDevice[j].sock = sock
        /\ Asked' <=> \E k \in 1 .. Len(toDevice') : toDevice'[k].sock = sock
    BY <1>2, <2>1 DEF Asked
  <2> QED BY <1>1, <1>6, <2>2 DEF m
<1>10. /\ Strays \in Int /\ Missed \in Int /\ Deaf \in {0, 1} /\ Strays <= faults
       /\ Deaf' \in {0, 1}
  BY <1>7, BudgetType, BudgetTypeNext DEF Asking, Budget
(* What was taken was not waited for, or the same was sent twice.           *)
<1>11. CASE (InFlight' <=> InFlight) /\ Missed' = Missed
  <2>1. Strays' = Strays - 1
    BY <1>1, <1>6, <1>11 DEF Strays
  <2>2. Missed' = Missed
    BY <1>11
  <2> HIDE DEF Strays, Missed, Deaf
  <2>3. Missed' + Strays' + Deaf' <= Missed + Strays + Deaf
    <3>1. Missed' + Strays' + Deaf' = Missed + (Strays - 1) + Deaf'
      BY <2>1, <2>2
    <3> QED BY <1>10, <3>1
  <2>4. Strays' <= faults'
    BY <1>1, <1>3, <1>10, <2>1
  <2>5. Budget'
    BY <1>2, <1>3, <1>7, <2>3, <2>4, BudgetKept
  <2> QED BY <1>7, <1>8, <2>5 DEF Asking
(* The one that was waited for was taken: it is a stray no more.            *)
<1>12. CASE m.sock = sock /\ Waiting /\ ~InFlight'
  <2>1. Asked /\ InFlight /\ ~HasAnswer
    BY <1>9, <1>12 DEF InFlight, Waiting, HasAnswer
  <2>2. Strays = L - 1 /\ Strays' = L - 1
    BY <1>6, <1>12, <2>1 DEF Strays
  <2>3. Strays' <= faults'
    BY <1>1, <1>3, <1>10, <2>2
  <2>4. ASSUME tool = "waitAnswer"
        PROVE  \/ Missed' + Strays' + Deaf' <= Missed + Strays + Deaf
               \/ /\ faults + 1 <= faults'
                  /\ Missed' + Strays' + Deaf' <= Missed + Strays + Deaf + 2
    <3>1. Missed = tries - 1 /\ tool' = "waitAnswer" /\ tries' = tries
      BY <1>2, <2>1, <2>4 DEF Missed
    <3>2. CASE answer' # "silence"
      <4>1. Missed' = tries - 1 /\ Deaf' = 0
        BY <3>1, <3>2 DEF Missed, Deaf, HasAnswer
      <4> HIDE DEF Missed, Strays, Deaf
      <4> QED BY <1>1, <1>10, <2>2, <3>1, <4>1
    <3>3. CASE answer' = "silence"
      <4>1. Missed' \in {tries - 1, tries}
        BY <3>1 DEF Missed
      <4>2. r = "silence" \/ lost
        BY <1>2, <1>12, <3>3 DEF Waiting
      <4>3. CASE lost
        <5>1. faults + 1 <= faults' /\ Missed' <= Missed + 1
          BY <1>1, <1>3, <3>1, <4>1, <4>3
        <5> HIDE DEF Missed, Strays, Deaf
        <5>2. Missed' + Strays' + Deaf' <= Missed + Strays + Deaf + 2
          BY <1>1, <1>10, <2>2, <3>1, <4>1
        <5> QED BY <5>1, <5>2
      <4>4. CASE r = "silence"
        <5>1. m.type = "invitation"
          BY <1>1, <1>12, <2>4 DEF m, Asking, Sockets
        <5>2. Deaf = 1 /\ Deaf' = 0
          BY <1>4, <1>5, <2>1, <4>4, <5>1 DEF Deaf
        <5> HIDE DEF Missed, Strays, Deaf
        <5> QED BY <1>1, <2>2, <3>1, <4>1, <5>2
      <4> QED BY <4>2, <4>3, <4>4
    <3> QED BY <3>2, <3>3
  <2>5. tool # "invite"
    BY <1>12 DEF Waiting
  <2>6. Budget'
    BY <1>2, <1>3, <1>7, <2>3, <2>4, <2>5, BudgetKept
  <2> QED BY <1>7, <1>8, <2>6 DEF Asking
<1>13. CASE ~Waiting
  <2>1. ~InFlight /\ ~InFlight'
    BY <1>2, <1>13 DEF Waiting, InFlight
  <2>2. tool = "waitAnswer" => HasAnswer /\ HasAnswer'
    BY <1>2, <1>13 DEF Waiting, HasAnswer
  <2>3. Missed' = Missed
    BY <1>2, <2>2 DEF Missed
  <2> QED BY <1>11, <2>1, <2>3
<1>14. CASE Waiting /\ InFlight'
  <2>1. Asked /\ Asked' /\ InFlight
    BY <1>9, <1>14 DEF InFlight
  <2>2. Missed' = Missed
    BY <1>2, <2>1 DEF Missed
  <2> QED BY <1>11, <1>14, <2>1, <2>2
<1>15. CASE Waiting /\ m.sock # sock
  <2>1. answer' = answer /\ (Asked' <=> Asked)
    BY <1>2, <1>9, <1>15
  <2>2. (InFlight' <=> InFlight) /\ (HasAnswer' <=> HasAnswer)
    BY <1>2, <2>1 DEF InFlight, Waiting, HasAnswer
  <2>3. Missed' = Missed
    BY <1>2, <2>1, <2>2 DEF Missed
  <2> QED BY <1>11, <2>2, <2>3
<1> QED BY <1>12, <1>13, <1>14, <1>15

-----------------------------------------------------------------------------
(* A datagram goes out: it is the only one of its socket, with its copies.  *)
LEMMA OneSent ==
  ASSUME Asking, NEW m \in Datagram, NEW n \in 0 .. 2, m.sock = sock + 1, sock' = sock + 1,
         toDevice' = toDevice \o [i \in 1 .. n |-> m]
  PROVE  /\ toDevice' \in Seq(Datagram) /\ Len(toDevice') = Len(toDevice) + n
         /\ Asked' <=> n > 0
         /\ \A i \in 1 .. Len(toDevice') :
              /\ toDevice'[i].sock <= sock'
              /\ toDevice'[i].sock = sock' => toDevice'[i] = m
<1> DEFINE L == Len(toDevice)
           b == [i \in 1 .. n |-> m]
<1>1. /\ toDevice \in Seq(Datagram) /\ L \in Nat /\ sock \in Nat /\ n \in Nat
      /\ \A j \in 1 .. L : toDevice[j].sock <= sock
  BY DEF Asking, Told, Sockets
<1>2. b \in Seq(Datagram) /\ Len(b) = n /\ \A i \in 1 .. n : b[i] = m
  OBVIOUS
<1> HIDE DEF b
<1>3. /\ toDevice' \in Seq(Datagram) /\ Len(toDevice') = L + n
      /\ \A i \in 1 .. L + n : toDevice'[i] = IF i <= L THEN toDevice[i] ELSE b[i - L]
  <2>1. toDevice' = toDevice \o b
    BY DEF b
  <2> QED BY <1>1, <1>2, <2>1, ConcatProperties
<1>4. ASSUME NEW i \in 1 .. L + n
      PROVE  (i > L /\ toDevice'[i] = m)
             \/ (i <= L /\ toDevice'[i].sock \in Nat /\ toDevice'[i].sock <= sock)
  <2>1. CASE i <= L
    <3>1. i \in 1 .. L /\ toDevice'[i] = toDevice[i] /\ toDevice[i] \in Datagram
      BY <1>1, <1>3, <2>1
    <3> QED BY <1>1, <2>1, <3>1 DEF Datagram
  <2>2. CASE ~(i <= L)
    <3>1. i - L \in 1 .. n
      BY <1>1, <2>2
    <3> QED BY <1>1, <1>2, <1>3, <2>2, <3>1
  <2> QED BY <2>1, <2>2
<1>5. ASSUME NEW i \in 1 .. L + n
      PROVE  toDevice'[i].sock <= sock' /\ (toDevice'[i].sock = sock' => toDevice'[i] = m)
  <2>1. CASE toDevice'[i] = m
    BY <1>1, <2>1
  <2>2. CASE toDevice'[i].sock \in Nat /\ toDevice'[i].sock <= sock
    <3>1. toDevice'[i].sock <= sock + 1 /\ toDevice'[i].sock # sock + 1
      BY <1>1, <2>2, SMTT(30)
    <3> QED BY <3>1
  <2> QED BY <1>4, <2>1, <2>2
<1>6. Asked' <=> \E i \in 1 .. L + n : toDevice'[i].sock = sock'
  <2>1. DOMAIN toDevice' = 1 .. L + n
    BY <1>1, <1>3
  <2> QED BY <2>1 DEF Asked
<1>7. n > 0 => L + n \in 1 .. L + n /\ toDevice'[L + n] = m
  <2>1. ASSUME n > 0 PROVE L + n \in 1 .. L + n /\ ~(L + n <= L)
    BY <1>1, <2>1
  <2> QED BY <1>4, <2>1
<1>8. n = 0 => \A i \in 1 .. L + n : toDevice'[i].sock # sock'
  <2>1. ASSUME n = 0, NEW i \in 1 .. L + n PROVE toDevice'[i].sock # sock'
    <3>1. ~(i > L)
      BY <1>1, <2>1
    <3>2. toDevice'[i].sock \in Nat /\ toDevice'[i].sock <= sock
      BY <1>4, <2>1, <3>1
    <3> QED BY <1>1, <3>2
  <2> QED BY <2>1
<1>9. Asked' <=> n > 0
  BY <1>1, <1>6, <1>7, <1>8
<1> QED BY <1>3, <1>5, <1>9

LEMMA InviteKeepsAsking ==
  ASSUME Asking, Invite
  PROVE  Asking'
<1> DEFINE d == [type |-> "invitation", sock |-> sock + 1, nonce |-> 0, hash |-> "none"]
           L == Len(toDevice)
<1>1. /\ Told /\ L \in Nat /\ sock \in Nat /\ tries \in Nat /\ faults \in Nat
      /\ d \in Datagram /\ d.sock = sock + 1 /\ d.type = "invitation"
  BY DEF Asking, Told, Datagram
<1>2. PICK n \in 0 .. 2 :
        toDevice' = toDevice \o [i \in 1 .. n |-> d] /\ Late(n # 1)
  BY DEF Invite, Send
<1>3. /\ tool = "invite" /\ tool' = "waitAnswer" /\ tries' = tries + 1 /\ sock' = sock + 1
      /\ answer' = "silence" /\ UNCHANGED <<challenge, state, sent, outcome>>
  BY DEF Invite, Send, Go, device, serving
<1> HIDE DEF d
<1>4. faults' = (faults + IF n # 1 THEN 1 ELSE 0) /\ faults' \in Nat /\ faults' >= faults
  BY <1>1, <1>2, LateCosts
<1>5. /\ toDevice' \in Seq(Datagram) /\ Len(toDevice') = L + n
      /\ Asked' <=> n > 0
      /\ \A i \in 1 .. Len(toDevice') :
           /\ toDevice'[i].sock <= sock'
           /\ toDevice'[i].sock = sock' => toDevice'[i] = d
  BY <1>1, <1>2, <1>3, OneSent
<1>6. Told' /\ Sockets' /\ NothingSent'
  <2>1. Told'
    BY <1>1, <1>3, <1>4, <1>5 DEF Told, Answers
  <2>2. Sockets'
    BY <1>1, <1>3, <1>5 DEF Sockets
  <2>3. NothingSent'
    BY <1>3 DEF Asking, NothingSent
  <2> QED BY <2>1, <2>2, <2>3
<1>7. LossIsSurvived'
  BY <1>1, <1>3, <1>4, MoreFaults DEF Asking
<1>8. Strays = L /\ Missed = tries /\ Deaf' = Deaf /\ Deaf \in {0, 1} /\ L <= faults
  BY <1>3, BudgetType DEF Strays, Missed, Deaf, InFlight, Waiting, HasAnswer, Asking, Budget
<1>9. Strays' = (IF n > 0 THEN L + n - 1 ELSE L) /\ Missed' = IF n > 0 THEN tries ELSE tries + 1
  BY <1>1, <1>3, <1>5 DEF Strays, Missed, InFlight, Waiting, HasAnswer
<1> HIDE DEF Strays, Missed, Deaf, L
<1>10. CASE n = 1
  <2>1. Strays' = L /\ Missed' = tries /\ faults' = faults
    BY <1>1, <1>4, <1>9, <1>10
  <2>2. Missed' + Strays' + Deaf' = Missed + Strays + Deaf /\ Strays' <= faults'
    BY <1>8, <2>1
  <2>3. Missed' + Strays' + Deaf' <= Missed + Strays + Deaf
    BY <1>1, <1>8, <2>1
  <2>4. Budget'
    BY <1>3, <1>4, <1>6, <2>2, <2>3, BudgetKept
  <2> QED BY <1>6, <1>7, <2>4 DEF Asking
<1>11. CASE n # 1
  <2>1. Strays' \in {L, L + 1} /\ Missed' \in {tries, tries + 1} /\ faults' = faults + 1
    BY <1>1, <1>4, <1>9, <1>11
  <2>2. Missed' + Strays' + Deaf' <= Missed + Strays + Deaf + 2
    <3>1. Missed + Strays + Deaf = tries + L + Deaf /\ Missed' + Strays' + Deaf' = Missed' + Strays' + Deaf
      BY <1>8
    <3>2. Missed' \in Nat /\ Strays' \in Nat /\ Missed' <= tries + 1 /\ Strays' <= L + 1
      BY <1>1, <2>1
    <3>3. Missed' + Strays' + Deaf <= tries + L + Deaf + 2
      <4>1. L \in Nat /\ tries \in Nat /\ Deaf \in Nat
        BY <1>1, <1>8
      <4> QED BY <3>2, <4>1, TwoMore
    <3> QED BY <3>1, <3>3
  <2>3. Strays' <= faults' /\ faults + 1 <= faults'
    BY <1>1, <1>8, <2>1
  <2>4. Budget'
    BY <1>3, <1>4, <1>6, <2>2, <2>3, BudgetKept
  <2> QED BY <1>6, <1>7, <2>4 DEF Asking
<1> QED BY <1>10, <1>11

LEMMA AuthenticateKeepsAsking ==
  ASSUME Asking, Authenticate
  PROVE  Asking'
<1> DEFINE d == [type |-> "response", sock |-> sock + 1, nonce |-> challenge, hash |-> HashSent]
           L == Len(toDevice)
<1>1. /\ Told /\ L \in Nat /\ sock \in Nat /\ tries \in Nat /\ faults \in Nat
      /\ d \in Datagram /\ d.sock = sock + 1
  BY DEF Asking, Told, Datagram, HashSent
<1>2. PICK n \in 0 .. 2 :
        toDevice' = toDevice \o [i \in 1 .. n |-> d] /\ Late(n # 1)
  BY DEF Authenticate, Send
<1>3. /\ tool = "authenticate" /\ tool' = "waitAuth" /\ sock' = sock + 1
      /\ answer' = "silence" /\ UNCHANGED <<challenge, state, sent, outcome, tries>>
  BY DEF Authenticate, Send, Go, device, serving
<1> HIDE DEF d
<1>4. faults' = (faults + IF n # 1 THEN 1 ELSE 0) /\ faults' \in Nat /\ faults' >= faults
  BY <1>1, <1>2, LateCosts
<1>5. /\ toDevice' \in Seq(Datagram) /\ Len(toDevice') = L + n
      /\ Asked' <=> n > 0
      /\ \A i \in 1 .. Len(toDevice') :
           /\ toDevice'[i].sock <= sock'
           /\ toDevice'[i].sock = sock' => toDevice'[i] = d
  BY <1>1, <1>2, <1>3, OneSent
<1>6. Told' /\ Sockets' /\ NothingSent'
  <2>1. Told'
    BY <1>1, <1>3, <1>4, <1>5 DEF Told, Answers
  <2>2. Sockets'
    BY <1>1, <1>3, <1>5 DEF Sockets
  <2>3. NothingSent'
    BY <1>3 DEF Asking, NothingSent
  <2> QED BY <2>1, <2>2, <2>3
<1>7. LossIsSurvived'
  BY <1>1, <1>3, <1>4, MoreFaults DEF Asking
<1>8. L <= faults
  BY <1>3 DEF Strays, InFlight, Waiting, Asking, Budget
<1>9. Strays' = IF n > 0 THEN L + n - 1 ELSE L
  BY <1>1, <1>3, <1>5 DEF Strays, InFlight, Waiting
<1> HIDE DEF L
<1>10. Strays' <= faults'
  <2>1. CASE n = 1
    BY <1>1, <1>4, <1>8, <1>9, <2>1
  <2>2. CASE n # 1
    BY <1>1, <1>4, <1>8, <1>9, <2>2
  <2> QED BY <2>1, <2>2
<1>11. Budget'
  BY <1>3, <1>10 DEF Budget
<1> QED BY <1>6, <1>7, <1>11 DEF Asking

-----------------------------------------------------------------------------
(* The tool gives up waiting. Had an answer still been possible, that is a  *)
(* fault, and what it waited for becomes a stray.                           *)
LEMMA AnswerTimesOutKeepsAsking ==
  ASSUME Asking, AnswerTimesOut
  PROVE  Asking'
<1> DEFINE L == Len(toDevice)
<1>1. /\ Told /\ L \in Nat /\ tries \in Nat /\ faults \in Nat /\ Asked \in BOOLEAN
      /\ tool = "waitAnswer" /\ tool' = "invite" /\ answer = "silence" /\ Late(Asked)
      /\ UNCHANGED <<toDevice, answer, sock, challenge, tries, state, sent, outcome>>
  <2>1. Told /\ L \in Nat /\ tries \in Nat /\ faults \in Nat
    BY DEF Asking, Told
  <2>2. Asked \in BOOLEAN
    BY DEF Asked
  <2> QED BY <2>1, <2>2 DEF AnswerTimesOut, Go, device, asking, serving
<1>2. faults' = (faults + IF Asked THEN 1 ELSE 0) /\ faults' \in Nat /\ faults' >= faults
  BY <1>1, LateCosts
<1>3. Told' /\ Sockets' /\ NothingSent'
  BY <1>1, <1>2 DEF Asking, Told, Sockets, NothingSent
<1>4. LossIsSurvived'
  BY <1>1, <1>2, MoreFaults DEF Asking
<1>5. /\ Strays = (IF Asked THEN L - 1 ELSE L) /\ Missed = IF Asked THEN tries - 1 ELSE tries
      /\ Strays' = L /\ Missed' = tries /\ Deaf' = Deaf /\ Deaf \in {0, 1} /\ Strays <= faults
  BY <1>1, BudgetType DEF Strays, Missed, Deaf, InFlight, Waiting, HasAnswer, Asking, Budget
<1> HIDE DEF Strays, Missed, Deaf, L
<1>6. Missed' + Strays' + Deaf' = tries + L + Deaf
  BY <1>5
<1>7. CASE Asked
  <2>1. Strays' <= faults' /\ faults + 1 <= faults'
    BY <1>1, <1>2, <1>5, <1>7
  <2>2. Missed + Strays + Deaf = (tries - 1) + (L - 1) + Deaf
    BY <1>5, <1>7
  <2>3. tries + L + Deaf <= (tries - 1) + (L - 1) + Deaf + 2
    BY <1>1, <1>5
  <2>4. Missed' + Strays' + Deaf' <= Missed + Strays + Deaf + 2
    BY <1>6, <2>2, <2>3
  <2>5. Budget'
    BY <1>1, <1>2, <1>3, <2>1, <2>4, BudgetKept
  <2> QED BY <1>3, <1>4, <2>5 DEF Asking
<1>8. CASE ~Asked
  <2>1. Strays' <= faults'
    BY <1>1, <1>2, <1>5, <1>8
  <2>2. Missed + Strays + Deaf = tries + L + Deaf
    BY <1>5, <1>8
  <2>3. tries + L + Deaf <= tries + L + Deaf
    BY <1>1, <1>5
  <2>4. Missed' + Strays' + Deaf' <= Missed + Strays + Deaf
    BY <1>6, <2>2, <2>3
  <2>5. Budget'
    BY <1>1, <1>2, <1>3, <2>1, <2>4, BudgetKept
  <2> QED BY <1>3, <1>4, <2>5 DEF Asking
<1> QED BY <1>7, <1>8

(* The retry starts with all its tries, and finds at most one stray and one *)
(* device that waits for each fault there was.                              *)
LEMMA AuthenticationFailsKeepsAsking ==
  ASSUME Asking, AuthenticationFails
  PROVE  Asking'
<1> DEFINE L == Len(toDevice)
<1>1. /\ Told /\ L \in Nat /\ tries \in Nat /\ faults \in Nat /\ Asked \in BOOLEAN
      /\ tool = "waitAuth" /\ tool' \in {"invite", "exit"}
      /\ (answer = "failed" /\ Faults(0)) \/ (answer = "silence" /\ Late(Asked))
      /\ UNCHANGED <<toDevice, answer, sock, challenge, state, sent>>
      /\ tool' = "invite" => tries' = 0
      /\ tries' \in {0, tries} /\ (outcome' # "noResponse" \/ outcome' = outcome)
  <2>1. Told /\ L \in Nat /\ tries \in Nat /\ faults \in Nat
    BY DEF Asking, Told
  <2>2. Asked \in BOOLEAN
    BY DEF Asked
  <2> QED BY <2>1, <2>2 DEF AuthenticationFails, Go, Exit, device, asking, serving
<1>2. /\ faults' \in Nat /\ faults' >= faults
      /\ answer = "silence" /\ Asked => faults' = faults + 1
  <2>1. CASE answer = "failed" /\ Faults(0)
    BY <1>1, <2>1, FaultsGrow
  <2>2. CASE answer = "silence" /\ Late(Asked)
    BY <1>1, <2>2, LateCosts
  <2> QED BY <1>1, <2>1, <2>2
<1>3. Told' /\ Sockets' /\ NothingSent'
  BY <1>1, <1>2 DEF Asking, Told, Sockets, NothingSent
<1>4. LossIsSurvived'
  BY <1>1, <1>2, MoreFaults DEF Asking
<1>5. /\ Strays = (IF answer = "silence" /\ Asked THEN L - 1 ELSE L) /\ Strays <= faults
      /\ Strays' = L /\ Deaf' \in {0, 1}
      /\ tool' = "invite" => Missed' = 0
  BY <1>1, <1>3, BudgetTypeNext
  DEF Strays, Missed, Deaf, InFlight, Waiting, HasAnswer, Asking, Budget
<1> HIDE DEF Strays, Missed, Deaf, L
<1>6. Strays' <= faults'
  BY <1>1, <1>2, <1>5
<1>7. ASSUME tool' = "invite" PROVE Missed' + Strays' + Deaf' <= 2 * faults' + 1
  <2> DEFINE x == 2 * faults'
  <2>1. x \in Nat /\ faults' <= x
    BY <1>2, TwiceIsAtLeast
  <2>2. Missed' + Strays' + Deaf' = 0 + L + Deaf'
    BY <1>5, <1>7
  <2>3. L <= faults'
    BY <1>5, <1>6
  <2> HIDE DEF x
  <2>4. 0 + L + Deaf' <= x + 1
    <3>1. L \in Nat /\ Deaf' \in Nat /\ Deaf' <= 1 /\ faults' \in Nat
      BY <1>1, <1>2, <1>5
    <3> QED BY <2>1, <2>3, <3>1, OneMore
  <2> QED BY <2>2, <2>4 DEF x
<1>8. Budget'
  BY <1>1, <1>6, <1>7 DEF Budget
<1> QED BY <1>3, <1>4, <1>8 DEF Asking

(* The last try was asked, and each try that was missed was paid for.       *)
LEMMA NoResponseKeepsAsking ==
  ASSUME Asking, NoResponse
  PROVE  Asking'
<1>1. /\ Told /\ faults \in Nat /\ tries \in Nat /\ tries = MaxTries /\ tool' = "exit"
      /\ tool = "invite" \/ HasAnswer
      /\ UNCHANGED <<toDevice, answer, sock, challenge, tries, state, sent, faults>>
  BY DEF NoResponse, Exit, HasAnswer, Asking, Told, device, asking, serving
<1>2. Told' /\ Sockets' /\ NothingSent'
  BY <1>1 DEF Asking, Told, Sockets, NothingSent
<1>3. /\ Missed >= tries - 1 /\ Missed \in Int /\ Strays >= 0 /\ Strays \in Int
      /\ Deaf \in {0, 1} /\ Strays' = Strays /\ Strays <= faults
  <2>1. ~InFlight /\ ~InFlight'
    BY <1>1 DEF InFlight, Waiting, HasAnswer
  <2>2. Strays = Len(toDevice) /\ Strays' = Len(toDevice)
    BY <1>1, <2>1 DEF Strays
  <2>3. Len(toDevice) \in Nat
    BY <1>1, BudgetType
  <2>4. Missed \in {tries - 1, tries}
    BY DEF Missed
  <2>5. Deaf \in {0, 1} /\ Strays <= faults
    BY <1>1, BudgetType DEF Asking, Budget
  <2> HIDE DEF Strays, Missed, Deaf
  <2> QED BY <1>1, <2>2, <2>3, <2>4, <2>5
<1>4. Missed + Strays + Deaf <= 2 * faults + 1
  BY <1>1 DEF Asking, Budget, HasAnswer
<1> HIDE DEF Strays, Missed, Deaf
<1>5. 2 * faults + 2 >= MaxTries
  <2> DEFINE x == 2 * faults
  <2>1. x \in Nat
    BY <1>1
  <2>2. Missed + Strays + Deaf <= x + 1
    BY <1>4
  <2> HIDE DEF x
  <2>3. x + 2 >= tries
    BY <1>1, <1>3, <2>1, <2>2
  <2> QED BY <1>1, <2>3 DEF x
<1>6. LossIsSurvived'
  BY <1>1, <1>5 DEF LossIsSurvived
<1>7. Budget'
  BY <1>1, <1>3 DEF Budget
<1> QED BY <1>2, <1>6, <1>7 DEF Asking

(* An answer leaves nothing to wait for.                                    *)
LEMMA AnsweredKeepsAsking ==
  ASSUME Asking, Answered \/ Authenticated
  PROVE  Asking'
<1>1. /\ UNCHANGED <<toDevice, answer, sock, tries, state, sent, faults>>
      /\ tool \in {"waitAnswer", "waitAuth"} /\ answer # "silence"
      /\ tool' \in {"authenticate", "accept", "exit"} /\ challenge' \in {challenge, sock}
      /\ outcome' # "noResponse" \/ outcome' = outcome
  BY DEF Answered, Authenticated, Go, Exit, device, asking, serving
<1>2. Told' /\ Sockets' /\ NothingSent'
  BY <1>1 DEF Asking, Told, Sockets, NothingSent
<1>3. LossIsSurvived'
  BY <1>1 DEF Asking, LossIsSurvived
<1>4. Strays = Len(toDevice) /\ Strays' = Len(toDevice)
  BY <1>1 DEF Strays, InFlight, Waiting
<1>5. Budget'
  BY <1>1, <1>4 DEF Asking, Budget
<1> QED BY <1>2, <1>3, <1>5 DEF Asking

-----------------------------------------------------------------------------
LEMMA InitAsking == Init => Asking
<1> SUFFICES ASSUME Init PROVE Asking
  OBVIOUS
<1>1. /\ toDevice = <<>> /\ <<>> \in Seq(Datagram) /\ Len(toDevice) = 0
      /\ sock = 0 /\ challenge = 0 /\ tries = 0 /\ faults = 0 /\ answer = "silence"
      /\ tool = "invite" /\ sent = 0 /\ outcome = "none"
      /\ state \in {"idle", "waitAuth", "runUpdate"}
  BY DEF Init
<1>2. Told /\ Sockets /\ NothingSent /\ LossIsSurvived
  BY <1>1 DEF Told, Sockets, NothingSent, LossIsSurvived, Answers
<1>3. Strays = 0 /\ Missed = 0
  BY <1>1 DEF Strays, Missed, InFlight, Waiting
<1>4. Deaf \in {0, 1}
  BY <1>2, BudgetType
<1>5. Budget
  BY <1>1, <1>3, <1>4 DEF Budget
<1> QED BY <1>2, <1>5 DEF Asking

LEMMA NextKeepsAsking == Inv /\ Asking /\ [Next]_vars => Asking'
<1> SUFFICES ASSUME Inv, Asking, [Next]_vars PROVE Asking'
  OBVIOUS
<1>1. faults \in Nat /\ Told
  BY DEF Asking, Told
<1>2. CASE UNCHANGED vars
  BY <1>1, <1>2, DeviceWorks DEF vars, device, tcp, asking, serving
<1>3. CASE Receives
  BY <1>3, OnRxKeepsAsking DEF Receives
<1>4. CASE Begin \/ Connect \/ LoopHead \/ Read \/ WaitTimesOut
  <2>1. /\ UNCHANGED <<toDevice, answer, sock, challenge, tries, tool, sent, outcome>>
        /\ state' \in {state, "idle", "runUpdate"}
    BY <1>4 DEF Begin, Connect, LoopHead, Read, WaitTimesOut, tcp, asking, serving
  <2>2. faults' \in Nat /\ faults' >= faults
    <3>1. CASE Begin \/ Read
      BY <1>1, <3>1, FaultsGrow DEF Begin, Read
    <3>2. CASE Connect
      <4>1. Faults(0) \/ Late(Listening)
        BY <3>2 DEF Connect
      <4>2. Listening \in BOOLEAN
        BY DEF Listening
      <4> QED BY <1>1, <4>1, <4>2, FaultsGrow, LateCosts
    <3>3. CASE LoopHead
      BY <1>1, <3>3 DEF LoopHead
    <3>4. CASE WaitTimesOut
      <4>1. Late(ToolFeeds) /\ ToolFeeds \in BOOLEAN
        BY <3>4 DEF WaitTimesOut, ToolFeeds
      <4> QED BY <1>1, <4>1, LateCosts
    <3> QED BY <1>4, <3>1, <3>2, <3>3, <3>4
  <2> QED BY <2>1, <2>2, DeviceWorks
<1>5. CASE End \/ Restart
  BY <1>5, EndKeepsAsking, RestartKeepsAsking
<1>6. CASE Asks
  BY <1>6, InviteKeepsAsking, AuthenticateKeepsAsking, AnswerTimesOutKeepsAsking,
     AuthenticationFailsKeepsAsking, NoResponseKeepsAsking, AnsweredKeepsAsking DEF Asks
<1>7. CASE Serves
  <2>1. /\ UNCHANGED <<toDevice, answer, sock, challenge, tries, state>>
        /\ tool \in {"accept", "send", "ack", "result"}
        /\ tool' \in {"send", "ack", "result", "exit"}
        /\ outcome' # "noResponse" \/ outcome' = outcome
    <3>1. CASE Accept \/ AcceptTimesOut \/ SendChunk
      BY <3>1 DEF Accept, AcceptTimesOut, SendChunk, Go, Exit, device, asking
    <3>2. CASE RecvReply \/ ReplyTimesOut
      BY <3>2, Zenon DEF RecvReply, ReplyTimesOut, Go, Exit, device, asking
    <3>3. CASE RecvResult \/ ResultTimesOut \/ NoResult
      BY <3>3 DEF RecvResult, ResultTimesOut, NoResult, Go, Exit, device, asking
    <3> QED BY <1>7, <3>1, <3>2, <3>3 DEF Serves
  <2>2. faults' \in Nat /\ faults' >= faults
    <3>1. CASE Accept \/ SendChunk \/ RecvReply \/ RecvResult \/ NoResult
      BY <1>1, <3>1 DEF Accept, SendChunk, RecvReply, RecvResult, NoResult
    <3>2. CASE AcceptTimesOut
      BY <1>1, <3>2, LateCosts DEF AcceptTimesOut
    <3>3. CASE ReplyTimesOut
      <4>1. Late(DeviceReplies) /\ DeviceReplies \in BOOLEAN
        BY <3>3 DEF ReplyTimesOut, DeviceReplies
      <4> QED BY <1>1, <4>1, LateCosts
    <3>4. CASE ResultTimesOut
      <4>1. Late(replies # <<>> \/ ~Dead)
        BY <3>4 DEF ResultTimesOut
      <4> QED BY <1>1, <4>1, LateCosts
    <3> QED BY <1>7, <3>1, <3>2, <3>3, <3>4 DEF Serves
  <2> QED BY <2>1, <2>2, ToolServes
<1> QED BY <1>2, <1>3, <1>4, <1>5, <1>6, <1>7 DEF Next, Device, Tool

\* espota.py gives up for want of an answer only when at least one fault for every two
\* tries but two happened: a lost invitation, and the device that waits for the answer
\* to an earlier one, never cost more. For any number of tries, of faults and of copies.
THEOREM LossCostsTwoTries == Spec => []LossIsSurvived
<1>1. Asking => LossIsSurvived
  BY DEF Asking
<1> QED BY InitInv, NextKeepsInv, InitAsking, NextKeepsAsking, <1>1, PTL DEF Spec
=============================================================================
