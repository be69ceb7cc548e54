----------------------------- MODULE ArduinoOta -----------------------------
(***************************************************************************)
(* libraries/ArduinoOTA/src/ArduinoOTA.cpp and tools/espota.py: an upload   *)
(* over the network. The tool invites the device by UDP, answers its        *)
(* challenge, and serves the image to the TCP connection that the device    *)
(* then opens. Datagrams are lost, duplicated, late or out of order, either *)
(* side may time out, flash operations fail and the device may restart;     *)
(* faults counts all of these. A timeout is one when what was waited for    *)
(* could still have come.                                                   *)
(***************************************************************************)
EXTENDS Naturals, SequencesExt

CONSTANTS MaxTries,      \* 10: invitations the tool sends for one challenge
          ResultTries,   \* 10: how often it looks for the result
          ReAcks,        \* 3: how often the device repeats an acknowledgement
          Pending,       \* connections the tool's socket holds until accept()
          Chunks,        \* chunks of the image
          MaxFaults      \* bound on what goes wrong

Pieces == 2              \* a chunk may arrive in two pieces
ImageSize == Pieces * Chunks

ASSUME OtaAssumption ==
    /\ {MaxTries, ResultTries, Pending, Chunks} \subseteq Nat \ {0}
    /\ {ReAcks, MaxFaults} \subseteq Nat

VARIABLES
    stored,          \* _password: none, a SHA256 or an MD5 hash
    password,        \* what the user gave the tool is right, or not
    md5_target,      \* --md5-target
    state,           \* _state
    run,             \* where handle() is
    nonce,           \* _nonce, named by the invitation it was made for
    written, tried,  \* of _runUpdate(); written is only compared with 0
    progress,        \* of the updater
    error,           \* _updater->hasError()
    installed,       \* the image is complete and selected
    toDevice,        \* datagrams at the device's socket
    answer,          \* datagram at the socket the tool waits on, or silence
    opened,          \* how many connections the device opened
    link,            \* client: the connection of the device, 0 when it is closed
    closed,          \* connections the device closed
    backlog,         \* connections the tool has not accepted
    data,            \* pieces sent to the device and not read
    replies,         \* text sent to the tool and not read
    tool,            \* where serve() is
    phase,           \* 2 is the retry with an MD5 password hash
    tries,           \* inv_tries
    sock,            \* the UDP socket: every datagram has a new one
    challenge,       \* the nonce the tool was given
    conn,            \* connection
    sent, ok,        \* chunks sent; last_response_contained_ok
    count, any,      \* of the result loop; received_any_response
    outcome,         \* why serve() returned
    faults

fixed   == <<stored, password, md5_target>>
update  == <<written, tried, progress, error, installed>>
device  == <<state, run, nonce, update>>
tcp     == <<opened, link, closed, backlog, data, replies>>
asking  == <<phase, tries, sock, challenge>>
serving == <<conn, sent, ok, count, any>>
vars == <<fixed, device, toDevice, answer, tcp, tool, asking, serving, outcome, faults>>

Answers == {"silence", "ok", "auth", "failed"}
Faults(n) == faults + n <= MaxFaults /\ faults' = faults + n
Late(possible) == Faults(IF possible THEN 1 ELSE 0)

Init ==
    /\ stored \in {"none", "sha", "md5"} /\ password \in {"right", "wrong"}
    /\ md5_target \in BOOLEAN
    /\ state \in {"idle"} \union IF stored = "none" THEN {} ELSE {"waitAuth"}
    /\ run = "poll" /\ nonce = 0
    /\ written = FALSE /\ tried = 0 /\ progress = 0 /\ error = FALSE /\ installed = FALSE
    /\ toDevice = <<>> /\ answer = "silence"
    /\ opened = 0 /\ link = 0 /\ closed = {} /\ backlog = <<>> /\ data = 0 /\ replies = <<>>
    /\ tool = "invite" /\ phase = 1 /\ tries = 0 /\ sock = 0 /\ challenge = 0
    /\ conn = 0 /\ sent = 0 /\ ok = FALSE /\ count = 0 /\ any = FALSE
    /\ outcome = "none" /\ faults = 0

-----------------------------------------------------------------------------
(* The device: handle() and _onRx().                                        *)

Expected(m) == m.hash = stored /\ m.nonce = nonce

Response(m) ==
    CASE state = "idle" /\ m.type = "invitation" ->
             IF stored = "none" THEN "ok" ELSE "auth"
      [] state = "waitAuth" /\ m.type = "response" ->
             IF Expected(m) THEN "ok" ELSE "failed"
      [] OTHER -> "silence"

\* Mutant: a device that waits for an answer keeps waiting.
StateIfPatient == [ok |-> "runUpdate", auth |-> "waitAuth", failed |-> "idle", silence |-> "waitAuth"]

StateAfter == [ok |-> "runUpdate", auth |-> "waitAuth", failed |-> "idle", silence |-> "idle"]

OnRx(i, lost) ==
    LET m == toDevice[i]
        r == Response(m)
        reaches == ~lost /\ m.sock = sock /\ answer = "silence"
    IN  /\ run = "poll" /\ state # "runUpdate"
        /\ lost => r # "silence"
        /\ Faults((IF lost THEN 1 ELSE 0) + (IF i > 1 THEN 1 ELSE 0))
        /\ toDevice' = RemoveAt(toDevice, i)
        /\ answer' = IF reaches THEN r ELSE answer
        /\ state' = StateAfter[r]
        /\ nonce' = IF r = "auth" THEN m.sock ELSE nonce
        /\ UNCHANGED <<fixed, run, update, tcp, tool, asking, serving, outcome>>

(* _runUpdate(): the device may fail to begin, and to connect.              *)
Begin ==
    /\ run = "poll" /\ state = "runUpdate"
    /\ \/ /\ run' = "connect" /\ Faults(0)
          /\ written' = FALSE /\ tried' = 0 /\ progress' = 0 /\ error' = FALSE
          /\ UNCHANGED <<state, installed>>
       \/ state' = "idle" /\ Faults(1) /\ UNCHANGED <<run, update>>
    /\ UNCHANGED <<fixed, nonce, toDevice, answer, tcp, tool, asking, serving, outcome>>

Listening == tool # "exit" /\ Len(backlog) < Pending

Connect ==
    /\ run = "connect"
    /\ \/ /\ Listening /\ Faults(0)
          /\ opened' = opened + 1 /\ link' = opened' /\ backlog' = Append(backlog, opened')
          /\ run' = "head" /\ UNCHANGED state
       \/ /\ Late(Listening)
          /\ run' = "end" /\ state' = "idle" /\ UNCHANGED <<opened, link, backlog>>
    /\ UNCHANGED <<fixed, nonce, update, toDevice, answer, closed, data, replies,
                   tool, asking, serving, outcome>>

Finished == error \/ progress = ImageSize
Connected == data > 0 \/ tool # "exit"

LoopHead ==
    /\ run = "head"
    /\ run' = IF Finished \/ ~Connected THEN "end" ELSE "wait"
    /\ UNCHANGED <<fixed, state, nonce, update, toDevice, answer, tcp, tool, asking,
                   serving, outcome, faults>>

(* A read takes what has arrived; a write that fails aborts the update.     *)
Read ==
    /\ run = "wait" /\ \E n \in 1 .. data :
        /\ data' = data - n
        /\ \/ /\ Faults(0) /\ written' = TRUE /\ progress' = progress + n
              /\ replies' = Append(replies, "count") /\ UNCHANGED error
           \/ /\ Faults(1) /\ written' = FALSE /\ error' = TRUE
              /\ UNCHANGED <<progress, replies>>
    /\ run' = "head" /\ tried' = 0
    /\ UNCHANGED <<fixed, state, nonce, installed, toDevice, answer, opened, link, closed,
                   backlog, tool, asking, serving, outcome>>

(* Data is there, or the tool is about to send some.                        *)
ToolFeeds ==
    \/ data > 0
    \/ link = conn /\ (tool = "send" \/ (tool = "ack" /\ replies # <<>>))
    \/ tool = "accept" /\ backlog # <<>> /\ Head(backlog) = link
    \/ tool \in {"waitAnswer", "waitAuth"} /\ answer = "ok"

ReplyAgain == written /\ tried < ReAcks

WaitTimesOut ==
    /\ run = "wait" /\ Late(ToolFeeds)
    /\ \/ /\ ReplyAgain /\ tried' = tried + 1
          /\ \/ run' = "head" /\ replies' = Append(replies, "count") /\ UNCHANGED state
             \/ tool = "exit" /\ run' = "end" /\ state' = "idle" /\ UNCHANGED replies
          /\ UNCHANGED <<error, link, closed, data>>
       \/ /\ ~ReplyAgain
          /\ error' = TRUE /\ run' = "poll" /\ state' = "idle"
          /\ link' = 0 /\ closed' = closed \union {link} /\ data' = 0
          /\ UNCHANGED <<tried, replies>>
    /\ UNCHANGED <<fixed, nonce, written, progress, installed, toDevice, answer, opened,
                   backlog, tool, asking, serving, outcome>>

(* end() of the updater, its result for the tool, and with                  *)
(* _rebootOnSuccess a restart.                                              *)
End ==
    LET complete == ~error /\ progress = ImageSize IN
    /\ run = "end"
    /\ \/ /\ complete /\ installed' = TRUE /\ Faults(0)
          /\ replies' = replies \o <<"O", "K">>
          /\ toDevice' \in {toDevice, <<>>}
          /\ UNCHANGED error
       \/ /\ Late(complete) /\ error' = TRUE
          /\ replies' = IF link = 0 THEN replies ELSE Append(replies, "error")
          /\ UNCHANGED <<installed, toDevice>>
    /\ run' = "poll" /\ state' = "idle"
    /\ link' = 0 /\ closed' = closed \union ({link} \ {0}) /\ data' = 0
    /\ UNCHANGED <<fixed, nonce, written, tried, progress, answer, opened, backlog, tool,
                   asking, serving, outcome>>

(* The device goes without a word to the tool.                              *)
Restart ==
    /\ Faults(1)
    /\ run' = "poll" /\ state' = "idle" /\ toDevice' = <<>> /\ link' = 0 /\ data' = 0
    /\ UNCHANGED <<fixed, nonce, update, answer, opened, closed, backlog, replies, tool,
                   asking, serving, outcome>>

-----------------------------------------------------------------------------
(* The tool: send_invitation_and_get_auth_challenge().                      *)

Exit(why) == tool' = "exit" /\ outcome' = why
Go(where) == tool' = where /\ UNCHANGED outcome

(* A datagram from a new socket: it arrives, or is lost or duplicated.      *)
Send(m) ==
    /\ sock' = sock + 1 /\ answer' = "silence"
    /\ \E n \in 0 .. 2 :
        /\ toDevice' = toDevice \o [i \in 1 .. n |-> m]
        /\ Late(n # 1)

Invite ==
    /\ tool = "invite" /\ tries < MaxTries
    /\ Send([type |-> "invitation", sock |-> sock', nonce |-> 0, hash |-> "none"])
    /\ tries' = tries + 1 /\ Go("waitAnswer")
    /\ UNCHANGED <<fixed, device, tcp, phase, challenge, serving>>

(* What was asked for may still be answered.                                *)
Asked == \E i \in DOMAIN toDevice : toDevice[i].sock = sock

AnswerTimesOut ==
    /\ tool = "waitAnswer" /\ answer = "silence"
    /\ Late(Asked) /\ Go("invite")
    /\ UNCHANGED <<fixed, device, toDevice, answer, tcp, asking, serving>>

(* inv_tries == 10: also when the tenth invitation was answered.            *)
NoResponse ==
    /\ tries = MaxTries /\ (tool = "invite" \/ (tool = "waitAnswer" /\ answer # "silence"))
    /\ Exit("noResponse")
    /\ UNCHANGED <<fixed, device, toDevice, answer, tcp, asking, serving, faults>>

(* serve(): the MD5 retry must be challenged.                               *)
Answered ==
    /\ tool = "waitAnswer" /\ answer # "silence" /\ tries < MaxTries
    /\ \/ answer = "auth" /\ challenge' = sock /\ Go("authenticate")
       \/ /\ answer = "ok" /\ UNCHANGED challenge
          /\ IF phase = 1 THEN Go("accept") ELSE Exit("noChallenge")
    /\ UNCHANGED <<fixed, device, toDevice, answer, tcp, phase, tries, sock, serving, faults>>

(* authenticate()                                                           *)
\* Mutant: the retry sends the same hash again.
SameHashSent ==
    IF password = "wrong" THEN "wrong" ELSE IF md5_target THEN "md5" ELSE "sha"

HashSent ==
    IF password = "wrong" THEN "wrong" ELSE IF md5_target \/ phase = 2 THEN "md5" ELSE "sha"

Authenticate ==
    /\ tool = "authenticate"
    /\ Send([type |-> "response", sock |-> sock', nonce |-> challenge, hash |-> HashSent])
    /\ Go("waitAuth")
    /\ UNCHANGED <<fixed, device, tcp, phase, tries, challenge, serving>>

Authenticated ==
    /\ tool = "waitAuth" /\ answer = "ok" /\ Go("accept")
    /\ UNCHANGED <<fixed, device, toDevice, answer, tcp, asking, serving, faults>>

(* Refused, or not answered. The retry starts with another invitation.      *)
AuthenticationFails ==
    /\ tool = "waitAuth"
    /\ \/ answer = "failed" /\ Faults(0)
       \/ answer = "silence" /\ Late(Asked)
    /\ \/ phase = 1 /\ ~md5_target /\ phase' = 2 /\ tries' = 0 /\ Go("invite")
       \/ (phase = 2 \/ md5_target) /\ Exit("authFailed") /\ UNCHANGED <<phase, tries>>
    /\ UNCHANGED <<fixed, device, toDevice, answer, tcp, sock, challenge, serving>>

-----------------------------------------------------------------------------
(* serve(): the upload.                                                     *)

Accept ==
    /\ tool = "accept" /\ backlog # <<>>
    /\ conn' = Head(backlog) /\ backlog' = Tail(backlog) /\ Go("send")
    /\ UNCHANGED <<fixed, device, toDevice, answer, opened, link, closed, data, replies,
                   asking, sent, ok, count, any, faults>>

\* Mutant: no timeout is set before accept().
AcceptWaits == FALSE /\ UNCHANGED vars

AcceptTimesOut ==
    /\ tool = "accept" /\ backlog = <<>>
    /\ Late(state = "runUpdate") /\ Exit("noDevice")
    /\ UNCHANGED <<fixed, device, toDevice, answer, tcp, asking, serving>>

Dead == conn # link      \* the device has closed the connection, or forgotten it

SendChunk ==
    /\ tool = "send" /\ sent < Chunks
    /\ \/ /\ sent' = sent + 1 /\ Go("ack")
          /\ data' = IF Dead THEN data ELSE data + Pieces
       \/ Dead /\ Exit("uploadError") /\ UNCHANGED <<sent, data>>
    /\ UNCHANGED <<fixed, device, toDevice, answer, opened, link, closed, backlog, replies,
                   asking, conn, ok, count, any, faults>>

(* recv(): some of what was sent, or nothing when the device has closed. A  *)
(* count cut in two is a count; OK must come in one piece to be seen.       *)
Taken(n) == SubSeq(replies, 1, n)
SaysAnything(n) == n > 0      \* mutant: any text will do
SaysOk(n) == {"O", "K"} \subseteq {Taken(n)[i] : i \in 1 .. n}
Recv(n) ==
    /\ n \in 0 .. Len(replies) /\ (n = 0 => replies = <<>> /\ conn \in closed)
    /\ replies' = SubSeq(replies, n + 1, Len(replies))

RecvReply ==
    /\ tool = "ack" /\ \E n \in 0 .. Len(replies) :
        /\ Recv(n) /\ ok' = SaysOk(n)
        /\ IF sent < Chunks THEN Go("send") ELSE IF ok' THEN Exit("success") ELSE Go("result")
    /\ UNCHANGED <<fixed, device, toDevice, answer, opened, link, closed, backlog, data,
                   asking, conn, sent, count, any, faults>>

(* Something to read is there or will be. On a dead connection recv() may   *)
(* also raise an error.                                                     *)
DeviceReplies == replies # <<>> \/ (~Dead /\ (data > 0 \/ run = "end"))

ReplyTimesOut ==
    /\ tool = "ack" /\ Late(DeviceReplies) /\ Exit("uploadError")
    /\ UNCHANGED <<fixed, device, toDevice, answer, tcp, asking, serving>>

RecvResult ==
    /\ tool = "result" /\ count < ResultTries /\ \E n \in 0 .. Len(replies) :
        /\ Recv(n) /\ any' = TRUE
        /\ IF SaysOk(n) THEN Exit("success") ELSE Go("result")
    /\ count' = count + 1
    /\ UNCHANGED <<fixed, device, toDevice, answer, opened, link, closed, backlog, data,
                   asking, conn, sent, ok, faults>>

ResultTimesOut ==
    /\ tool = "result" /\ count < ResultTries
    /\ Late(replies # <<>> \/ ~Dead) /\ count' = count + 1
    /\ UNCHANGED <<fixed, device, toDevice, answer, tcp, tool, asking, conn, sent, ok, any,
                   outcome>>

NoResult ==
    /\ tool = "result" /\ count = ResultTries
    /\ Exit(IF any THEN "unsure" ELSE "noResult")
    /\ UNCHANGED <<fixed, device, toDevice, answer, tcp, asking, serving, faults>>

-----------------------------------------------------------------------------
Receives == \E i \in DOMAIN toDevice, lost \in BOOLEAN : OnRx(i, lost)
Device == Receives \/ Begin \/ Connect \/ LoopHead \/ Read \/ WaitTimesOut \/ End

Asks == Invite \/ Answered \/ AnswerTimesOut \/ NoResponse
        \/ Authenticate \/ Authenticated \/ AuthenticationFails
Serves == Accept \/ AcceptTimesOut \/ SendChunk \/ RecvReply \/ ReplyTimesOut
          \/ RecvResult \/ ResultTimesOut \/ NoResult
Tool == Asks \/ Serves

Next == Device \/ Tool \/ Restart
Spec == Init /\ [][Next]_vars /\ WF_vars(Device) /\ WF_vars(Tool)

-----------------------------------------------------------------------------

TypeOK ==
    /\ state \in {"idle", "waitAuth", "runUpdate"}
    /\ run \in {"poll", "connect", "head", "wait", "end"}
    /\ {written, error, installed, ok, any} \subseteq BOOLEAN
    /\ tried \in 0 .. ReAcks /\ progress \in 0 .. ImageSize /\ data \in 0 .. ImageSize
    /\ answer \in Answers /\ Len(backlog) <= Pending
    /\ {link, conn} \subseteq 0 .. opened /\ closed \subseteq 1 .. opened
    /\ tries \in 0 .. MaxTries /\ sent \in 0 .. Chunks /\ count \in 0 .. ResultTries
    /\ (outcome = "none") = (tool # "exit")

\* "Success" is only said of an image that is installed, and a device that never got
\* the last chunk has not installed one: neither side mixes up two connections.
SuccessMeansInstalled ==
    /\ outcome = "success" => installed
    /\ installed => sent = Chunks

\* When nothing goes wrong the upload succeeds, also on a device that an earlier tool
\* left waiting for an answer and with the retry for a stored MD5 hash.
PasswordFits == stored = "none" \/ (password = "right" /\ (stored = "md5" \/ ~md5_target))
FaultlessUploadInstalls ==
    tool = "exit" /\ faults = 0 /\ PasswordFits => outcome \in {"success", "unsure"} /\ installed

\* An invitation that is lost, or whose answer is, costs at most two tries, because a
\* device that waits for an answer gives up on the next invitation; one more is lost
\* to a device that waits from the start, and the last is never used.
LossIsSurvived == outcome = "noResponse" => 2 * faults + 2 >= MaxTries

\* Whatever is lost and whoever goes away, the tool returns and the device comes back
\* to its loop.
NobodyWaitsForever == <>(tool = "exit") /\ (run # "poll" ~> run = "poll")
=============================================================================
