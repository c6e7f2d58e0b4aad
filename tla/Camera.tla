-------------------------------- MODULE Camera --------------------------------
(***************************************************************************)
(* The actions moveptu and picture of Planner.ple: the pan-tilt unit the   *)
(* camera stands on, from ArduinoAdapter over an RPC server (class         *)
(* pantilt) and a serial line to the sketch ptuarduino.ino, and the        *)
(* pictures takepicture_1_svc saves.                                       *)
(*                                                                         *)
(* The executive waits for each command, and its call may not reach the    *)
(* RPC server.  The serial line loses nothing, but the unit may be late:   *)
(* pantilt waits for it one second.                                        *)
(***************************************************************************)
EXTENDS Integers, Sequences

CONSTANTS
    Position, \* pan-tilt positions of the problem: pairs of yaw and pitch
    StartAt,  \* the one it begins with, which the sketch's servos begin with
    MaxShots  \* bound: actions moveptu and picture of a mission

ASSUME CameraAssumption ==
    /\ Position \subseteq Nat \X Nat
    /\ StartAt \in Position
    /\ MaxShots \in Nat

(* pantilt::position refuses what the unit cannot reach.                   *)
InRange(p) == p[1] \in 20..160 /\ p[2] \in 70..145

(* A frame is "Yaw <yaw>:Pitch <pitch>;".                                  *)
Digits(n) == IF n < 100 THEN 2 ELSE 3
Colon(p) == 5 + Digits(p[1])
Length(p) == Colon(p) + 7 + Digits(p[2])
MaxLength == 18

(* A reply is a frame sent back, in bytes, with what follows it, if any.   *)
Bytes(p, n) == [k \in 1..n |-> <<p, k>>]

VARIABLES
    camera,   \* where Planner.ple stands in the two branches
    asked,    \* the position of the action in progress
    recorded, \* the position of the fact (ptu_pos turtle kinect ...)
    line,     \* frames on their way to the unit
    lectura,  \* where the sketch's buffer of that name has no NUL
    unit,     \* the position the servos have
    input,    \* bytes on their way to pantilt
    answer,   \* what position() has returned for the action in progress
    lost,     \* the last call of moveptu failed: no frame was sent for it
    longest,  \* the longest frame sent
    doubt,    \* the unit was late, or a frame was two shorter than one before
    numberOfPicture,
    files,    \* for each number, the picture its file holds
    pictures, \* the facts (picture ...), each with its picture and file
    unsaved,  \* the number of a picture has been lost by a failed save
    shots     \* actions begun

unitVars == <<line, lectura, unit, input>>
pictureVars == <<numberOfPicture, files, pictures, unsaved>>
cameraVars == <<camera, asked, recorded, unitVars, answer, lost, longest, doubt, pictureVars,
                shots>>

Picture == [shot : 1..MaxShots, at : Position, file : 0..MaxShots]

UnitTypeOK ==
    /\ asked \in Position /\ recorded \in Position /\ unit \in Position
    /\ line \in Seq(Position) /\ \A k \in DOMAIN line : InRange(line[k])
    /\ lectura \subseteq 1..MaxLength
    /\ input \in Seq(Position \X (1..MaxLength))
    /\ answer \in {"none", "ok", "failed"} /\ lost \in BOOLEAN
    /\ longest \in 0..MaxLength /\ doubt \in BOOLEAN

PictureTypeOK ==
    /\ numberOfPicture \in -1..MaxShots
    /\ files \in [0..MaxShots -> 0..MaxShots]
    /\ pictures \subseteq Picture
    /\ unsaved \in BOOLEAN

CameraTypeOK ==
    /\ camera \in {"start", "rest", "moving", "answered", "capture", "saved", "crashed"}
    /\ shots \in 0..MaxShots
    /\ UnitTypeOK /\ PictureTypeOK

CameraInit ==
    /\ camera = "start"
    /\ asked = StartAt /\ recorded = StartAt /\ unit = StartAt
    /\ line = <<>> /\ input = <<>>
    /\ lectura = {}
    /\ answer = "none" /\ lost = FALSE /\ longest = 0 /\ doubt = FALSE
    /\ numberOfPicture = 0
    /\ files = [n \in 0..MaxShots |-> 0]
    /\ pictures = {} /\ unsaved = FALSE
    /\ shots = 0

-----------------------------------------------------------------------------
(* The pan-tilt unit.  InitArduinoServer, before the first action: the RPC *)
(* server of the unit does not run without it, and then initPtu exits.     *)
ptuVars == <<asked, recorded, unitVars, answer, lost, longest, doubt>>

InitPtu ==
    /\ camera = "start"
    /\ camera' = "rest"
    /\ UNCHANGED <<ptuVars, pictureVars, shots>>

NoPtuServer ==
    /\ camera = "start"
    /\ camera' = "crashed"
    /\ UNCHANGED <<ptuVars, pictureVars, shots>>

Acts(step) == camera = "rest" /\ shots < MaxShots /\ shots' = shots + 1 /\ camera' = step

SentIfQuiet(p) == InRange(p) /\ input = <<>>
Sent(p) == InRange(p)

(* movePtu: the plan moves the unit from the position of the problem.  The *)
(* call sends a frame, is refused by position(), or fails, which           *)
(* executeCommand only reports.                                            *)
SendFrame(p) ==
    /\ Sent(p)
    /\ Acts("moving")
    /\ line' = Append(line, p)
    /\ longest' = IF longest < Length(p) THEN Length(p) ELSE longest
    /\ doubt' = (doubt \/ longest >= Length(p) + 2)
    /\ lost' = FALSE
    /\ UNCHANGED answer

Refuse(p) ==
    /\ ~Sent(p)
    /\ Acts("answered")
    /\ answer' = "failed"
    /\ lost' = FALSE
    /\ UNCHANGED <<line, longest, doubt>>

CallLost ==
    /\ Acts("answered")
    /\ lost' = TRUE
    /\ UNCHANGED <<line, longest, doubt, answer>>

MovePtu ==
    \E p \in Position \ {recorded} :
        /\ asked' = p
        /\ SendFrame(p) \/ Refuse(p) \/ CallLost
        /\ UNCHANGED <<recorded, lectura, unit, input, pictureVars>>

ParsedOnce(chars, p) == chars \ {Colon(p)}
Parsed(chars, p) == chars \ {Colon(p), Length(p)}

(* The loop of the sketch, once a frame is whole: what is in the buffer up *)
(* to the first NUL is the reply, then strtok ends the two tokens by NUL.  *)
Reply(chars, p) ==
    CHOOSE n \in Length(p)..MaxLength : 1..n \subseteq chars /\ n + 1 \notin chars

Sketch ==
    /\ line # <<>>
    /\ LET p == Head(line)
           chars == lectura \cup 1..Length(p)
       IN  /\ unit' = p
           /\ lectura' = Parsed(chars, p)
           /\ input' = input \o Bytes(p, Reply(chars, p))
    /\ line' = Tail(line)
    /\ UNCHANGED <<camera, asked, recorded, answer, lost, longest, doubt, pictureVars, shots>>

(* serial_read takes as many bytes as the frame has, and what it has got   *)
(* when nothing comes for a second; with no byte at all, position()        *)
(* compares the frame with a buffer nobody has written.                    *)
ReadReply ==
    /\ camera = "moving"
    /\ Len(input) >= Length(asked)
    /\ answer' = IF SubSeq(input, 1, Length(asked)) = Bytes(asked, Length(asked))
                 THEN "ok" ELSE "failed"
    /\ input' = SubSeq(input, Length(asked) + 1, Len(input))
    /\ camera' = "answered"
    /\ UNCHANGED <<asked, recorded, line, lectura, unit, lost, longest, doubt, pictureVars,
                   shots>>

SerialWaits == FALSE /\ UNCHANGED cameraVars
SerialTimeOut ==
    /\ camera = "moving"
    /\ Len(input) < Length(asked)
    /\ answer' \in IF input = <<>> THEN {"ok", "failed"} ELSE {"failed"}
    /\ input' = <<>>
    /\ doubt' = TRUE
    /\ camera' = "answered"
    /\ UNCHANGED <<asked, recorded, line, lectura, unit, lost, longest, pictureVars, shots>>

(* executeCommand gives the position asked for, whatever became of the     *)
(* call, and UpdatePtuPointing puts it in the problem.                     *)
UpdatePtuPointing ==
    /\ camera = "answered"
    /\ recorded' = asked
    /\ answer' = "none"
    /\ camera' = "rest"
    /\ UNCHANGED <<asked, unitVars, lost, longest, doubt, pictureVars, shots>>

-----------------------------------------------------------------------------
(* Pictures. *)
TakePicture == Acts("capture") /\ UNCHANGED <<ptuVars, pictureVars>>

(* imageCallback: a save that fails sets the number to -1, which is how    *)
(* takepicture_1_svc knows; the first image ends its wait.                 *)
ImageSaved ==
    /\ camera = "capture"
    /\ numberOfPicture' = numberOfPicture + 1
    /\ files' = [files EXCEPT ![numberOfPicture + 1] = shots]
    /\ camera' = "saved"
    /\ UNCHANGED <<ptuVars, pictures, unsaved, shots>>

ImageNotSavedAtZero ==
    /\ camera = "capture"
    /\ numberOfPicture' = 0
    /\ unsaved' = TRUE
    /\ camera' = "saved"
    /\ UNCHANGED <<ptuVars, files, pictures, shots>>

ImageNotSaved ==
    /\ camera = "capture"
    /\ numberOfPicture' = -1
    /\ unsaved' = TRUE
    /\ camera' = "saved"
    /\ UNCHANGED <<ptuVars, files, pictures, shots>>

(* No image: the call times out and its null result is followed.           *)
NoImage ==
    /\ camera = "capture"
    /\ camera' = "crashed"
    /\ UNCHANGED <<ptuVars, pictureVars, shots>>

(* UpdatePicture is skipped when TakePicture failed.                       *)
UpdatePicture ==
    /\ camera = "saved"
    /\ pictures' = IF numberOfPicture = -1 THEN pictures
                   ELSE pictures \cup {[shot |-> shots, at |-> recorded, file |-> numberOfPicture]}
    /\ camera' = "rest"
    /\ UNCHANGED <<ptuVars, numberOfPicture, files, unsaved, shots>>

CameraBegins == MovePtu \/ TakePicture
CameraEndsStep == InitPtu \/ NoPtuServer \/ ReadReply \/ SerialTimeOut \/ UpdatePtuPointing
                  \/ ImageSaved \/ ImageNotSaved \/ NoImage \/ UpdatePicture
CameraNext == CameraBegins \/ CameraEndsStep \/ Sketch

-----------------------------------------------------------------------------
(* Whatever position() answered, and the adapter does not look at it, the  *)
(* servos are where the problem says once no frame is on its way, unless   *)
(* the unit does not reach that position or the last call was lost: late   *)
(* answers and answers that the sketch made a byte longer cost no          *)
(* movement, and a position recorded for a lost call is put right by the   *)
(* next call that is not.                                                  *)
PointsAsRecorded ==
    camera = "rest" /\ line = <<>> /\ InRange(recorded) /\ ~lost => unit = recorded

(* position() tells whether the servos are at the position asked for, but  *)
(* for two cases: a unit that was late, whose answer is then read as that  *)
(* of a later frame (of the same position, even), and a frame two shorter  *)
(* than an earlier one, since the sketch does not clear its buffer.  It    *)
(* says nothing when the call was lost.                                    *)
AnswerTells ==
    camera = "answered" /\ ~lost /\ ~doubt => (answer = "ok" <=> InRange(asked) /\ unit = asked)

(* Each picture the problem has was saved, and its file still holds it     *)
(* unless a save failed: the numbers then begin again and a later picture  *)
(* takes the file of an earlier one.                                       *)
PicturesKept ==
    \A p \in pictures : files[p.file] = p.shot \/ (unsaved /\ files[p.file] > p.shot)

(* A moveptu or a picture ends, although the unit or the camera may never  *)
(* answer: each wait has its time-out.                                     *)
CameraEnds == camera # "rest" ~> camera \in {"rest", "crashed"}
=============================================================================
