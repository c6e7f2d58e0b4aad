---------------------------- MODULE ActionsProofs ----------------------------
(***************************************************************************)
(* Actions keeps what Docking promises, and the safety properties of the   *)
(* pan-tilt unit and the camera, for all positions and any number of       *)
(* actions.                                                                *)
(*                                                                         *)
(* CameraInv, the invariant of the camera, has one part for each property: *)
(* where the last frame sent leads (AimInv), what the sketch's buffer and  *)
(* the line hold while nothing odd has happened (LineInv), and which shot  *)
(* each file holds (FilesInv).                                             *)
(***************************************************************************)
EXTENDS Actions, DockingProofs

(* Where the servos will be when the line is empty. *)
Target == IF line = <<>> THEN unit ELSE line[Len(line)]

AimInv ==
    /\ camera \in {"moving", "answered"} /\ InRange(asked) /\ ~lost => Target = asked
    /\ camera = "moving" => InRange(asked) /\ ~lost
    /\ camera \notin {"moving", "answered"} /\ InRange(recorded) /\ ~lost =>
          Target = recorded

LineInv ==
    /\ lectura \subseteq 1..longest - 1
    /\ \A k \in DOMAIN line : Length(line[k]) <= longest
    /\ ~doubt /\ camera = "moving" =>
          /\ longest <= Length(asked) + 1
          /\ \/ line = <<asked>> /\ input = <<>>
             \/ line = <<>> /\ input = Bytes(asked, Length(asked)) /\ unit = asked
    /\ ~doubt /\ camera # "moving" => line = <<>> /\ input = <<>>
    /\ AnswerTells

FilesInv ==
    /\ numberOfPicture <= shots
    /\ camera = "capture" => numberOfPicture < shots
    /\ camera = "saved" /\ numberOfPicture # -1 => files[numberOfPicture] = shots
    /\ ~unsaved => numberOfPicture >= 0
    /\ camera \in {"capture", "saved"} => shots > 0
    /\ \A n \in 0..MaxShots : files[n] <= shots
    /\ \A p \in pictures :
          /\ files[p.file] >= p.shot
          /\ ~unsaved => p.file <= numberOfPicture /\ files[p.file] = p.shot

CameraInv == CameraTypeOK /\ AimInv /\ LineInv /\ FilesInv

(* Two facts on numbers. *)
LEMMA SmallNumbers ==
    /\ \A n \in Nat : n # 0 => n = 1 \/ n > 1
    /\ \A m, n \in 0..18 : m <= n => \A k \in 1..m - 1 : k \in 1..n - 1
  OBVIOUS

(* The rest of a sequence of two or more. *)
LEMMA TailOfTwo ==
    ASSUME NEW S, NEW s \in Seq(S), Len(s) > 1
    PROVE  /\ Tail(s) # <<>>
           /\ Len(Tail(s)) = Len(s) - 1
           /\ Tail(s)[Len(s) - 1] = s[Len(s)]
  <1>1. Len(Tail(s)) = Len(s) - 1
    OBVIOUS
  <1>2. Tail(s)[Len(s) - 1] = s[Len(s)]
    OBVIOUS
  <1>3. Tail(s) # <<>>
    <2>1. ASSUME NEW t \in Seq(S), t = <<>> PROVE Len(t) = 0
      BY <2>1
    <2>2. Tail(s) \in Seq(S)
      OBVIOUS
    <2>3. Len(s) \in Nat /\ Len(s) - 1 # 0
      OBVIOUS
    <2> QED
      BY <1>1, <2>1, <2>2, <2>3
  <1> QED
    BY <1>1, <1>2, <1>3

-----------------------------------------------------------------------------
(* Frames. *)
LEMMA FrameLength ==
    ASSUME NEW p \in Position, InRange(p)
    PROVE  /\ Length(p) \in 16..MaxLength /\ Colon(p) \in 1..Length(p) - 1
  <1>1. p[1] \in Nat /\ p[2] \in Nat
    BY CameraAssumption
  <1> QED
    BY <1>1 DEF InRange, Length, Colon, Digits, MaxLength

LEMMA ReplyLength ==
    ASSUME NEW p \in Position, InRange(p), NEW chars \in SUBSET (1..MaxLength),
           1..Length(p) \subseteq chars
    PROVE  /\ Reply(chars, p) \in Length(p)..MaxLength
           /\ Length(p) + 1 \notin chars => Reply(chars, p) = Length(p)
  <1> DEFINE L == Length(p)
             Ends(n) == 1..n \subseteq chars /\ n + 1 \notin chars
  <1>1. L \in 16..18 /\ MaxLength = 18
    BY FrameLength DEF MaxLength
  <1> HIDE DEF L
  <1>2. 1..L \subseteq chars
    BY DEF L
  <1>3. \E n \in L..MaxLength : Ends(n)
    <2>1. CASE L + 1 \notin chars
      BY <1>1, <1>2, <2>1
    <2>2. CASE L + 1 \in chars /\ L + 2 \notin chars
      <3>1. 1..L + 1 \subseteq chars
        BY <1>1, <1>2, <2>2
      <3> QED
        BY <1>1, <2>2, <3>1
    <2>3. CASE L + 1 \in chars /\ L + 2 \in chars
      <3>1. 1..L + 2 \subseteq chars /\ L + 3 \notin chars /\ L + 2 \in L..MaxLength
        BY <1>1, <1>2, <2>3
      <3> QED
        BY <1>1, <3>1
    <2> QED
      BY <2>1, <2>2, <2>3
  <1>4. Reply(chars, p) \in L..MaxLength /\ Ends(Reply(chars, p))
    BY <1>3 DEF Reply, L
  <1>5. L + 1 \notin chars => Reply(chars, p) = L
    BY <1>1, <1>4
  <1> QED
    BY <1>4, <1>5 DEF L

-----------------------------------------------------------------------------
LEMMA CameraInitInv == CameraInit => CameraInv
  <1>1. SUFFICES ASSUME CameraInit PROVE CameraInv
    OBVIOUS
  <1>2. CameraTypeOK
    BY <1>1, CameraAssumption DEF CameraInit, CameraTypeOK, UnitTypeOK, PictureTypeOK, MaxLength
  <1>3. AimInv
    BY <1>1 DEF CameraInit, AimInv, Target
  <1>4. LineInv
    BY <1>1 DEF CameraInit, LineInv, AnswerTells
  <1>5. FilesInv
    BY <1>1, CameraAssumption DEF CameraInit, FilesInv
  <1> QED
    BY <1>2, <1>3, <1>4, <1>5 DEF CameraInv

-----------------------------------------------------------------------------
(* The types of a step, the unit's and the pictures' apart. *)
LEMMA CameraStepType ==
    CameraInv /\ [CameraNext]_cameraVars =>
        camera' \in {"start", "rest", "moving", "answered", "capture", "saved", "crashed"}
        /\ shots' \in 0..MaxShots
  <1>1. SUFFICES ASSUME CameraInv, [CameraNext]_cameraVars
                 PROVE  camera' \in {"start", "rest", "moving", "answered", "capture", "saved", "crashed"}
                        /\ shots' \in 0..MaxShots
    OBVIOUS
  <1>2. camera \in {"start", "rest", "moving", "answered", "capture", "saved", "crashed"}
        /\ shots \in 0..MaxShots /\ MaxShots \in Nat
    BY <1>1, CameraAssumption DEF CameraInv, CameraTypeOK
  <1>3. CASE CameraBegins
    BY <1>2, <1>3 DEF CameraBegins, MovePtu, SendFrame, Refuse, CallLost, TakePicture, Acts
  <1>4. CASE ~CameraBegins
    BY <1>1, <1>2, <1>4 DEF CameraNext, CameraEndsStep, Sketch, ReadReply, SerialTimeOut,
       UpdatePtuPointing, ImageSaved, ImageNotSaved, InitPtu, NoPtuServer, NoImage,
       UpdatePicture, cameraVars
  <1> QED
    BY <1>3, <1>4

LEMMA PictureStepType == CameraInv /\ [CameraNext]_cameraVars => PictureTypeOK'
  <1>1. SUFFICES ASSUME CameraInv, [CameraNext]_cameraVars PROVE PictureTypeOK'
    OBVIOUS
  <1>2. PictureTypeOK /\ shots \in 0..MaxShots /\ MaxShots \in Nat
        /\ recorded \in Position /\ FilesInv
    BY <1>1, CameraAssumption DEF CameraInv, CameraTypeOK, UnitTypeOK
  <1>3. CASE ImageSaved
    BY <1>2, <1>3, SMTT(40) DEF ImageSaved, PictureTypeOK, FilesInv
  <1>4. CASE ImageNotSaved
    BY <1>2, <1>4 DEF ImageNotSaved, PictureTypeOK
  <1>5. CASE UpdatePicture
    <2>1. CASE numberOfPicture = -1
      BY <1>2, <1>5, <2>1 DEF UpdatePicture, PictureTypeOK
    <2>2. CASE numberOfPicture # -1
      <3>1. shots \in 1..MaxShots /\ numberOfPicture \in 0..MaxShots
        BY <1>2, <1>5, <2>2 DEF UpdatePicture, PictureTypeOK, FilesInv
      <3>2. [shot |-> shots, at |-> recorded, file |-> numberOfPicture] \in Picture
        BY <1>2, <3>1 DEF Picture
      <3> QED
        BY <1>2, <1>5, <2>2, <3>2 DEF UpdatePicture, PictureTypeOK
    <2> QED
      BY <2>1, <2>2
  <1>6. CASE UNCHANGED pictureVars
    BY <1>2, <1>6 DEF PictureTypeOK, pictureVars
  <1>7. ImageSaved \/ ImageNotSaved \/ UpdatePicture \/ UNCHANGED pictureVars
    BY <1>1 DEF CameraNext, CameraBegins, CameraEndsStep, MovePtu, TakePicture, Sketch,
       ReadReply, SerialTimeOut, UpdatePtuPointing, InitPtu,
       NoPtuServer, NoImage, ptuVars, cameraVars
  <1> QED
    BY <1>3, <1>4, <1>5, <1>6, <1>7

LEMMA UnitStepType == CameraInv /\ [CameraNext]_cameraVars => UnitTypeOK'
  <1>1. SUFFICES ASSUME CameraInv, [CameraNext]_cameraVars PROVE UnitTypeOK'
    OBVIOUS
  <1>2. UnitTypeOK /\ AimInv
    BY <1>1 DEF CameraInv, CameraTypeOK
  <1>3. CASE MovePtu
    <2>1. PICK p \in Position \ {recorded} :
              asked' = p /\ (SendFrame(p) \/ Refuse(p) \/ CallLost)
      BY <1>3 DEF MovePtu
    <2>2. recorded' = recorded /\ lectura' = lectura /\ unit' = unit /\ input' = input
      BY <1>3 DEF MovePtu
    <2>3. CASE SendFrame(p)
      <3>1. Length(p) \in 0..MaxLength /\ InRange(p)
        BY <2>3, FrameLength DEF SendFrame, Sent, MaxLength
      <3>2. line' \in Seq(Position) /\ \A k \in DOMAIN line' : InRange(line'[k])
        <4>1. line \in Seq(Position) /\ p \in Position /\ line' = Append(line, p)
              /\ \A k \in 1..Len(line) : InRange(line[k])
          BY <1>2, <2>1, <2>3 DEF UnitTypeOK, SendFrame
        <4>2. /\ line' \in Seq(Position) /\ DOMAIN line' = 1..Len(line) + 1
              /\ \A k \in 1..Len(line) : line'[k] = line[k]
              /\ line'[Len(line) + 1] = p
          BY <4>1
        <4>3. \A k \in 1..Len(line) + 1 : k \in 1..Len(line) \/ k = Len(line) + 1
          BY <4>1
        <4> QED
          BY <3>1, <4>1, <4>2, <4>3
      <3>3. longest' \in 0..MaxLength /\ doubt' \in BOOLEAN
        BY <1>2, <2>3, <3>1 DEF UnitTypeOK, SendFrame
      <3>4. answer' = answer /\ asked' \in Position
        BY <2>1, <2>3 DEF SendFrame
      <3>5. lost' \in BOOLEAN
        BY <2>3, Zenon DEF SendFrame
      <3> QED
        BY <1>2, <2>2, <3>2, <3>3, <3>4, <3>5 DEF UnitTypeOK
    <2>4. CASE Refuse(p) \/ CallLost
      <3>1. lost' \in BOOLEAN
        BY <2>4, Zenon DEF Refuse, CallLost
      <3>2. /\ answer' \in {answer, "failed"}
            /\ line' = line /\ longest' = longest /\ doubt' = doubt
        BY <2>4 DEF Refuse, CallLost
      <3> QED
        BY <1>2, <2>1, <2>2, <3>1, <3>2 DEF UnitTypeOK
    <2> QED
      BY <2>1, <2>3, <2>4
  <1>4. CASE Sketch
    <2> DEFINE p == Head(line)
               chars == lectura \cup 1..Length(p)
    <2>1. /\ p \in Position /\ InRange(p) /\ line' \in Seq(Position)
          /\ \A k \in DOMAIN line' : InRange(line'[k])
      BY <1>2, <1>4 DEF Sketch, UnitTypeOK
    <2>2. unit' = p /\ lectura' = Parsed(chars, p) /\ input' = input \o Bytes(p, Reply(chars, p))
      BY <1>4 DEF Sketch
    <2>3. asked' = asked /\ recorded' = recorded /\ answer' = answer /\ longest' = longest
          /\ doubt' = doubt /\ lost' = lost
      BY <1>4 DEF Sketch
    <2>4. lectura \subseteq 1..MaxLength /\ input \in Seq(Position \X (1..MaxLength))
      BY <1>2 DEF UnitTypeOK
    <2> HIDE DEF p
    <2>5. chars \in SUBSET (1..MaxLength) /\ 1..Length(p) \subseteq chars
      <3>1. Length(p) \in 16..18 /\ MaxLength = 18
        BY <2>1, FrameLength DEF MaxLength
      <3>2. 1..Length(p) \subseteq 1..18
        BY <3>1
      <3>3. lectura \subseteq 1..18
        BY <2>4, <3>1
      <3>4. chars \subseteq 1..18 /\ 1..Length(p) \subseteq chars
        BY <3>2, <3>3, Zenon
      <3> QED
        BY <3>1, <3>4
    <2> HIDE DEF chars
    <2>6. Reply(chars, p) \in 1..MaxLength
      BY <2>1, <2>5, ReplyLength, FrameLength, SMTT(40) DEF MaxLength
    <2> DEFINE r == Reply(chars, p)
    <2>7. Bytes(p, r) \in Seq(Position \X (1..MaxLength))
      <3> HIDE DEF r
      <3>1. r \in Nat /\ \A k \in 1..r : <<p, k>> \in Position \X (1..MaxLength)
        BY <2>1, <2>6, SMTT(40) DEF r, MaxLength
      <3> QED
        BY <3>1 DEF Bytes
    <2>8. input' \in Seq(Position \X (1..MaxLength))
      BY <2>2, <2>4, <2>7
    <2>9. lectura' \subseteq 1..MaxLength
      BY <2>2, <2>5 DEF Parsed
    <2> QED
      BY <1>2, <2>1, <2>2, <2>3, <2>8, <2>9 DEF UnitTypeOK
  <1>5. CASE ReadReply
    <2>1. Length(asked) \in 16..MaxLength
      BY <1>2, <1>5, FrameLength DEF UnitTypeOK, AimInv, ReadReply
    <2>2. input' \in Seq(Position \X (1..MaxLength))
      <3>1. input \in Seq(Position \X (1..MaxLength)) /\ Length(asked) \in Nat
        BY <1>2, <2>1 DEF UnitTypeOK, MaxLength
      <3>2. Length(asked) + 1 \in 1..Len(input) + 1
        BY <1>5, <3>1 DEF ReadReply
      <3> QED
        BY <1>5, <3>1, <3>2 DEF ReadReply
    <2>3. answer' \in {"ok", "failed"}
      BY <1>5 DEF ReadReply
    <2> QED
      BY <1>2, <1>5, <2>2, <2>3 DEF ReadReply, UnitTypeOK
  <1>6. CASE SerialTimeOut
    <2>1. input' \in Seq(Position \X (1..MaxLength))
      BY <1>6 DEF SerialTimeOut
    <2> QED
      BY <1>2, <1>6, <2>1 DEF SerialTimeOut, UnitTypeOK
  <1>7. CASE UpdatePtuPointing
    BY <1>2, <1>7 DEF UpdatePtuPointing, UnitTypeOK, unitVars
  <1>8. CASE UNCHANGED ptuVars
    BY <1>2, <1>8 DEF UnitTypeOK, ptuVars, unitVars
  <1>9. \/ MovePtu \/ Sketch \/ ReadReply \/ SerialTimeOut \/ UpdatePtuPointing
        \/ UNCHANGED ptuVars
    BY <1>1 DEF CameraNext, CameraBegins, CameraEndsStep, TakePicture, ImageSaved,
       ImageNotSaved, InitPtu, NoPtuServer, NoImage,
       UpdatePicture, cameraVars, ptuVars
  <1> QED
    BY <1>3, <1>4, <1>5, <1>6, <1>7, <1>8, <1>9

LEMMA CameraTypeStep == CameraInv /\ [CameraNext]_cameraVars => CameraTypeOK'
  BY CameraStepType, PictureStepType, UnitStepType DEF CameraTypeOK

-----------------------------------------------------------------------------
(* Where the last frame leads. *)
LEMMA AimStep == CameraInv /\ [CameraNext]_cameraVars => AimInv'
  <1>1. SUFFICES ASSUME CameraInv, [CameraNext]_cameraVars PROVE AimInv'
    OBVIOUS
  <1>2. AimInv /\ line \in Seq(Position)
        /\ camera \in {"start", "rest", "moving", "answered", "capture", "saved", "crashed"}
    BY <1>1 DEF CameraInv, CameraTypeOK, UnitTypeOK
  <1>3. CASE MovePtu
    <2>1. PICK p \in Position \ {recorded} :
              asked' = p /\ (SendFrame(p) \/ Refuse(p) \/ CallLost)
      BY <1>3 DEF MovePtu
    <2>2. CASE SendFrame(p)
      <3>1. line' = Append(line, p) /\ camera' = "moving" /\ InRange(p) /\ ~lost'
        BY <2>2 DEF SendFrame, Sent, Acts
      <3>2. line' # <<>> /\ line'[Len(line')] = p
        BY <1>2, <3>1
      <3> QED
        BY <2>1, <3>1, <3>2 DEF AimInv, Target
    <2>3. CASE Refuse(p)
      BY <2>1, <2>3 DEF AimInv, Refuse, Sent, Acts
    <2>4. CASE CallLost
      BY <2>4 DEF AimInv, CallLost, Acts
    <2> QED
      BY <2>1, <2>2, <2>3, <2>4
  <1>4. CASE Sketch
    <2>1. line # <<>> /\ line' = Tail(line) /\ unit' = Head(line)
      BY <1>4 DEF Sketch
    <2>2. Target' = Target
      <3>1. CASE Len(line) = 1
        BY <1>2, <2>1, <3>1 DEF Target
      <3>2. CASE Len(line) > 1
        <4>1. line \in Seq(Position) /\ line' = Tail(line) /\ unit' = Head(line)
          BY <1>2, <2>1
        <4>2. line' # <<>> /\ Len(line') = Len(line) - 1
              /\ line'[Len(line) - 1] = line[Len(line)]
          BY <4>1, <3>2, TailOfTwo, Zenon
        <4> QED
          BY <2>1, <4>2 DEF Target
      <3>3. Len(line) \in Nat /\ Len(line) # 0
        <4>1. line \in Seq(Position) /\ line # <<>>
          BY <1>2, <2>1
        <4> QED
          BY <4>1
      <3>4. Len(line) = 1 \/ Len(line) > 1
        BY <3>3, SmallNumbers
      <3> QED
        BY <3>1, <3>2, <3>4
    <2> QED
      BY <1>2, <1>4, <2>2 DEF Sketch, AimInv
  <1>5. CASE ReadReply \/ SerialTimeOut
    <2>1. Target' = Target /\ asked' = asked /\ recorded' = recorded /\ lost' = lost
          /\ camera = "moving" /\ camera' = "answered"
      BY <1>5 DEF ReadReply, SerialTimeOut, Target
    <2> QED
      BY <1>2, <2>1 DEF AimInv
  <1>6. CASE UpdatePtuPointing
    <2>1. Target' = Target /\ recorded' = asked /\ lost' = lost /\ camera = "answered" /\ camera' = "rest"
      BY <1>6 DEF UpdatePtuPointing, unitVars, Target
    <2> QED
      BY <1>2, <2>1 DEF AimInv
  <1>7. CASE TakePicture \/ ImageSaved \/ ImageNotSaved \/ NoImage \/ UpdatePicture
             \/ InitPtu \/ NoPtuServer
    <2>1. Target' = Target /\ recorded' = recorded /\ lost' = lost
          /\ {camera, camera'} \cap {"moving", "answered"} = {}
      BY <1>7 DEF TakePicture, Acts, ImageSaved, ImageNotSaved, InitPtu, NoPtuServer, NoImage,
       UpdatePicture,
                  ptuVars, unitVars, Target
    <2> QED
      BY <1>2, <2>1 DEF AimInv
  <1>8. CASE UNCHANGED cameraVars
    BY <1>2, <1>8 DEF AimInv, Target, cameraVars, unitVars
  <1> QED
    BY <1>1, <1>3, <1>4, <1>5, <1>6, <1>7, <1>8
      DEF CameraNext, CameraBegins, CameraEndsStep

-----------------------------------------------------------------------------
(* Files and pictures. *)
LEMMA FilesStep == CameraInv /\ [CameraNext]_cameraVars => FilesInv'
  <1>1. SUFFICES ASSUME CameraInv, [CameraNext]_cameraVars PROVE FilesInv'
    OBVIOUS
  <1>2. FilesInv /\ PictureTypeOK /\ shots \in 0..MaxShots /\ MaxShots \in Nat
    BY <1>1, CameraAssumption DEF CameraInv, CameraTypeOK
  <1>3. numberOfPicture \in -1..MaxShots /\ files \in [0..MaxShots -> 0..MaxShots]
        /\ \A p \in pictures : p.shot \in 1..MaxShots /\ p.file \in 0..MaxShots
    BY <1>2 DEF PictureTypeOK, Picture
  <1>4. CASE CameraBegins
    <2>1. /\ UNCHANGED pictureVars /\ shots' = shots + 1
          /\ camera' \in {"moving", "answered", "capture"}
      BY <1>4 DEF CameraBegins, MovePtu, SendFrame, Refuse, CallLost, TakePicture, Acts
    <2> QED
      BY <1>2, <1>3, <2>1, SMTT(40) DEF FilesInv, pictureVars
  <1>5. CASE ImageSaved
    <2>1. /\ numberOfPicture' = numberOfPicture + 1 /\ numberOfPicture + 1 \in 0..MaxShots
          /\ numberOfPicture + 1 <= shots /\ shots > 0
          /\ camera' = "saved" /\ shots' = shots /\ pictures' = pictures /\ unsaved' = unsaved
          /\ files' = [files EXCEPT ![numberOfPicture + 1] = shots]
      BY <1>2, <1>3, <1>5 DEF ImageSaved, FilesInv
    <2>2. \A p \in pictures : p.shot <= shots
      <3> SUFFICES ASSUME NEW p \in pictures PROVE p.shot <= shots
        OBVIOUS
      <3>1. p.shot \in Nat /\ p.file \in 0..MaxShots /\ files[p.file] \in Nat
        BY <1>2, <1>3, SMTT(40)
      <3>2. files[p.file] >= p.shot /\ files[p.file] <= shots
        BY <1>2, <3>1 DEF FilesInv
      <3> QED
        BY <1>2, <3>1, <3>2
    <2>3. \A p \in pictures : /\ files'[p.file] >= p.shot
                              /\ ~unsaved => /\ p.file <= numberOfPicture + 1
                                             /\ files'[p.file] = p.shot
      <3> SUFFICES ASSUME NEW p \in pictures
                   PROVE  /\ files'[p.file] >= p.shot
                          /\ ~unsaved => /\ p.file <= numberOfPicture + 1
                                         /\ files'[p.file] = p.shot
        OBVIOUS
      <3>1. p.shot \in 1..MaxShots /\ p.file \in 0..MaxShots /\ files[p.file] >= p.shot
            /\ p.shot <= shots
            /\ (~unsaved => p.file <= numberOfPicture /\ files[p.file] = p.shot)
        BY <1>2, <1>3, <2>2 DEF FilesInv
      <3>2. CASE p.file = numberOfPicture + 1
        BY <1>3, <2>1, <3>1, <3>2
      <3>3. CASE p.file # numberOfPicture + 1
        BY <1>3, <2>1, <3>1, <3>3
      <3> QED
        BY <3>2, <3>3
    <2>4. \A n \in 0..MaxShots : files'[n] <= shots
      BY <1>2, <1>3, <2>1 DEF FilesInv
    <2>5. files'[numberOfPicture + 1] = shots
      BY <1>3, <2>1
    <2>6. ~unsaved => numberOfPicture + 1 >= 0
      BY <2>1
    <2> QED
      BY <2>1, <2>3, <2>4, <2>5, <2>6 DEF FilesInv
  <1>6. CASE ImageNotSaved
    BY <1>2, <1>3, <1>6 DEF ImageNotSaved, FilesInv
  <1>7. CASE UpdatePicture
    <2>1. camera = "saved" /\ camera' = "rest" /\ shots' = shots /\ unsaved' = unsaved
          /\ numberOfPicture' = numberOfPicture /\ files' = files
      BY <1>7 DEF UpdatePicture
    <2>2. \A p \in pictures' :
              \/ p \in pictures
              \/ p.file = numberOfPicture /\ p.shot = shots /\ numberOfPicture # -1
      BY <1>7 DEF UpdatePicture
    <2>3. numberOfPicture # -1 => files[numberOfPicture] = shots
      BY <1>2, <2>1 DEF FilesInv
    <2>4. \A p \in pictures' : /\ files[p.file] >= p.shot
                               /\ ~unsaved => p.file <= numberOfPicture /\ files[p.file] = p.shot
      BY <1>2, <1>3, <2>2, <2>3, SMTT(40) DEF FilesInv
    <2> QED
      BY <1>2, <2>1, <2>4 DEF FilesInv
  <1>8. CASE Sketch \/ ReadReply \/ SerialTimeOut \/ UpdatePtuPointing \/ NoImage
             \/ InitPtu \/ NoPtuServer
             \/ UNCHANGED cameraVars
    <2>1. /\ UNCHANGED pictureVars /\ shots' = shots
          /\ camera' \in {"rest", "answered", "crashed", camera}
      BY <1>8 DEF Sketch, ReadReply, SerialTimeOut, UpdatePtuPointing, InitPtu,
       NoPtuServer, NoImage, ptuVars, cameraVars
    <2> QED
      BY <1>2, <1>3, <2>1 DEF FilesInv, pictureVars
  <1> QED
    BY <1>1, <1>4, <1>5, <1>6, <1>7, <1>8 DEF CameraNext, CameraEndsStep

-----------------------------------------------------------------------------
(* The buffer and the line. *)
LEMMA LineStep == CameraInv /\ [CameraNext]_cameraVars => LineInv'
  <1>1. SUFFICES ASSUME CameraInv, [CameraNext]_cameraVars PROVE LineInv'
    OBVIOUS
  <1>2. /\ LineInv /\ UnitTypeOK /\ asked \in Position /\ line \in Seq(Position)
        /\ \A k \in DOMAIN line : InRange(line[k])
        /\ longest \in 0..MaxLength /\ doubt \in BOOLEAN
        /\ lectura \subseteq 1..MaxLength
        /\ camera \in {"start", "rest", "moving", "answered", "capture", "saved", "crashed"}
    BY <1>1 DEF CameraInv, CameraTypeOK, UnitTypeOK
  <1>3. camera = "moving" => InRange(asked)
    BY <1>1 DEF CameraInv, AimInv
  <1>4. MaxLength = 18
    BY DEF MaxLength
  <1>5. CASE MovePtu
    <2>1. PICK p \in Position \ {recorded} :
              asked' = p /\ (SendFrame(p) \/ Refuse(p) \/ CallLost)
      BY <1>5 DEF MovePtu
    <2>2. camera = "rest" /\ lectura' = lectura /\ unit' = unit /\ input' = input
      BY <1>5, <2>1 DEF MovePtu, SendFrame, Refuse, CallLost, Acts
    <2>3. CASE SendFrame(p)
      <3>1. Length(p) \in 16..18 /\ camera' = "moving" /\ line' = Append(line, p)
        BY <2>1, <2>3, <1>4, FrameLength DEF SendFrame, Sent, Acts
      <3>2. longest' \in 0..18 /\ longest' >= longest /\ longest' >= Length(p)
        <4>1. longest \in 0..18 /\ longest' = IF longest < Length(p) THEN Length(p) ELSE longest
          BY <1>2, <1>4, <2>3 DEF SendFrame
        <4> QED
          BY <3>1, <4>1
      <3>3. ~doubt' => ~doubt /\ longest' <= Length(p) + 1
        <4>1. doubt' = (doubt \/ longest >= Length(p) + 2)
          BY <2>3 DEF SendFrame
        <4>2. longest' = (IF longest < Length(p) THEN Length(p) ELSE longest)
          BY <2>3 DEF SendFrame
        <4>3. longest \in 0..18
          BY <1>2, <1>4
        <4>4. HAVE ~doubt'
        <4>5. ~doubt /\ ~(longest >= Length(p) + 2)
          BY <4>1, <4>4
        <4> QED
          BY <3>1, <4>2, <4>3, <4>5
      <3>4. ~doubt' => line' = <<p>> /\ input' = <<>>
        BY <1>2, <2>2, <3>1, <3>3 DEF LineInv
      <3>5. \A k \in DOMAIN line' : Length(line'[k]) <= longest'
        <4>1. \A k \in 1..Len(line) : Length(line[k]) \in 16..18 /\ Length(line[k]) <= longest
          BY <1>2, <1>4, FrameLength DEF LineInv
        <4>2. \A k \in 1..Len(line) : Length(line[k]) <= longest'
          BY <1>2, <1>4, <3>2, <4>1
        <4>3. /\ DOMAIN line' = 1..Len(line) + 1
              /\ \A k \in 1..Len(line) : line'[k] = line[k]
              /\ line'[Len(line) + 1] = p
              /\ \A k \in 1..Len(line) + 1 : k \in 1..Len(line) \/ k = Len(line) + 1
          BY <1>2, <3>1
        <4> QED
          BY <3>2, <4>2, <4>3
      <3>6. lectura' \subseteq 1..longest' - 1
        <4>1. \A k \in lectura : k \in 1..longest - 1
          BY <1>2 DEF LineInv
        <4>2. longest \in 0..18 /\ lectura' = lectura
          BY <1>2, <1>4, <2>2
        <4>3. longest' \in 0..18 /\ longest' >= longest
          BY <3>2
        <4>4. SUFFICES ASSUME NEW k \in lectura PROVE k \in 1..longest' - 1
          BY <4>2
        <4>5. k \in 1..longest - 1
          BY <4>1
        <4> QED
          BY <4>2, <4>3, <4>5, SmallNumbers
      <3> QED
        BY <2>1, <3>1, <3>3, <3>4, <3>5, <3>6 DEF LineInv, AnswerTells
    <2>4. CASE Refuse(p)
      BY <1>2, <2>1, <2>2, <2>4 DEF LineInv, AnswerTells, Refuse, Sent, Acts
    <2>5. CASE CallLost
      BY <1>2, <2>2, <2>5 DEF LineInv, AnswerTells, CallLost, Acts
    <2> QED
      BY <2>1, <2>3, <2>4, <2>5
  <1>6. CASE Sketch
    <2> DEFINE p == Head(line)
               chars == lectura \cup 1..Length(p)
    <2>1. /\ p \in Position /\ InRange(p) /\ p = line[1] /\ 1 \in DOMAIN line
          /\ line' = Tail(line)
          /\ \A k \in DOMAIN line' : k + 1 \in DOMAIN line /\ line'[k] = line[k + 1]
      BY <1>2, <1>6 DEF Sketch
    <2>2. unit' = p /\ lectura' = Parsed(chars, p) /\ input' = input \o Bytes(p, Reply(chars, p))
      BY <1>6 DEF Sketch
    <2>3. camera' = camera /\ asked' = asked /\ longest' = longest /\ doubt' = doubt
          /\ answer' = answer /\ lost' = lost
      BY <1>6 DEF Sketch
    <2>4. lectura \subseteq 1..longest - 1 /\ Length(p) <= longest
      BY <1>2, <2>1 DEF LineInv
    <2>5. Length(p) \in 16..18
      BY <1>4, <2>1, FrameLength
    <2>6. lectura' \subseteq 1..longest' - 1
      <3>1. longest \in 0..18 /\ longest' = longest
        BY <1>2, <1>4, <2>3
      <3>2. \A k \in 1..Length(p) : k # Length(p) => k \in 1..longest - 1
        BY <2>4, <2>5, <3>1
      <3>3. \A k \in lectura' : k # Length(p) /\ (k \in lectura \/ k \in 1..Length(p))
        BY <2>2 DEF Parsed
      <3> QED
        BY <2>4, <3>1, <3>2, <3>3, Zenon
    <2>7. \A k \in DOMAIN line' : Length(line'[k]) <= longest'
      BY <1>2, <2>1, <2>3 DEF LineInv
    <2>8. CASE doubt
      BY <1>2, <2>3, <2>6, <2>7, <2>8 DEF LineInv, AnswerTells
    <2>9. CASE ~doubt
      <3>1. /\ camera = "moving" /\ line = <<asked>> /\ input = <<>> /\ p = asked
            /\ longest <= Length(p) + 1
        BY <1>2, <1>6, <2>9 DEF LineInv, Sketch
      <3>2. Length(p) + 1 \notin chars
        BY <1>2, <1>4, <2>4, <2>5, <3>1
      <3>3. chars \in SUBSET (1..MaxLength) /\ 1..Length(p) \subseteq chars
        <4>1. 1..Length(p) \subseteq 1..18
          BY <2>5
        <4>2. lectura \subseteq 1..18
          BY <1>2, <1>4
        <4>3. chars \subseteq 1..18 /\ 1..Length(p) \subseteq chars
          BY <4>1, <4>2, Zenon
        <4> QED
          BY <1>4, <4>3
      <3>4. Reply(chars, p) = Length(p)
        BY <2>1, <3>2, <3>3, ReplyLength
      <3>5. Bytes(p, Length(p)) \in Seq(Position \X (1..18))
        <4>1. \A k \in 1..Length(p) : <<p, k>> \in Position \X (1..18)
          BY <2>1, <2>5, SMTT(40)
        <4> QED
          BY <2>5, <4>1 DEF Bytes
      <3>6. input' = Bytes(p, Length(p))
        BY <2>2, <3>1, <3>4, <3>5
      <3>7. line' = <<>> /\ unit' = asked
        BY <2>1, <2>2, <3>1
      <3> QED
        BY <2>3, <2>6, <2>7, <2>9, <3>1, <3>6, <3>7 DEF LineInv, AnswerTells
    <2> QED
      BY <1>2, <2>8, <2>9
  <1>7. CASE ReadReply
    <2>1. /\ camera = "moving" /\ camera' = "answered" /\ asked' = asked /\ line' = line
          /\ lectura' = lectura /\ unit' = unit /\ longest' = longest /\ doubt' = doubt
          /\ Len(input) >= Length(asked)
          /\ answer' = IF SubSeq(input, 1, Length(asked)) = Bytes(asked, Length(asked))
                       THEN "ok" ELSE "failed"
          /\ input' = SubSeq(input, Length(asked) + 1, Len(input))
      BY <1>7 DEF ReadReply
    <2>2. Length(asked) \in 16..18 /\ InRange(asked)
      BY <1>2, <1>3, <1>4, <2>1, FrameLength
    <2>3. CASE doubt
      BY <1>2, <2>1, <2>3 DEF LineInv, AnswerTells
    <2>4. CASE ~doubt
      <3>1. \/ line = <<asked>> /\ input = <<>>
            \/ line = <<>> /\ input = Bytes(asked, Length(asked)) /\ unit = asked
        BY <1>2, <2>1, <2>4 DEF LineInv
      <3>2. input # <<>>
        BY <2>1, <2>2
      <3>3. line = <<>> /\ input = Bytes(asked, Length(asked)) /\ unit = asked
        BY <3>1, <3>2
      <3>4. /\ input \in Seq(Position \X (1..18)) /\ Len(input) = Length(asked)
        <4>1. \A k \in 1..Length(asked) : <<asked, k>> \in Position \X (1..18)
          BY <1>2, <2>2, SMTT(40)
        <4> QED
          BY <2>2, <3>3, <4>1 DEF Bytes
      <3>5. SubSeq(input, 1, Len(input)) = input /\ input' = <<>>
        BY <2>1, <2>2, <3>4
      <3>6. answer' = "ok"
        BY <2>1, <3>3, <3>4, <3>5
      <3> QED
        BY <1>2, <2>1, <2>2, <2>4, <3>3, <3>5, <3>6 DEF LineInv, AnswerTells
    <2> QED
      BY <1>2, <2>3, <2>4
  <1>8. CASE SerialTimeOut
    BY <1>2, <1>8 DEF SerialTimeOut, LineInv, AnswerTells
  <1>9. CASE UpdatePtuPointing
    BY <1>2, <1>9 DEF UpdatePtuPointing, unitVars, LineInv, AnswerTells
  <1>10. CASE TakePicture \/ ImageSaved \/ ImageNotSaved \/ NoImage \/ UpdatePicture
             \/ InitPtu \/ NoPtuServer
    <2>1. UNCHANGED ptuVars /\ {camera, camera'} \cap {"moving", "answered"} = {}
      BY <1>10 DEF TakePicture, Acts, ImageSaved, ImageNotSaved, InitPtu, NoPtuServer, NoImage,
       UpdatePicture
    <2> QED
      BY <1>2, <2>1 DEF LineInv, AnswerTells, ptuVars, unitVars
  <1>11. CASE UNCHANGED cameraVars
    BY <1>2, <1>11 DEF LineInv, AnswerTells, cameraVars, unitVars
  <1> QED
    BY <1>1, <1>5, <1>6, <1>7, <1>8, <1>9, <1>10, <1>11
      DEF CameraNext, CameraBegins, CameraEndsStep

-----------------------------------------------------------------------------
(* Actions. *)
LEMMA ActionsStep ==
    [ActionsNext]_actionsVars => [Next]_vars /\ [CameraNext]_cameraVars
  BY DEF ActionsNext, DockActions, CameraActions, actionsVars, vars, cameraVars

THEOREM ActionsInductive == ActionsSpec => [](IInv /\ CameraInv)
  <1>1. ActionsInit => IInv /\ CameraInv
    BY InitIInv, CameraInitInv DEF ActionsInit
  <1>2. IInv /\ [Next]_vars => IInv'
    BY NextTypeOK, NextLinesInv, NextNodesInv, NextTimeInv, NextFactsInv,
       NextExactInv DEF IInv
  <1>3. CameraInv /\ [CameraNext]_cameraVars => CameraInv'
    BY CameraTypeStep, AimStep, LineStep, FilesStep DEF CameraInv
  <1>4. IInv /\ CameraInv /\ [ActionsNext]_actionsVars => (IInv /\ CameraInv)'
    BY <1>2, <1>3, ActionsStep
  <1> QED
    BY <1>1, <1>4, PTL DEF ActionsSpec

(* What Docking promises holds with the actions of the camera in between.  *)
THEOREM DockingInActions ==
    ActionsSpec =>
        /\ [](TypeOK /\ NoDriveLeft /\ ClaimedOnlyAfterDrive /\ FirstTryUncut /\ FactsExclusive)
        /\ GoalKept
  <1>1. IInv /\ CameraInv => TypeOK /\ NoDriveLeft /\ ClaimedOnlyAfterDrive
                             /\ FirstTryUncut /\ FactsExclusive
    BY Consequences
  <1>2. (IInv /\ CameraInv) /\ [ActionsNext]_actionsVars => [~cut => goal' = goal]_goal
    BY GoalStep, ActionsStep
  <1> QED
    BY ActionsInductive, <1>1, <1>2, PTL DEF ActionsSpec, GoalKept

(* The variables of the unit and the camera keep their types; the sketch   *)
(* never writes beyond its buffer (ptuarduino.ino, lectura).               *)
THEOREM CameraTypeCorrect == ActionsSpec => []CameraTypeOK
  <1>1. IInv /\ CameraInv => CameraTypeOK
    BY DEF CameraInv
  <1> QED
    BY ActionsInductive, <1>1, PTL

(* The servos follow the problem, for all positions.                       *)
THEOREM UnitFollowsProblem == ActionsSpec => []PointsAsRecorded
  <1>1. IInv /\ CameraInv => PointsAsRecorded
    BY DEF CameraInv, AimInv, Target, PointsAsRecorded
  <1> QED
    BY ActionsInductive, <1>1, PTL

(* The answer of position() is true while the unit is in time and no frame *)
(* has been two shorter than an earlier one, for all positions.            *)
THEOREM AnswerIsTrue == ActionsSpec => []AnswerTells
  <1>1. IInv /\ CameraInv => AnswerTells
    BY DEF CameraInv, LineInv
  <1> QED
    BY ActionsInductive, <1>1, PTL

(* A picture of the problem keeps its file until a save has failed.        *)
THEOREM PicturesStay == ActionsSpec => []PicturesKept
  <1>1. ASSUME IInv, CameraInv, NEW p \in pictures
        PROVE  files[p.file] = p.shot \/ (unsaved /\ files[p.file] > p.shot)
    <2>1. /\ FilesInv /\ unsaved \in BOOLEAN
          /\ p.shot \in Nat /\ p.file \in 0..MaxShots /\ files \in [0..MaxShots -> 0..MaxShots]
      BY <1>1 DEF CameraInv, CameraTypeOK, PictureTypeOK, Picture
    <2>2. files[p.file] \in Nat /\ files[p.file] >= p.shot
          /\ (~unsaved => files[p.file] = p.shot)
      BY <1>1, <2>1, CameraAssumption DEF FilesInv
    <2> QED
      BY <2>1, <2>2
  <1>2. IInv /\ CameraInv => PicturesKept
    BY <1>1 DEF PicturesKept
  <1> QED
    BY ActionsInductive, <1>2, PTL
=============================================================================
