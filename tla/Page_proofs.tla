------------------------------ MODULE Page_proofs ------------------------------
(***************************************************************************)
(* Proofs about Page, for any number of commands and channels of any       *)
(* capacity: commands may be lost, but the firmware executes none twice    *)
(* and none after a later one.  Behind it is the order along the way of a  *)
(* command: all that is on the wire was given before the message that is   *)
(* being written, that before all that waits in the page, and everything   *)
(* on its way is newer than what the firmware executed last.               *)
(***************************************************************************)
EXTENDS Page, SequenceTheorems, TLAPS

USE PageAssumption, NoneAssumption DEF PageAssumption, NoneAssumption

Rising(s) == \A i, j \in 1..Len(s) : i < j => s[i].id < s[j].id
Coming(s) == \A i \in 1..Len(s) : ran < s[i].id /\ s[i].id <= issued

OnTheWay ==
    /\ Rising(wire) /\ Coming(wire)
    /\ Rising(tx) /\ Coming(tx)
    /\ writing # None => ran < writing.id /\ writing.id <= issued
    /\ writing # None => \A i \in 1..Len(wire) : wire[i].id < writing.id
    /\ writing # None => \A j \in 1..Len(tx) : writing.id < tx[j].id
    /\ \A i \in 1..Len(wire), j \in 1..Len(tx) : wire[i].id < tx[j].id

PageInv == TypeOK /\ ran <= issued /\ OnTheWay

-----------------------------------------------------------------------------
\* A command has a number, and is not None.
LEMMA CommandIsSomething ==
    ASSUME NEW message \in Command
    PROVE  message # None /\ message.id \in Nat
  BY DEF Command

\* The elements of a queue have numbers.
LEMMA NumbersOf ==
    ASSUME NEW s \in Seq(Command)
    PROVE  /\ Len(s) \in Nat
           /\ \A i \in 1..Len(s) : s[i] \in Command /\ s[i].id \in Nat
  BY CommandIsSomething, ElementOfSeq, LenProperties

LEMMA NothingLeft ==
    /\ <<>> \in Seq(Command) /\ <<>> \in Seq(Frame) /\ <<>> \in Seq(BOOLEAN)
    /\ Len(<<>>) = 0
  BY EmptySeq

\* Nothing new gets on its way, and what is written may be lost.
LEMMA NothingNew ==
    ASSUME PageInv, tx' = tx, issued' = issued, ran' = ran,
           writing' = writing \/ writing' = None,
           wire' = wire \/ wire' = <<>>
    PROVE  (ran <= issued /\ OnTheWay)'
  <1>1. CASE wire' = wire
    BY <1>1 DEF PageInv, OnTheWay, Rising, Coming
  <1>2. CASE wire' = <<>>
    <2>1. 1..Len(wire') = {}
      BY <1>2, NothingLeft
    <2>2. Rising(tx') /\ Coming(tx)'
      BY DEF PageInv, OnTheWay, Rising, Coming
    <2>3. writing' # None =>
              /\ ran' < writing'.id /\ writing'.id <= issued'
              /\ \A j \in 1..Len(tx') : writing'.id < tx'[j].id
      BY DEF PageInv, OnTheWay
    <2>4. Rising(wire') /\ Coming(wire)'
      BY <2>1 DEF Rising, Coming
    <2> QED BY <2>1, <2>2, <2>3, <2>4 DEF PageInv, OnTheWay, Rising, Coming
  <1> QED BY <1>1, <1>2

-----------------------------------------------------------------------------
\* A command of the parent is newer than all others.
LEMMA SendPreserves ==
    ASSUME PageInv, NEW kind \in Kind, Send(kind),
           shown' \in BOOLEAN, ota' \in OtaStatus,
           checkTimers' \in Nat, loadTimers' \in Nat
    PROVE  PageInv'
  <1> DEFINE given == [kind |-> kind, id |-> issued']
  <1>1. issued' = issued + 1 /\ issued' \in 1..MaxCommands /\ given \in Command
    BY DEF Send, PageInv, TypeOK, Command
  <1>2. /\ tx' \in Seq(Command) /\ Len(tx') = Len(tx) + 1
        /\ \A i \in 1..Len(tx) : tx'[i] = tx[i]
        /\ tx'[Len(tx) + 1].id = issued + 1
    BY <1>1, AppendProperties DEF Send, PageInv, TypeOK
  <1>3. UNCHANGED <<writing, wire, ran>>
    BY DEF Send, net, device
  <1>4. TypeOK'
    BY <1>1, <1>2 DEF Send, PageInv, TypeOK, net, device, updates
  <1>5. Len(tx) \in Nat /\ Len(wire) \in Nat /\ issued \in Nat /\ ran \in Nat
    BY NumbersOf DEF PageInv, TypeOK
  <1>6. /\ \A i \in 1..Len(tx) : tx[i].id \in Nat
        /\ \A i \in 1..Len(wire) : wire[i].id \in Nat
        /\ writing # None => writing.id \in Nat
    BY NumbersOf, CommandIsSomething DEF PageInv, TypeOK
  <1>7. \A i \in 1..Len(tx') : i \in 1..Len(tx) \/ i = Len(tx) + 1
    BY <1>2, <1>5
  <1>8. /\ \A i \in 1..Len(tx) :
               /\ tx'[i].id = tx[i].id
               /\ ran < tx[i].id /\ tx[i].id < issued + 1 /\ tx[i].id <= issued
        /\ \A i \in 1..Len(wire) :
               /\ ran < wire[i].id /\ wire[i].id < issued + 1
               /\ wire[i].id <= issued
    BY <1>2, <1>5, <1>6 DEF PageInv, OnTheWay, Coming
  <1>9. Rising(tx') /\ Coming(tx)'
    <2>1. Len(tx') = Len(tx) + 1 /\ tx'[Len(tx) + 1].id = issued + 1
      BY <1>2
    <2>2. \A i, j \in 1..Len(tx) : i < j => tx[i].id < tx[j].id
      BY DEF PageInv, OnTheWay, Rising
    <2>3. ASSUME NEW i \in 1..Len(tx'), NEW j \in 1..Len(tx'), i < j
          PROVE  tx'[i].id < tx'[j].id
      <3>1. i \in 1..Len(tx)
        BY <1>5, <2>1, <2>3
      <3>2. CASE j \in 1..Len(tx)
        BY <1>8, <2>2, <2>3, <3>1, <3>2
      <3>3. CASE j = Len(tx) + 1
        BY <1>8, <2>1, <3>1, <3>3
      <3> QED BY <1>7, <3>2, <3>3
    <2>4. ASSUME NEW i \in 1..Len(tx')
          PROVE  ran' < tx'[i].id /\ tx'[i].id <= issued'
      <3>1. CASE i \in 1..Len(tx)
        BY <1>1, <1>3, <1>5, <1>6, <1>8, <3>1
      <3>2. CASE i = Len(tx) + 1
        BY <1>1, <1>3, <1>5, <2>1, <3>2 DEF PageInv
      <3> QED BY <1>7, <3>1, <3>2
    <2> QED BY <2>3, <2>4 DEF Rising, Coming
  <1>10. Rising(wire') /\ Coming(wire)'
    <2>1. \A i \in 1..Len(wire) : wire[i].id <= issued'
      BY <1>1, <1>5, <1>6, <1>8
    <2> QED BY <1>3, <1>8, <2>1 DEF PageInv, OnTheWay, Rising, Coming
  <1>11. writing' # None =>
             /\ ran' < writing'.id /\ writing'.id <= issued'
             /\ \A i \in 1..Len(wire') : wire'[i].id < writing'.id
             /\ \A j \in 1..Len(tx') : writing'.id < tx'[j].id
    <2> SUFFICES ASSUME writing # None
                 PROVE  /\ ran < writing.id /\ writing.id <= issued'
                        /\ \A i \in 1..Len(wire) : wire[i].id < writing.id
                        /\ \A j \in 1..Len(tx') : writing.id < tx'[j].id
      BY <1>3
    <2>1. ran < writing.id /\ writing.id <= issued'
      BY <1>1, <1>5, <1>6 DEF PageInv, OnTheWay
    <2>2. \A j \in 1..Len(tx) : writing.id < tx'[j].id
      BY <1>8 DEF PageInv, OnTheWay
    <2>3. writing.id < tx'[Len(tx) + 1].id
      BY <1>2, <1>5, <1>6 DEF PageInv, OnTheWay
    <2> QED BY <1>7, <2>1, <2>2, <2>3 DEF PageInv, OnTheWay
  <1>12. \A i \in 1..Len(wire'), j \in 1..Len(tx') : wire'[i].id < tx'[j].id
    <2>1. \A i \in 1..Len(wire), j \in 1..Len(tx) : wire[i].id < tx'[j].id
      BY <1>8 DEF PageInv, OnTheWay
    <2>2. \A i \in 1..Len(wire) : wire[i].id < tx'[Len(tx) + 1].id
      BY <1>2, <1>8
    <2> QED BY <1>3, <1>7, <2>1, <2>2
  <1>13. ran' <= issued'
    BY <1>1, <1>3, <1>5 DEF PageInv
  <1> QED BY <1>4, <1>9, <1>10, <1>11, <1>12, <1>13
          DEF PageInv, OnTheWay, Rising

\* The oldest message of the page is the one to be written.
LEMMA TakePreserves == PageInv /\ Take => PageInv'
  <1> SUFFICES ASSUME PageInv, Take PROVE PageInv'
    OBVIOUS
  <1>1. UNCHANGED <<wire, issued, ran>> /\ writing' = Head(tx)
    BY DEF Take, net, device
  <1>2. /\ tx \in Seq(Command) /\ tx # <<>> /\ tx' = Tail(tx)
        /\ wire \in Seq(Command)
    BY DEF Take, PageInv, TypeOK
  <1>3. /\ writing' = tx[1] /\ writing' \in Command
        /\ tx' \in Seq(Command) /\ Len(tx') = Len(tx) - 1
        /\ \A i \in 1..Len(tx') : tx'[i] = tx[i + 1]
    BY <1>1, <1>2, HeadTailProperties
  <1>4. Len(tx) \in Nat \ {0} /\ Len(wire) \in Nat
    BY <1>2, EmptySeq, NumbersOf
  <1>5. \A i \in 1..Len(tx') : i + 1 \in 1..Len(tx) /\ 1 < i + 1
    BY <1>3, <1>4
  <1>6. 1 \in 1..Len(tx)
    BY <1>4
  <1>7. TypeOK'
    BY <1>3 DEF Take, PageInv, TypeOK, net, device, card, updates
  <1>8. Rising(tx')
    BY <1>3, <1>5 DEF PageInv, OnTheWay, Rising
  <1>9. Coming(tx)'
    BY <1>1, <1>3, <1>5 DEF PageInv, OnTheWay, Coming
  <1>10. Rising(wire') /\ Coming(wire)'
    BY <1>1 DEF PageInv, OnTheWay, Rising, Coming
  <1>11. /\ ran' < writing'.id /\ writing'.id <= issued'
         /\ \A i \in 1..Len(wire') : wire'[i].id < writing'.id
    BY <1>1, <1>3, <1>6 DEF PageInv, OnTheWay, Coming
  <1>12. \A j \in 1..Len(tx') : writing'.id < tx'[j].id
    BY <1>3, <1>5, <1>6 DEF PageInv, OnTheWay, Rising
  <1>13. \A i \in 1..Len(wire'), j \in 1..Len(tx') : wire'[i].id < tx'[j].id
    BY <1>1, <1>3, <1>5 DEF PageInv, OnTheWay
  <1>14. ran' <= issued'
    BY <1>1 DEF PageInv
  <1> QED BY <1>7, <1>8, <1>9, <1>10, <1>11, <1>12, <1>13, <1>14
          DEF PageInv, OnTheWay, Rising

\* The message goes behind all that is on the wire, or nowhere.
LEMMA WritePreserves == PageInv /\ Write => PageInv'
  <1> SUFFICES ASSUME PageInv, Write PROVE PageInv'
    OBVIOUS
  <1>1. /\ UNCHANGED <<tx, issued, ran>>
        /\ writing # None /\ writing' = None
    BY DEF Write, device
  <1>2. CASE ~ alive
    <2>1. wire' = wire
      BY <1>2 DEF Write
    <2>2. TypeOK'
      BY <1>1, <2>1 DEF Write, PageInv, TypeOK, device, card, updates
    <2> QED BY <1>1, <2>1, <2>2, NothingNew DEF PageInv
  <1>3. CASE alive
    <2>1. writing \in Command /\ wire \in Seq(Command) /\ tx \in Seq(Command)
      BY <1>1 DEF PageInv, TypeOK
    <2>2. /\ wire' \in Seq(Command) /\ Len(wire') = Len(wire) + 1
          /\ \A i \in 1..Len(wire) : wire'[i] = wire[i]
          /\ wire'[Len(wire) + 1] = writing
      BY <1>3, <2>1, AppendProperties DEF Write
    <2>3. TypeOK'
      BY <1>1, <2>2 DEF Write, PageInv, TypeOK, device, card, updates
    <2>4. Len(wire) \in Nat /\ Len(tx) \in Nat
      BY <2>1, NumbersOf
    <2>5. \A i \in 1..Len(wire') : i \in 1..Len(wire) \/ i = Len(wire) + 1
      BY <2>2, <2>4
    <2>6. \A i \in 1..Len(wire) : wire[i].id < writing.id
      BY <1>1 DEF PageInv, OnTheWay
    <2>7. Rising(wire')
      BY <2>2, <2>4, <2>5, <2>6 DEF PageInv, OnTheWay, Rising
    <2>8. Coming(wire)'
      BY <1>1, <2>2, <2>5 DEF PageInv, OnTheWay, Coming
    <2>9. Rising(tx') /\ Coming(tx)'
      BY <1>1 DEF PageInv, OnTheWay, Rising, Coming
    <2>10. \A i \in 1..Len(wire'), j \in 1..Len(tx') : wire'[i].id < tx'[j].id
      BY <1>1, <2>2, <2>5 DEF PageInv, OnTheWay
    <2>11. ran' <= issued'
      BY <1>1 DEF PageInv
    <2> QED BY <1>1, <2>3, <2>7, <2>8, <2>9, <2>10, <2>11
            DEF PageInv, OnTheWay, Rising
  <1> QED BY <1>2, <1>3

\* What is executed is older than all that is left.
LEMMA ReceivePreserves ==
    ASSUME PageInv, NEW n \in 1..Len(wire), Receive(n)
    PROVE  PageInv' /\ ran' > ran
  <1>1. UNCHANGED <<tx, writing, issued>> /\ ran' = Head(wire).id
    BY DEF Receive, page
  <1>2. wire \in Seq(Command) /\ tx \in Seq(Command)
    BY DEF PageInv, TypeOK
  <1>3. Len(wire) \in Nat \ {0} /\ n \in Nat /\ n <= Len(wire) /\ n # 0
    BY <1>2, NumbersOf
  <1>4. 1 \in 1..Len(wire) /\ wire # <<>>
    BY <1>3, NothingLeft
  <1>5. ran' = wire[1].id /\ wire[1] \in Command
    <2>1. Head(wire) = wire[1]
      BY <1>2, <1>4
    <2> QED BY <1>1, <1>2, <1>4, <2>1, NumbersOf
  <1>6. \A i \in n + 1..Len(wire) : wire[i] \in Command
    BY <1>2, <1>3, NumbersOf
  <1>7. /\ wire' \in Seq(Command) /\ Len(wire') = Len(wire) - n
        /\ \A i \in 1..Len(wire') : wire'[i] = wire[n + i]
    <2>1. wire' = SubSeq(wire, n + 1, Len(wire))
      BY DEF Receive, Unread
    <2>2. n + 1 \in Int /\ Len(wire) \in Int
      BY <1>3
    <2>3. /\ wire' \in Seq(Command)
          /\ Len(wire') = IF n + 1 <= Len(wire) THEN Len(wire) - (n + 1) + 1 ELSE 0
          /\ \A i \in 1..Len(wire) - (n + 1) + 1 : wire'[i] = wire[(n + 1) + i - 1]
      BY <1>6, <2>1, <2>2, SubSeqProperties
    <2>4. Len(wire') = Len(wire) - n
      BY <1>3, <2>3
    <2>5. \A i \in 1..Len(wire') : i \in 1..Len(wire) - (n + 1) + 1
                                   /\ (n + 1) + i - 1 = n + i
      BY <1>3, <2>4
    <2> QED BY <2>3, <2>4, <2>5
  <1>8. \A i \in 1..Len(wire') : n + i \in 1..Len(wire) /\ 1 < n + i
    BY <1>3, <1>7
  <1>9. TypeOK'
    <2>1. ran' \in 0..MaxCommands
      BY <1>5 DEF Command
    <2>2. loads' \in 0..LoadSize
      <3>1. loads \in 0..LoadSize
        BY DEF PageInv, TypeOK
      <3>2. loads' = loads \/ loads' \in loads..Least(loads + 1, LoadSize)
        BY DEF Receive
      <3> QED BY <3>1, <3>2 DEF Least
    <2>3. armed' \in BOOLEAN /\ at' \in {"accept", "wait", "check"}
      BY DEF Receive, PageInv, TypeOK
    <2> QED BY <1>7, <2>1, <2>2, <2>3
            DEF Receive, PageInv, TypeOK, page, card
  <1>10. Rising(wire')
    <2>1. \A i, j \in 1..Len(wire') : i < j => n + i < n + j
      BY <1>3, <1>7
    <2> QED BY <1>7, <1>8, <2>1 DEF PageInv, OnTheWay, Rising
  <1>11. Coming(wire)'
    BY <1>1, <1>4, <1>5, <1>7, <1>8 DEF PageInv, OnTheWay, Rising, Coming
  <1>12. Rising(tx') /\ Coming(tx)'
    BY <1>1, <1>4, <1>5 DEF PageInv, OnTheWay, Rising, Coming
  <1>13. writing' # None =>
             /\ ran' < writing'.id /\ writing'.id <= issued'
             /\ \A i \in 1..Len(wire') : wire'[i].id < writing'.id
             /\ \A j \in 1..Len(tx') : writing'.id < tx'[j].id
    BY <1>1, <1>4, <1>5, <1>7, <1>8 DEF PageInv, OnTheWay
  <1>14. \A i \in 1..Len(wire'), j \in 1..Len(tx') : wire'[i].id < tx'[j].id
    BY <1>1, <1>7, <1>8 DEF PageInv, OnTheWay
  <1>15. ran' <= issued' /\ ran' > ran
    BY <1>1, <1>4, <1>5 DEF PageInv, OnTheWay, Coming
  <1> QED BY <1>9, <1>10, <1>11, <1>12, <1>13, <1>14, <1>15
          DEF PageInv, OnTheWay, Rising

-----------------------------------------------------------------------------
\* What the firmware writes fits.
LEMMA WritingFrames ==
    ASSUME PageInv, NEW new \in Seq(Frame), Written(new)
    PROVE  frames' \in Seq(Frame) /\ Len(frames') <= FrameSize
  <1>1. frames \in Seq(Frame) /\ Len(frames) <= FrameSize
    BY DEF PageInv, TypeOK
  <1>2. CASE alive
    BY <1>1, <1>2, ConcatProperties DEF Written
  <1>3. CASE ~ alive
    BY <1>1, <1>3 DEF Written
  <1> QED BY <1>2, <1>3

\* The buttons.
LEMMA ButtonPreserves ==
    PageInv /\ (ArmToggle \/ OtaCheck \/ OtaDownload) => PageInv'
  <1>1. ASSUME PageInv, ArmToggle PROVE PageInv'
    <2>1. /\ shown' \in BOOLEAN /\ ota' \in OtaStatus
          /\ checkTimers' \in Nat /\ loadTimers' \in Nat
      BY <1>1 DEF ArmToggle, PageInv, TypeOK, card
    <2>2. PICK kind \in Kind : Send(kind)
      BY <1>1 DEF ArmToggle, Kind
    <2> QED BY <1>1, <2>1, <2>2, SendPreserves
  <1>2. ASSUME PageInv, OtaCheck PROVE PageInv'
    <2>1. /\ shown' \in BOOLEAN /\ ota' \in OtaStatus
          /\ checkTimers' \in Nat /\ loadTimers' \in Nat
      BY <1>2 DEF OtaCheck, PageInv, TypeOK, OtaStatus
    <2> QED BY <1>2, <2>1, SendPreserves DEF OtaCheck, Kind
  <1>3. ASSUME PageInv, OtaDownload PROVE PageInv'
    <2>1. /\ shown' \in BOOLEAN /\ ota' \in OtaStatus
          /\ checkTimers' \in Nat /\ loadTimers' \in Nat
      BY <1>3 DEF OtaDownload, PageInv, TypeOK, OtaStatus
    <2> QED BY <1>3, <2>1, SendPreserves DEF OtaDownload, Kind
  <1> QED BY <1>1, <1>2, <1>3

\* The timers and the socket of the page.
LEMMA PagePreserves ==
    PageInv /\ (CheckTimer \/ LoadTimer \/ Connect \/ Close \/ Read) => PageInv'
  <1>1. ASSUME PageInv, CheckTimer \/ LoadTimer \/ Connect PROVE PageInv'
    <2>1. UNCHANGED <<tx, writing, wire, issued, ran>>
      BY <1>1 DEF CheckTimer, LoadTimer, Connect, net, device
    <2>2. TypeOK'
      <3>1. CASE CheckTimer
        BY <1>1, <3>1
        DEF CheckTimer, PageInv, TypeOK, OtaStatus, net, device, updates
      <3>2. CASE LoadTimer
        BY <1>1, <3>2
        DEF LoadTimer, PageInv, TypeOK, OtaStatus, net, device, updates
      <3>3. CASE Connect
        BY <1>1, <3>3 DEF Connect, PageInv, TypeOK, card, net, device, updates
      <3> QED BY <1>1, <3>1, <3>2, <3>3
    <2> QED BY <1>1, <2>1, <2>2, NothingNew DEF PageInv
  <1>2. ASSUME PageInv, Close PROVE PageInv'
    <2>1. UNCHANGED <<tx, wire, issued, ran>> /\ writing' = None
      BY <1>2 DEF Close, device
    <2>2. frames' \in Seq(Frame) /\ Len(frames') <= FrameSize
      BY <1>2, NothingLeft DEF Close
    <2>3. TypeOK'
      BY <1>2, <2>1, <2>2 DEF Close, PageInv, TypeOK, card, device, updates
    <2> QED BY <1>2, <2>1, <2>3, NothingNew DEF PageInv
  <1>3. ASSUME PageInv, Read PROVE PageInv'
    <2>1. UNCHANGED <<tx, writing, wire, issued, ran>>
      BY <1>3 DEF Read, device
    <2>2. frames \in Seq(Frame) /\ frames # <<>> /\ frames' = Tail(frames)
      BY <1>3 DEF Read, PageInv, TypeOK
    <2>3. /\ Head(frames) \in Frame /\ frames' \in Seq(Frame)
          /\ Len(frames') = Len(frames) - 1
      BY <2>2, HeadTailProperties
    <2>4. Len(frames') <= FrameSize
      BY <1>3, <2>2, <2>3, LenProperties DEF PageInv, TypeOK
    <2>5. shown' \in BOOLEAN
      BY <1>3, <2>3 DEF Read, Armed, Frame, PageInv, TypeOK
    <2>6. ota' \in OtaStatus
      BY <1>3 DEF Read, OtaAnswer, PageInv, TypeOK, OtaStatus
    <2>7. TypeOK'
      BY <1>3, <2>1, <2>3, <2>4, <2>5, <2>6
      DEF Read, PageInv, TypeOK, device, updates
    <2> QED BY <1>3, <2>1, <2>7, NothingNew DEF PageInv
  <1> QED BY <1>1, <1>2, <1>3

\* The connection, and websocket_task but for the commands.
LEMMA SocketPreserves ==
    PageInv /\ (Handshake \/ Break \/ Leave \/ CheckAnswer \/ Broadcast) => PageInv'
  <1>1. ASSUME PageInv, Handshake PROVE PageInv'
    <2>1. UNCHANGED <<tx, writing, issued, ran>> /\ wire' = <<>>
      BY <1>1 DEF Handshake
    <2>2. TypeOK'
      BY <1>1, <2>1, NothingLeft DEF Handshake, PageInv, TypeOK, card, updates
    <2> QED BY <1>1, <2>1, <2>2, NothingNew DEF PageInv
  <1>2. ASSUME PageInv, Break PROVE PageInv'
    <2>1. UNCHANGED <<tx, writing, wire, issued, ran>>
      BY <1>2 DEF Break, page, device
    <2>2. TypeOK'
      BY <1>2 DEF Break, PageInv, TypeOK, page, card, device, updates
    <2> QED BY <1>2, <2>1, <2>2, NothingNew DEF PageInv
  <1>3. ASSUME PageInv, Leave PROVE PageInv'
    <2>1. UNCHANGED <<tx, writing, issued, ran>> /\ wire' = <<>>
      BY <1>3 DEF Leave, page
    <2>2. TypeOK'
      BY <1>3, <2>1, NothingLeft DEF Leave, PageInv, TypeOK, page, card, updates
    <2> QED BY <1>3, <2>1, <2>2, NothingNew DEF PageInv
  <1>4. ASSUME PageInv, CheckAnswer PROVE PageInv'
    <2>1. UNCHANGED <<tx, writing, wire, issued, ran>>
      BY <1>4 DEF CheckAnswer, page
    <2>2. PICK available \in BOOLEAN :
              Written(<<[kind |-> "ota_status", flag |-> available]>>)
      BY <1>4 DEF CheckAnswer
    <2>3. <<[kind |-> "ota_status", flag |-> available]>> \in Seq(Frame)
      BY DEF Frame
    <2>4. frames' \in Seq(Frame) /\ Len(frames') <= FrameSize
      BY <1>4, <2>2, <2>3, WritingFrames
    <2>5. TypeOK'
      BY <1>4, <2>4 DEF CheckAnswer, PageInv, TypeOK, page, card, updates
    <2> QED BY <1>4, <2>1, <2>5, NothingNew DEF PageInv
  <1>5. ASSUME PageInv, Broadcast PROVE PageInv'
    <2>1. UNCHANGED <<tx, writing, wire, issued, ran>>
      BY <1>5 DEF Broadcast, page
    <2> DEFINE done == IF outcomes = <<>> THEN <<>>
                       ELSE <<[kind |-> "ota_done", flag |-> Head(outcomes)]>>
               last == [kind |-> "telemetry", flag |-> telemetry]
    <2>2. outcomes \in Seq(BOOLEAN) /\ telemetry \in BOOLEAN
      BY <1>5 DEF PageInv, TypeOK
    <2>3. outcomes # <<>> =>
              /\ Head(outcomes) \in BOOLEAN /\ Tail(outcomes) \in Seq(BOOLEAN)
              /\ Len(Tail(outcomes)) = Len(outcomes) - 1
      BY <2>2, HeadTailProperties
    <2>4. done \in Seq(Frame) /\ last \in Frame
      <3>1. CASE outcomes = <<>>
        BY <2>2, <3>1, NothingLeft DEF Frame
      <3>2. CASE outcomes # <<>>
        <4>1. [kind |-> "ota_done", flag |-> Head(outcomes)] \in Frame
          BY <2>3, <3>2 DEF Frame
        <4> QED BY <2>2, <3>2, <4>1 DEF Frame
      <3> QED BY <3>1, <3>2
    <2>5. Append(done, last) \in Seq(Frame)
      BY <2>4, AppendProperties
    <2>6. frames' \in Seq(Frame) /\ Len(frames') <= FrameSize
      BY <1>5, <2>5, WritingFrames DEF Broadcast
    <2>7. outcomes' \in Seq(BOOLEAN) /\ Len(outcomes') <= OutcomeSize
      <3>1. Len(outcomes) \in Nat /\ Len(outcomes) <= OutcomeSize
        BY <1>5, <2>2, LenProperties DEF PageInv, TypeOK
      <3>2. CASE outcomes = <<>>
        <4>1. outcomes' = outcomes
          BY <1>5, <3>2 DEF Broadcast
        <4> QED BY <2>2, <3>1, <4>1
      <3>3. CASE outcomes # <<>>
        <4>1. outcomes' = Tail(outcomes)
          BY <1>5, <3>3 DEF Broadcast
        <4> QED BY <2>3, <3>1, <3>3, <4>1
      <3> QED BY <3>2, <3>3
    <2>8. TypeOK'
      BY <1>5, <2>6, <2>7 DEF Broadcast, PageInv, TypeOK, page, card
    <2> QED BY <1>5, <2>1, <2>8, NothingNew DEF PageInv
  <1> QED BY <1>1, <1>2, <1>3, <1>4, <1>5

\* The other tasks, and a restart.
LEMMA OthersPreserve ==
    PageInv /\ (Tick \/ LoadStart \/ LoadEnd \/ Reset) => PageInv'
  <1>1. ASSUME PageInv, Tick \/ LoadStart PROVE PageInv'
    <2>1. UNCHANGED <<tx, writing, wire, issued, ran>>
      BY <1>1 DEF Tick, LoadStart, page, net
    <2>2. TypeOK'
      <3>1. CASE Tick
        BY <1>1, <3>1 DEF Tick, PageInv, TypeOK, page, card, net, updates
      <3>2. CASE LoadStart
        BY <1>1, <3>2 DEF LoadStart, PageInv, TypeOK, page, card, net
      <3> QED BY <1>1, <3>1, <3>2
    <2> QED BY <1>1, <2>1, <2>2, NothingNew DEF PageInv
  <1>2. ASSUME PageInv, LoadEnd PROVE PageInv'
    <2>1. UNCHANGED <<tx, writing, wire, issued, ran>>
      BY <1>2 DEF LoadEnd, page, net
    <2>2. PICK success \in BOOLEAN : Reported(success)
      BY <1>2 DEF LoadEnd
    <2>3. outcomes \in Seq(BOOLEAN) /\ Len(outcomes) <= OutcomeSize
      BY <1>2 DEF PageInv, TypeOK
    <2>4. outcomes' \in Seq(BOOLEAN) /\ Len(outcomes') <= OutcomeSize
      BY <2>2, <2>3, LenProperties, AppendProperties DEF Reported
    <2>5. TypeOK'
      BY <1>2, <2>4 DEF LoadEnd, PageInv, TypeOK, page, card, net
    <2> QED BY <1>2, <2>1, <2>5, NothingNew DEF PageInv
  <1>3. ASSUME PageInv, Reset PROVE PageInv'
    <2>1. UNCHANGED <<tx, writing, issued, ran>> /\ wire' = <<>>
      BY <1>3 DEF Reset, page
    <2>2. TypeOK'
      <3>1. wire' \in Seq(Command) /\ outcomes' \in Seq(BOOLEAN)
        BY <1>3, <2>1, NothingLeft DEF Reset
      <3>2. Len(outcomes') <= OutcomeSize
        <4>1. outcomes' = <<>>
          BY <1>3 DEF Reset
        <4>2. Len(outcomes') = 0
          BY <4>1, NothingLeft, Zenon
        <4> QED BY <4>2
      <3>3. /\ UNCHANGED <<page, frames, ran>>
            /\ alive' \in BOOLEAN /\ ap' \in BOOLEAN /\ at' = "accept"
            /\ armed' \in BOOLEAN /\ telemetry' \in BOOLEAN
            /\ loads' = 0 /\ loading' \in BOOLEAN
        BY <1>3 DEF Reset
      <3> QED BY <1>3, <3>1, <3>2, <3>3 DEF PageInv, TypeOK, page, card
    <2> QED BY <1>3, <2>1, <2>2, NothingNew DEF PageInv
  <1> QED BY <1>1, <1>2, <1>3

-----------------------------------------------------------------------------
LEMMA PageInit == Init => PageInv
  <1> SUFFICES ASSUME Init PROVE PageInv
    OBVIOUS
  <1>1. tx = <<>> /\ wire = <<>> /\ writing = None /\ ran = 0 /\ issued = 0
    BY DEF Init
  <1>2. TypeOK
    <2>1. /\ tx \in Seq(Command) /\ wire \in Seq(Command)
          /\ frames \in Seq(Frame) /\ outcomes \in Seq(BOOLEAN)
      BY NothingLeft DEF Init
    <2>2. frames = <<>> /\ outcomes = <<>>
      BY DEF Init
    <2>3. Len(frames) = 0 /\ Len(outcomes) = 0
      BY <2>2, NothingLeft, Zenon
    <2>4. /\ link = "closed" /\ shown \in BOOLEAN /\ ota = "Idle"
          /\ checkTimers = 0 /\ loadTimers = 0 /\ alive \in BOOLEAN
          /\ ap \in BOOLEAN /\ at = "accept" /\ armed \in BOOLEAN
          /\ telemetry \in BOOLEAN /\ loads = 0 /\ loading \in BOOLEAN
      BY Zenon DEF Init
    <2>5. ran \in 0..MaxCommands /\ issued \in 0..MaxCommands
      BY DEF Init
    <2>6. writing \in Command \cup {None}
      BY <1>1, Zenon
    <2>7. Len(frames) <= FrameSize /\ Len(outcomes) <= OutcomeSize
      BY <2>3
    <2> QED BY <2>1, <2>4, <2>5, <2>6, <2>7 DEF TypeOK, OtaStatus
  <1>3. 1..Len(tx) = {} /\ 1..Len(wire) = {}
    BY <1>1, NothingLeft
  <1>4. ran <= issued
    BY <1>1
  <1> QED BY <1>1, <1>2, <1>3, <1>4 DEF PageInv, OnTheWay, Rising, Coming

\* A step keeps the order, and a command that is executed is newer than the last.
LEMMA PageNext ==
    ASSUME PageInv, [Next]_vars
    PROVE  PageInv' /\ (Execute => ran' > ran)
  <1>0. Execute => ran' > ran
    BY ReceivePreserves DEF Execute
  <1> SUFFICES PageInv'
    BY <1>0
  <1>1. CASE ArmToggle \/ OtaCheck \/ OtaDownload
    BY <1>1, ButtonPreserves
  <1>2. CASE CheckTimer \/ LoadTimer \/ Connect \/ Close \/ Read
    BY <1>2, PagePreserves
  <1>3. CASE Take
    BY <1>3, TakePreserves
  <1>4. CASE Write
    BY <1>4, WritePreserves
  <1>5. CASE Handshake \/ Break \/ Leave \/ CheckAnswer \/ Broadcast
    BY <1>5, SocketPreserves
  <1>6. CASE Execute
    BY <1>6, ReceivePreserves DEF Execute
  <1>7. CASE Tick \/ LoadStart \/ LoadEnd \/ Reset
    BY <1>7, OthersPreserve
  <1>8. CASE UNCHANGED vars
    <2>1. UNCHANGED <<tx, writing, wire, issued, ran>>
      BY <1>8 DEF vars, page, net, device
    <2>2. TypeOK'
      BY <1>8 DEF PageInv, TypeOK, vars, page, card, net, device, updates
    <2> QED BY <2>1, <2>2, NothingNew DEF PageInv
  <1> QED BY <1>1, <1>2, <1>3, <1>4, <1>5, <1>6, <1>7, <1>8
          DEF Next, Loop, Task, Socket

\* Commands keep their order from the parent's finger to the firmware, whatever
\* breaks in between.
THEOREM OrderKept == Spec => []PageInv
  <1>1. PageInv /\ [Next]_vars => PageInv'
    BY PageNext
  <1> QED BY <1>1, PageInit, PTL DEF Spec

\* The page's signals and queues and the firmware's channels stay in their
\* ranges, the connection's buffer included.
THEOREM TypeCorrect == Spec => []TypeOK
  <1>1. PageInv => TypeOK
    BY DEF PageInv
  <1> QED BY <1>1, OrderKept, PTL

\* Each command that is executed is newer than the one executed before it: none is
\* executed twice, not even twice in a row, and none after a later one.
THEOREM OrderCorrect == Spec => InOrder
  <1>1. PageInv /\ [Next]_vars => [Execute => ran' > ran]_vars
    BY PageNext
  <1> QED BY <1>1, OrderKept, PTL DEF Spec, InOrder

-----------------------------------------------------------------------------
\* While the update card is busy, a timer that ends it is running: of this request
\* or of an earlier one, since an answer leaves the timers alone.
Timed == /\ ota = "Checking" => checkTimers > 0
         /\ ota = "Downloading" => loadTimers > 0

\* Why the card never waits for an answer that got lost (NeverStuck): no order of
\* presses, answers and timers, of this request and earlier ones, leaves it busy
\* without a timer, for any number of commands.
THEOREM BusyTimed == Spec => []Timed
  <1>1. Init => Timed
    BY DEF Init, Timed
  <1>2. TypeOK /\ Timed /\ [Next]_vars => Timed'
    <2> SUFFICES ASSUME TypeOK, Timed, [Next]_vars PROVE Timed'
      OBVIOUS
    <2> checkTimers \in Nat /\ loadTimers \in Nat
      BY DEF TypeOK
    <2>1. CASE UNCHANGED card
      BY <2>1 DEF Timed, card
    <2>2. CASE OtaCheck
      BY <2>2 DEF OtaCheck, Timed
    <2>3. CASE OtaDownload
      BY <2>3 DEF OtaDownload, Timed
    <2>4. CASE CheckTimer
      BY <2>4 DEF CheckTimer, Timed
    <2>5. CASE LoadTimer
      BY <2>5 DEF LoadTimer, Timed
    <2>6. CASE Read
      <3>1. UNCHANGED <<checkTimers, loadTimers>>
        BY <2>6 DEF Read
      <3>2. ota' \in {"Available", "UpToDate", "Done", "Error", ota}
        BY <2>6 DEF Read, OtaAnswer
      <3> QED BY <3>1, <3>2 DEF Timed
    <2>7. CASE ArmToggle \/ Connect \/ Take \/ Write \/ Close
               \/ Handshake \/ Break \/ Task \/ Broadcast
               \/ Tick \/ LoadStart \/ LoadEnd \/ Reset \/ UNCHANGED vars
      <3>1. UNCHANGED card
        BY <2>7 DEF ArmToggle, Connect, Take, Write, Close, Handshake, Break,
                    Task, Socket, Execute, Receive, CheckAnswer, Leave, Broadcast, Tick,
                    LoadStart, LoadEnd, Reset, page, vars
      <3> QED BY <2>1, <3>1
    <2> QED BY <2>2, <2>3, <2>4, <2>5, <2>6, <2>7 DEF Next, Loop
  <1> QED BY <1>1, <1>2, TypeCorrect, PTL DEF Spec
================================================================================
