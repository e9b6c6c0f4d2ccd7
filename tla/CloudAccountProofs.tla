------------------------- MODULE CloudAccountProofs -------------------------
(***************************************************************************)
(* The account's limit is kept by both loops together, whatever the pauses, *)
(* the number of retries and the moods of the cloud.  The inductive         *)
(* invariant, CloudInv, says where the slot is and what the pause covers.   *)
(***************************************************************************)
EXTENDS CloudAccount, TLAPS

-----------------------------------------------------------------------------
(* The invariant *)

Places  == {"slot", "rest", "request", "release", "return", "sleep", "stopped", "held"}
Holding == {"rest", "request", "release"}
Answer  == [kind : {"ok", "garbled", "limited", "failed"}, version : 0 .. MaxVersion]
Caller  == [pc : Places, ask : {"list", "rooms", "status"}, attempt : 0 .. Retries,
            answer : Answer, list : Answer]
Store   == [names : [list : 0 .. MaxVersion, rooms : 0 .. MaxVersion], rooms : 0 .. MaxVersion,
            up : BOOLEAN, loaded : BOOLEAN]
Source  == [up : BOOLEAN, told : 0 .. MaxVersion]
Cloud   == [version : 0 .. MaxVersion, mood : {"good", "limits", "down", "garbled"}, upsets : Nat]

Types ==
    /\ caller \in [Callers -> Caller]
    /\ slot \in Callers \cup {Free}
    /\ rest \in 0 .. Pause /\ due \in 0 .. Pause
    /\ store \in Store /\ source \in Source /\ cloud \in Cloud
    /\ wait \in {"names", "over", "started"} /\ done \in BOOLEAN

\* The slot is with the loop whose request it is.
SlotHeld == \A c \in Callers : caller[c].pc \in Holding <=> slot = c

\* What the last response called for is covered: by the pause once the slot is released, and
\* until then by what the release is about to set.
Covered ==
    /\ (\A c \in Callers : caller[c].pc # "release") => due <= rest
    /\ \A c \in Callers : caller[c].pc = "release" => due <= OwedAfter(caller[c].answer)

\* Until discovery begins its loop is held, so that its first poll interrupts no request.
HeldBack == wait # "started" => caller["status"].pc = "held"

CloudInv == Types /\ SlotHeld /\ Covered /\ HeldBack

-----------------------------------------------------------------------------
(* Operators *)

LEMMA ErrorType ==
    \A kind \in {"garbled", "limited", "failed"} : Error(kind) \in Answer
  BY CloudAssumption DEF Error, Answer

LEMMA NoAnswerType == NoAnswer \in Answer
  BY ErrorType DEF NoAnswer

LEMMA OwedType == \A answer : OwedAfter(answer) \in 0 .. Pause
  BY CloudAssumption DEF OwedAfter

LEMMA AtType ==
    ASSUME NEW pc \in Places, NEW ask \in {"list", "rooms", "status"}, NEW list \in Answer
    PROVE  At(pc, ask, list) \in Caller
  BY NoAnswerType, CloudAssumption DEF At, Caller

LEMMA AnswersType ==
    ASSUME Types, NEW answer \in Answers
    PROVE  answer \in Answer
  <1>1. CASE answer = NoAnswer
    BY <1>1, NoAnswerType
  <1>2. CASE answer # NoAnswer
    BY <1>2, ErrorType DEF Answers, Types, Cloud, Answer
  <1> QED BY <1>1, <1>2

-----------------------------------------------------------------------------
(* The slot and the pause under the steps of post *)

\* A step of one loop that leaves slot and pause alone, and neither takes nor holds the slot.
\* A loop moves on, and the other stays where it is.
LEMMA OneMoves ==
    ASSUME CloudInv, NEW c \in Callers, NEW entry \in Caller,
           caller' = [caller EXCEPT ![c] = entry]
    PROVE  /\ caller' \in [Callers -> Caller]
           /\ \A o \in Callers : caller'[o] = IF o = c THEN entry ELSE caller[o]
  BY DEF CloudInv, Types

\* Only one loop at a time is in its request.
LEMMA Alone ==
    ASSUME CloudInv, NEW c \in Callers, caller[c].pc \in Holding
    PROVE  slot = c /\ \A o \in Callers \ {c} : caller[o].pc \notin Holding
  BY DEF CloudInv, SlotHeld

\* A loop that is not in a request moves on without one: neither slot nor pause is touched.
LEMMA OutsideRequest ==
    ASSUME CloudInv, NEW c \in Callers, NEW entry \in Caller,
           caller' = [caller EXCEPT ![c] = entry],
           caller[c].pc \notin Holding, entry.pc \notin Holding,
           slot' = slot, rest' = rest, due' = due
    PROVE  caller' \in [Callers -> Caller] /\ SlotHeld' /\ Covered'
  <1>1. /\ caller' \in [Callers -> Caller]
        /\ \A o \in Callers : caller'[o] = IF o = c THEN entry ELSE caller[o]
    BY OneMoves
  <1>2. SlotHeld'
    BY <1>1 DEF CloudInv, SlotHeld
  <1>3. Covered'
    BY <1>1 DEF CloudInv, Covered, Holding
  <1> QED BY <1>1, <1>2, <1>3

\* A loop that moves is not held back, and one that moves does not hold back the other.
LEMMA StaysHeldBack ==
    ASSUME CloudInv, NEW c \in Callers, NEW entry \in Caller,
           caller' = [caller EXCEPT ![c] = entry], caller[c].pc # "held", wait' = wait
    PROVE  HeldBack'
  <1>1. \A o \in Callers : caller'[o] = IF o = c THEN entry ELSE caller[o]
    BY OneMoves
  <1> QED BY <1>1 DEF CloudInv, HeldBack, Callers

LEMMA TakeSlotKeeps ==
    ASSUME CloudInv, NEW c \in Callers, TakeSlot(c)
    PROVE  CloudInv'
  <1> DEFINE entry == [caller[c] EXCEPT !.pc = "rest"]
  <1>1. entry \in Caller /\ caller' = [caller EXCEPT ![c] = entry]
    BY DEF CloudInv, Types, TakeSlot, Goto, Caller, Places
  <1> HIDE DEF entry
  <1>2. /\ caller' \in [Callers -> Caller]
        /\ \A o \in Callers : caller'[o] = IF o = c THEN entry ELSE caller[o]
    BY <1>1, OneMoves
  <1>3. Types'
    BY <1>2 DEF CloudInv, Types, TakeSlot
  <1>4. entry.pc = "rest" /\ caller[c].pc = "slot"
    BY DEF entry, CloudInv, Types, Caller, TakeSlot
  <1>5. SlotHeld'
    BY <1>2, <1>4 DEF CloudInv, SlotHeld, TakeSlot, Holding, Callers, Free
  <1>6. Covered'
    BY <1>2, <1>4 DEF CloudInv, Covered, TakeSlot
  <1>held. HeldBack'
    BY <1>1, <1>4, StaysHeldBack DEF TakeSlot
  <1> QED BY <1>3, <1>5, <1>6, <1>held DEF CloudInv

LEMMA GiveUpSlotKeeps ==
    ASSUME CloudInv, NEW c \in Callers, GiveUpSlot(c)
    PROVE  CloudInv'
  <1> DEFINE entry == [caller[c] EXCEPT !.pc = "return", !.answer = NoAnswer]
  <1>1. entry \in Caller /\ caller' = [caller EXCEPT ![c] = entry]
    BY NoAnswerType DEF CloudInv, Types, GiveUpSlot, Caller, Places
  <1>2. entry.pc = "return" /\ caller[c].pc = "slot"
    BY DEF CloudInv, Types, Caller, GiveUpSlot
  <1> HIDE DEF entry
  <1>3. caller' \in [Callers -> Caller] /\ SlotHeld' /\ Covered'
    BY <1>1, <1>2, OutsideRequest DEF GiveUpSlot, Holding
  <1>held. HeldBack'
    BY <1>1, <1>2, StaysHeldBack DEF GiveUpSlot
  <1> QED BY <1>3, <1>held DEF CloudInv, Types, GiveUpSlot

LEMMA SendKeeps ==
    ASSUME CloudInv, NEW c \in Callers, Send(c)
    PROVE  CloudInv'
  <1> DEFINE entry == [caller[c] EXCEPT !.pc = "request"]
  <1>1. entry \in Caller /\ caller' = [caller EXCEPT ![c] = entry]
    BY DEF CloudInv, Types, Send, Goto, Caller, Places
  <1>2. entry.pc = "request" /\ caller[c].pc = "rest"
    BY DEF CloudInv, Types, Caller, Send
  <1> HIDE DEF entry
  <1>3. /\ caller' \in [Callers -> Caller]
        /\ \A o \in Callers : caller'[o] = IF o = c THEN entry ELSE caller[o]
    BY <1>1, OneMoves
  <1>4. Types'
    BY <1>3 DEF CloudInv, Types, Send
  <1>5. SlotHeld'
    BY <1>2, <1>3 DEF CloudInv, SlotHeld, Send, Holding
  <1>6. Covered'
    BY <1>2, <1>3 DEF CloudInv, Covered, Send
  <1>held. HeldBack'
    BY <1>1, <1>2, StaysHeldBack DEF Send
  <1> QED BY <1>4, <1>5, <1>6, <1>held DEF CloudInv

LEMMA CancelRestKeeps ==
    ASSUME CloudInv, NEW c \in Callers, CancelRest(c)
    PROVE  CloudInv'
  <1> DEFINE entry == [caller[c] EXCEPT !.pc = "return", !.answer = NoAnswer]
  <1>1. entry \in Caller /\ caller' = [caller EXCEPT ![c] = entry]
    BY NoAnswerType DEF CloudInv, Types, CancelRest, Caller, Places
  <1>2. entry.pc = "return" /\ caller[c].pc = "rest"
    BY DEF CloudInv, Types, Caller, CancelRest
  <1> HIDE DEF entry
  <1>3. /\ caller' \in [Callers -> Caller]
        /\ \A o \in Callers : caller'[o] = IF o = c THEN entry ELSE caller[o]
    BY <1>1, OneMoves
  <1>4. Types'
    BY <1>3 DEF CloudInv, Types, CancelRest
  <1>5. \A o \in Callers \ {c} : caller[o].pc \notin Holding
    BY <1>2, Alone DEF Holding
  <1>6. SlotHeld'
    BY <1>2, <1>3, <1>5 DEF SlotHeld, CancelRest, Holding, Callers, Free
  <1>7. Covered'
    BY <1>2, <1>3 DEF CloudInv, Covered, CancelRest
  <1>held. HeldBack'
    BY <1>1, <1>2, StaysHeldBack DEF CancelRest
  <1> QED BY <1>4, <1>6, <1>7, <1>held DEF CloudInv

\* The response fixes the pause that is owed; the release, still to come, will set it.
LEMMA RespondKeeps ==
    ASSUME CloudInv, NEW c \in Callers, Respond(c)
    PROVE  CloudInv'
  <1>1. PICK answer \in Answers :
            /\ caller' = [caller EXCEPT ![c].pc = "release", ![c].answer = answer]
            /\ due' = OwedAfter(answer)
    BY DEF Respond
  <1>2. answer \in Answer
    BY <1>1, AnswersType DEF CloudInv
  <1> DEFINE entry == [caller[c] EXCEPT !.pc = "release", !.answer = answer]
  <1>3. entry \in Caller /\ caller' = [caller EXCEPT ![c] = entry]
    BY <1>1, <1>2 DEF CloudInv, Types, Caller, Places
  <1>4. entry.pc = "release" /\ entry.answer = answer /\ caller[c].pc = "request"
    BY DEF CloudInv, Types, Caller, Respond
  <1> HIDE DEF entry
  <1>5. /\ caller' \in [Callers -> Caller]
        /\ \A o \in Callers : caller'[o] = IF o = c THEN entry ELSE caller[o]
    BY <1>3, OneMoves
  <1>6. Types'
    BY <1>1, <1>5, OwedType DEF CloudInv, Types, Respond
  <1>7. slot = c /\ \A o \in Callers \ {c} : caller[o].pc \notin Holding
    BY <1>4, Alone DEF Holding
  <1>8. SlotHeld'
    BY <1>4, <1>5, <1>7 DEF CloudInv, SlotHeld, Respond, Holding
  <1>9. due' <= OwedAfter(answer)
    BY <1>1, OwedType
  <1>10. Covered'
    BY <1>4, <1>5, <1>7, <1>9 DEF Covered, Holding
  <1>held. HeldBack'
    BY <1>3, <1>4, StaysHeldBack DEF Respond
  <1> QED BY <1>6, <1>8, <1>10, <1>held DEF CloudInv

\* The release sets the pause that was owed, so what is left of it stays covered.
LEMMA ReleaseKeeps ==
    ASSUME CloudInv, NEW c \in Callers, Release(c)
    PROVE  CloudInv'
  <1> DEFINE entry == IF caller[c].answer.kind = "limited" /\ caller[c].attempt < Retries
                      THEN [caller[c] EXCEPT !.pc = "slot", !.attempt = @ + 1, !.answer = NoAnswer]
                      ELSE [caller[c] EXCEPT !.pc = "return", !.attempt = 0]
  <1>1. entry \in Caller
    <2>1. caller[c] \in Caller
      BY DEF CloudInv, Types
    <2>2. CASE caller[c].answer.kind = "limited" /\ caller[c].attempt < Retries
      <3>1. caller[c].attempt + 1 \in 0 .. Retries
        BY <2>1, <2>2, CloudAssumption DEF Caller
      <3>2. entry = [caller[c] EXCEPT !.pc = "slot", !.attempt = @ + 1, !.answer = NoAnswer]
        BY <2>2
      <3> QED BY <2>1, <3>1, <3>2, NoAnswerType DEF Caller, Places
    <2>3. CASE ~(caller[c].answer.kind = "limited" /\ caller[c].attempt < Retries)
      <3>1. 0 \in 0 .. Retries
        BY CloudAssumption
      <3>2. entry = [caller[c] EXCEPT !.pc = "return", !.attempt = 0]
        BY <2>3
      <3> QED BY <2>1, <3>1, <3>2 DEF Caller, Places
    <2> QED BY <2>2, <2>3
  <1>2. caller' = [caller EXCEPT ![c] = entry]
    BY DEF CloudInv, Types, Release, AfterRelease
  <1>3. entry.pc \in {"slot", "return"} /\ caller[c].pc = "release"
    BY DEF CloudInv, Types, Caller, Release
  <1> HIDE DEF entry
  <1>4. /\ caller' \in [Callers -> Caller]
        /\ \A o \in Callers : caller'[o] = IF o = c THEN entry ELSE caller[o]
    BY <1>1, <1>2, OneMoves
  <1>5. Types'
    BY <1>4, OwedType DEF CloudInv, Types, Release, AfterRelease
  <1>6. \A o \in Callers \ {c} : caller[o].pc \notin Holding
    BY <1>3, Alone DEF Holding
  <1>7. SlotHeld'
    BY <1>3, <1>4, <1>6 DEF SlotHeld, Release, AfterRelease, Holding, Callers, Free
  <1>8. due' <= rest'
    BY <1>3 DEF CloudInv, Covered, Release, AfterRelease
  <1>9. Covered'
    BY <1>3, <1>4, <1>6, <1>8 DEF Covered, Holding
  <1>held. HeldBack'
    BY <1>1, <1>2, <1>3, StaysHeldBack DEF Release, AfterRelease
  <1> QED BY <1>5, <1>7, <1>9, <1>held DEF CloudInv

LEMMA PostKeeps ==
    ASSUME CloudInv, NEW c \in Callers, Post(c)
    PROVE  CloudInv'
  BY TakeSlotKeeps, GiveUpSlotKeeps, SendKeeps, CancelRestKeeps, RespondKeeps, ReleaseKeeps DEF Post

-----------------------------------------------------------------------------
(* The steps between requests *)

LEMMA ListReturnsKeeps ==
    ASSUME CloudInv, ListReturns
    PROVE  CloudInv'
  <1> DEFINE entry == At("slot", "rooms", caller["names"].answer)
  <1>1. entry \in Caller /\ entry.pc = "slot"
    BY AtType DEF CloudInv, Types, Caller, Places, Callers, At
  <1> HIDE DEF entry
  <1>2. caller' \in [Callers -> Caller] /\ SlotHeld' /\ Covered'
    BY <1>1, OutsideRequest DEF ListReturns, Returned, Holding, Callers, entry
  <1>held. HeldBack'
    BY <1>1, StaysHeldBack DEF ListReturns, Returned, Callers, entry
  <1> QED BY <1>2, <1>held DEF CloudInv, Types, ListReturns

\* A refresh ends with whatever came of the rooms.
LEMMA RefreshKeeps ==
    ASSUME CloudInv, caller["names"].pc = "return",
           NEW list \in Answer, NEW rooms \in 0 .. MaxVersion, RefreshEnds(list, rooms)
    PROVE  CloudInv'
  <1> DEFINE entry == At("sleep", caller["names"].ask, NoAnswer)
  <1>1. entry \in Caller /\ entry.pc = "sleep"
    BY AtType, NoAnswerType DEF CloudInv, Types, Caller, Places, Callers, At
  <1>2. caller' = [caller EXCEPT !["names"] = entry]
    BY DEF RefreshEnds, Rest
  <1> HIDE DEF entry
  <1>3. caller' \in [Callers -> Caller] /\ SlotHeld' /\ Covered'
    BY <1>1, <1>2, OutsideRequest DEF RefreshEnds, Holding, Callers
  <1>4. store' \in Store
    BY DEF CloudInv, Types, RefreshEnds, Store, Answer
  <1>held. HeldBack'
    BY <1>1, <1>2, StaysHeldBack DEF RefreshEnds, Callers
  <1> QED BY <1>3, <1>4, <1>held DEF CloudInv, Types, RefreshEnds

LEMMA ListFailsKeeps ==
    ASSUME CloudInv, ListFails
    PROVE  CloudInv'
  <1>1. caller["names"].answer \in Answer /\ store.rooms \in 0 .. MaxVersion
    BY DEF CloudInv, Types, Callers, Caller, Store
  <1> QED BY <1>1, RefreshKeeps DEF ListFails, Returned

LEMMA RoomsReturnKeeps ==
    ASSUME CloudInv, RoomsReturn
    PROVE  CloudInv'
  <1> DEFINE answer == caller["names"].answer
             rooms == IF answer.kind \in {"ok", "garbled"} THEN answer.version ELSE store.rooms
  <1>1. caller["names"].list \in Answer /\ rooms \in 0 .. MaxVersion
    BY DEF CloudInv, Types, Callers, Caller, Store, Answer
  <1>2. caller["names"].pc = "return" /\ RefreshEnds(caller["names"].list, rooms)
    BY DEF RoomsReturn, Returned
  <1> QED BY <1>1, <1>2, RefreshKeeps

\* A loop begins to wait for a request, to sleep or to stop.
LEMMA GoesOn ==
    ASSUME CloudInv, NEW c \in Callers, caller[c].pc \notin Holding,
           NEW pc \in {"slot", "sleep", "stopped"}, NEW ask \in {"list", "rooms", "status"},
           caller' = [caller EXCEPT ![c] = At(pc, ask, NoAnswer)],
           slot' = slot, rest' = rest, due' = due
    PROVE  caller' \in [Callers -> Caller] /\ SlotHeld' /\ Covered'
  <1> DEFINE entry == At(pc, ask, NoAnswer)
  <1>1. entry \in Caller /\ entry.pc = pc
    BY AtType, NoAnswerType DEF Places, At
  <1> HIDE DEF entry
  <1>2. caller' = [caller EXCEPT ![c] = entry]
    BY DEF entry
  <1> QED BY <1>1, <1>2, OutsideRequest DEF Holding

LEMMA StatusReturnsKeeps ==
    ASSUME CloudInv, StatusReturns
    PROVE  CloudInv'
  <1>1. caller["status"].ask \in {"list", "rooms", "status"} /\ caller["status"].answer \in Answer
    BY DEF CloudInv, Types, Callers, Caller
  <1>2. caller' \in [Callers -> Caller] /\ SlotHeld' /\ Covered'
    BY <1>1, GoesOn DEF StatusReturns, Returned, Rest, Holding, Callers
  <1>3. source' \in Source
    BY <1>1 DEF CloudInv, Types, StatusReturns, Source, Answer
  <1>held. HeldBack'
    BY <1>1, AtType, NoAnswerType, StaysHeldBack DEF StatusReturns, Returned, Rest, Callers, Places
  <1> QED BY <1>2, <1>3, <1>held DEF CloudInv, Types, StatusReturns

LEMMA StatusCutKeeps ==
    ASSUME CloudInv, StatusCut
    PROVE  CloudInv'
  <1>1. caller["status"].ask \in {"list", "rooms", "status"}
    BY DEF CloudInv, Types, Callers, Caller
  <1>2. caller' \in [Callers -> Caller] /\ SlotHeld' /\ Covered'
    BY <1>1, GoesOn DEF StatusCut, Returned, Rest, Holding, Callers
  <1>held. HeldBack'
    BY <1>1, AtType, NoAnswerType, StaysHeldBack DEF StatusCut, Returned, Rest, Callers, Places
  <1> QED BY <1>2, <1>held DEF CloudInv, Types, StatusCut

LEMMA WakeKeeps ==
    ASSUME CloudInv, NEW c \in Callers, Wake(c)
    PROVE  CloudInv'
  <1>1. caller' \in [Callers -> Caller] /\ SlotHeld' /\ Covered'
    BY GoesOn DEF Wake, Ask, Holding
  <1>held. HeldBack'
    BY AtType, NoAnswerType, StaysHeldBack DEF Wake, Ask, Places
  <1> QED BY <1>1, <1>held DEF CloudInv, Types, Wake

LEMMA StopKeeps ==
    ASSUME CloudInv, NEW c \in Callers, Stop(c)
    PROVE  CloudInv'
  <1> DEFINE entry == [caller[c] EXCEPT !.pc = "stopped"]
  <1>1. entry \in Caller /\ caller' = [caller EXCEPT ![c] = entry]
    BY DEF CloudInv, Types, Stop, Goto, Caller, Places
  <1>2. entry.pc = "stopped"
    BY DEF CloudInv, Types, Caller
  <1> HIDE DEF entry
  <1>3. caller' \in [Callers -> Caller] /\ SlotHeld' /\ Covered'
    BY <1>1, <1>2, OutsideRequest DEF Stop, Holding
  <1>held. HeldBack'
    BY <1>1, StaysHeldBack DEF Stop
  <1> QED BY <1>3, <1>held DEF CloudInv, Types, Stop

\* The timer of awaitCloudNames touches no request.
LEMMA StartupWaitEndsKeeps ==
    ASSUME CloudInv, StartupWaitEnds
    PROVE  CloudInv'
  BY DEF CloudInv, Types, SlotHeld, Covered, HeldBack, StartupWaitEnds

LEMMA AwaitCloudNamesKeeps ==
    ASSUME CloudInv, AwaitCloudNames
    PROVE  CloudInv'
  <1>1. wait # "started"
    BY DEF AwaitCloudNames
  <1>2. caller["status"].pc \notin Holding
    BY <1>1 DEF CloudInv, HeldBack, Holding
  <1>3. caller' \in [Callers -> Caller] /\ SlotHeld' /\ Covered'
    BY <1>2, GoesOn DEF AwaitCloudNames, DiscoveryBegins, Ask, Callers
  <1>4. HeldBack'
    BY DEF AwaitCloudNames, DiscoveryBegins, HeldBack
  <1> QED BY <1>3, <1>4 DEF CloudInv, Types, AwaitCloudNames, DiscoveryBegins

-----------------------------------------------------------------------------
(* The cloud, time and shutdown *)

LEMMA CloudChangesKeeps ==
    ASSUME CloudInv, CloudChanges
    PROVE  CloudInv'
  <1>1. cloud \in Cloud
    BY DEF CloudInv, Types
  <1>2. ASSUME cloud.version < MaxVersion, cloud' = [cloud EXCEPT !.version = @ + 1]
        PROVE  cloud' \in Cloud
    <2>1. cloud.version + 1 \in 0 .. MaxVersion
      BY <1>1, <1>2, CloudAssumption DEF Cloud
    <2> QED BY <1>1, <1>2, <2>1 DEF Cloud
  <1>3. ASSUME NEW mood \in {"good", "limits", "down", "garbled"},
               cloud' = [cloud EXCEPT !.mood = mood, !.upsets = @ + 1]
        PROVE  cloud' \in Cloud
    <2>1. cloud.upsets + 1 \in Nat
      BY <1>1 DEF Cloud
    <2>2. cloud' = [version |-> cloud.version, mood |-> mood, upsets |-> cloud.upsets + 1]
      BY <1>1, <1>3 DEF Cloud
    <2>3. cloud.version \in 0 .. MaxVersion
      BY <1>1 DEF Cloud
    <2> QED BY <2>1, <2>2, <2>3 DEF Cloud
  <1>4. cloud' \in Cloud
    <2>1. \/ cloud.version < MaxVersion /\ cloud' = [cloud EXCEPT !.version = @ + 1]
          \/ \E mood \in {"good", "limits", "down", "garbled"} :
                cloud' = [cloud EXCEPT !.mood = mood, !.upsets = @ + 1]
      BY Zenon DEF CloudChanges
    <2>2. CASE \E mood \in {"good", "limits", "down", "garbled"} :
                  cloud' = [cloud EXCEPT !.mood = mood, !.upsets = @ + 1]
      BY <2>2, <1>3, Zenon
    <2> QED BY <2>1, <2>2, <1>2, Zenon
  <1>5. UNCHANGED <<caller, slot, rest, store, source, wait, done, due>>
    BY DEF CloudChanges
  <1> QED BY <1>4, <1>5 DEF CloudInv, Types, SlotHeld, Covered, HeldBack

\* The pause and what is owed of it run down together.
LEMMA TickKeeps ==
    ASSUME CloudInv, Tick
    PROVE  CloudInv'
  <1>1. caller' = caller /\ slot' = slot /\ wait' = wait
    BY DEF Tick
  <1>2. rest' \in 0 .. Pause /\ due' \in 0 .. Pause
    BY CloudAssumption DEF CloudInv, Types, Tick
  <1>3. Types'
    BY <1>2 DEF CloudInv, Types, Tick
  <1>4. due' <= due /\ (due <= rest => due' <= rest')
    BY CloudAssumption DEF CloudInv, Types, Tick
  <1>5. ASSUME NEW c \in Callers, caller[c].pc = "release"
        PROVE  due' <= OwedAfter(caller[c].answer)
    <2>1. due <= OwedAfter(caller[c].answer)
      BY <1>5 DEF CloudInv, Covered
    <2> QED BY <2>1, <1>2, <1>4, OwedType, CloudAssumption DEF CloudInv, Types
  <1>6. Covered'
    BY <1>1, <1>4, <1>5 DEF CloudInv, Covered, OwedAfter
  <1> QED BY <1>1, <1>3, <1>6 DEF CloudInv, SlotHeld, HeldBack

LEMMA ShutdownKeeps ==
    ASSUME CloudInv, Shutdown
    PROVE  CloudInv'
  BY DEF CloudInv, Types, SlotHeld, Covered, HeldBack, Shutdown

-----------------------------------------------------------------------------
(* Theorems *)

LEMMA InitCloud == Init => CloudInv
  <1> SUFFICES ASSUME Init PROVE CloudInv
    OBVIOUS
  <1>1. At("slot", "list", NoAnswer) \in Caller /\ At("held", "status", NoAnswer) \in Caller
    BY AtType, NoAnswerType DEF Places
  <1>2. caller \in [Callers -> Caller]
    BY <1>1 DEF Init
  <1>3. Types
    <2>1. 0 \in 0 .. MaxVersion /\ 1 \in 0 .. MaxVersion /\ 0 \in 0 .. Pause
      BY CloudAssumption
    <2>2. store \in Store /\ source \in Source
      BY <2>1 DEF Init, Store, Source
    <2>3. cloud \in Cloud
      BY <2>1 DEF Init, Cloud
    <2> QED BY <1>2, <2>1, <2>2, <2>3 DEF Init, Types
  <1>4. \A c \in Callers : caller[c].pc \in {"slot", "held"}
    BY DEF Init, At
  <1>5. SlotHeld /\ Covered
    BY <1>4 DEF Init, SlotHeld, Covered, Holding, Callers, Free
  <1>6. HeldBack
    BY DEF Init, HeldBack, At, Callers
  <1> QED BY <1>3, <1>5, <1>6 DEF CloudInv

LEMMA NextCloud == CloudInv /\ [Next]_vars => CloudInv'
  <1> SUFFICES ASSUME CloudInv, [Next]_vars PROVE CloudInv'
    OBVIOUS
  <1>1. CASE \E c \in Callers : Post(c) \/ Wake(c) \/ Stop(c)
    BY <1>1, PostKeeps, WakeKeeps, StopKeeps
  <1>2. CASE ListReturns \/ ListFails \/ RoomsReturn
    BY <1>2, ListReturnsKeeps, ListFailsKeeps, RoomsReturnKeeps
  <1>3. CASE StatusReturns \/ StatusCut \/ StartupWaitEnds \/ AwaitCloudNames
    BY <1>3, StatusReturnsKeeps, StatusCutKeeps, StartupWaitEndsKeeps, AwaitCloudNamesKeeps
  <1>4. CASE CloudChanges \/ Tick \/ Shutdown
    BY <1>4, CloudChangesKeeps, TickKeeps, ShutdownKeeps
  <1>5. CASE UNCHANGED vars
    BY <1>5 DEF vars, CloudInv, Types, SlotHeld, Covered, HeldBack
  <1> QED BY <1>1, <1>2, <1>3, <1>4, <1>5 DEF Next

\* The inductive invariant holds throughout: the slot is with the loop whose request it is, and
\* the pause covers what the last response called for (Client.acquire and release).
THEOREM CloudInvariant == Spec => []CloudInv
  BY InitCloud, NextCloud, PTL DEF Spec

\* No step begins a request but Send.
LEMMA OnlySendRequests ==
    ASSUME CloudInv, Next, NEW c \in Callers, caller'[c].pc = "request", caller[c].pc # "request"
    PROVE  Send(c)
  <1>1. ASSUME NEW o \in Callers, NEW entry, caller' = [caller EXCEPT ![o] = entry],
               entry.pc # "request"
        PROVE  FALSE
    BY <1>1 DEF CloudInv, Types
  <1>2. ASSUME NEW o \in Callers, NEW pc \in Places, caller' = [caller EXCEPT ![o].pc = pc],
               o # c \/ pc # "request"
        PROVE  FALSE
    BY <1>2 DEF CloudInv, Types, Caller
  <1>3. ASSUME NEW o \in Callers, Post(o)
        PROVE  Send(c)
    <2>1. CASE TakeSlot(o)
      BY <2>1, <1>2 DEF TakeSlot, Goto, Places
    <2>2. CASE GiveUpSlot(o) \/ CancelRest(o) \/ Respond(o)
      BY <2>2 DEF GiveUpSlot, CancelRest, Respond, CloudInv, Types, Caller
    <2>3. CASE Send(o)
      BY <2>3, <1>2 DEF Send, Goto, Places
    <2>4. CASE Release(o)
      BY <2>4 DEF Release, AfterRelease, CloudInv, Types, Caller
    <2> QED BY <1>3, <2>1, <2>2, <2>3, <2>4 DEF Post
  <1>4. ASSUME NEW o \in Callers, NEW pc \in Places \ {"request"}, NEW ask, NEW list,
               caller' = [caller EXCEPT ![o] = At(pc, ask, list)]
        PROVE  FALSE
    BY <1>1, <1>4 DEF At
  <1>5. ASSUME NEW o \in Callers, Wake(o) \/ Stop(o)
        PROVE  FALSE
    <2>1. CASE Wake(o)
      BY <2>1, <1>4 DEF Wake, Ask, Places
    <2>2. CASE Stop(o)
      BY <2>2, <1>2 DEF Stop, Goto, Places
    <2> QED BY <1>5, <2>1, <2>2
  <1>6. CASE ListReturns \/ ListFails \/ RoomsReturn \/ StatusReturns \/ StatusCut
    BY <1>6, <1>4 DEF ListReturns, ListFails, RoomsReturn, StatusReturns, StatusCut, RefreshEnds, Rest,
                      Places, Callers
  <1>7. CASE AwaitCloudNames
    BY <1>7, <1>4 DEF AwaitCloudNames, DiscoveryBegins, Ask, Places, Callers
  <1>8. CASE StartupWaitEnds \/ CloudChanges \/ Tick \/ Shutdown
    BY <1>8 DEF StartupWaitEnds, CloudChanges, Tick, Shutdown
  <1> QED BY <1>3, <1>5, <1>6, <1>7, <1>8 DEF Next

\* Every variable has its type, for every pause and every number of retries.
THEOREM CloudTypes == Spec => []TypeOK
  <1>1. CloudInv => TypeOK
    BY DEF CloudInv, Types, SlotHeld, Holding, TypeOK, Caller, Store, Source
  <1> QED BY <1>1, CloudInvariant, PTL

\* "every caller sharing it stays within the account's rate limit together" (client.go): a
\* request starts alone, and not before the pause that the last response called for is over.
THEOREM RateIsKept == Spec => RateKept
  <1> DEFINE Starts == \A c \in Callers :
                 caller'[c].pc = "request" /\ caller[c].pc # "request"
                     => /\ due = 0
                        /\ \A o \in Callers \ {c} : caller[o].pc # "request"
  <1>1. CloudInv /\ [Next]_vars => [Starts]_vars
    <2> SUFFICES ASSUME CloudInv, Next, NEW c \in Callers,
                        caller'[c].pc = "request", caller[c].pc # "request"
                 PROVE  due = 0 /\ \A o \in Callers \ {c} : caller[o].pc # "request"
      OBVIOUS
    <2>1. Send(c)
      BY OnlySendRequests
    <2>2. slot = c /\ \A o \in Callers \ {c} : caller[o].pc \notin Holding
      BY <2>1, Alone DEF Send, Holding
    <2>3. due <= rest /\ rest = 0
      BY <2>1, <2>2 DEF CloudInv, Covered, Send, Holding
    <2> QED BY <2>2, <2>3 DEF CloudInv, Types, Holding
  <1>2. RateKept <=> [][Starts]_vars
    BY DEF RateKept
  <1> HIDE DEF Starts
  <1> QED BY <1>1, <1>2, CloudInvariant, PTL DEF Spec
=============================================================================
