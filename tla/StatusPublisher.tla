--------------------------- MODULE StatusPublisher ---------------------------
(***************************************************************************)
(* app/i2c_regmap_demo/main.c: the main loop keeps the status page of the  *)
(* register map up to date.  It publishes when a counter has changed since *)
(* the last success, and a refused publication itself counts.  The page is *)
(* a SnapshotRegister, which module RegmapSnapshot implements; the I2C     *)
(* handler latches it and bumps the error counters at any time.            *)
(***************************************************************************)
EXTENDS Integers

CONSTANTS
  Readers, Unmapped, NoLatch, ReaderMax,   \* as in SnapshotRegister
  Base,       \* values of a byte; a counter has two bytes
  MaxEvents   \* bound: events the handler counts

(* A byte has at least one value. *)
BytesFit == Base \in Nat \ {0}

CounterModulus == Base * Base
Count == 0 .. CounterModulus - 1

VARIABLES
  published, latch, value, rejected,   \* the status page
  errors,        \* g_error_count of hal_i2c_target
  unexpected,    \* g_unexpected_event_count of hal_i2c_target
  main_pc,       \* where the main loop is
  read,          \* publish_status's local counts, by name
  last,          \* g_status_last_error_count and the other two
  status_published   \* g_status_published

page == <<published, latch, value, rejected>>
isr == <<errors, unexpected>>
vars == <<page, isr, main_pc, read, last, status_published>>

Counters == {"errors", "rejected", "unexpected"}
Now == [errors |-> errors, rejected |-> rejected, unexpected |-> unexpected]

(* i2c_regmap_demo_write_u32_be at the three offsets of the status image,  *)
(* most significant byte first.                                            *)
Offsets == 0 .. 5
Position == [errors |-> 0, rejected |-> 2, unexpected |-> 4]
Encode(c) ==
  [o \in Offsets |->
     LET k == CHOOSE n \in Counters : o \in Position[n] .. Position[n] + 1
     IN  IF o = Position[k] THEN c[k] \div Base ELSE c[k] % Base]

(* What a controller that reads the page makes of it. *)
Decode(image) ==
  [k \in Counters |-> image[Position[k]] * Base + image[Position[k] + 1]]

Page ==
  INSTANCE SnapshotRegister WITH
    Image <- [Offsets -> 0 .. Base - 1], Modulus <- CounterModulus

Zero == [k \in Counters |-> 0]

Init ==
  /\ published = Encode(Zero)
  /\ latch = [r \in Readers |-> NoLatch]
  /\ value = [r \in Readers |-> Unmapped]
  /\ rejected = 0
  /\ errors = 0 /\ unexpected = 0
  /\ main_pc = "init"
  /\ read = Zero /\ last = Zero
  /\ status_published = FALSE
-----------------------------------------------------------------------------
(* board_init, hal_timer_init_1ms and i2c_regmap_demo_init, which opens    *)
(* the target only after every page is set up.                             *)
DemoInit(ok) ==
  /\ main_pc = "init"
  /\ main_pc' = IF ok THEN "watchdog" ELSE "not_open"
  /\ UNCHANGED <<page, isr, read, last, status_published>>

(* hal_wdt_init; when it fails the target is already open. *)
WatchdogInit(ok) ==
  /\ main_pc = "watchdog"
  /\ main_pc' = IF ok THEN "errors" ELSE "fail"
  /\ UNCHANGED <<page, isr, read, last, status_published>>

(* i2c_regmap_demo_fail: the LED is on and nothing else happens. *)
DemoFail == main_pc = "not_open" /\ UNCHANGED vars

(* i2c_regmap_demo_publish_status reads the three counters one by one. *)
ReadCounter(k, next) ==
  /\ main_pc = k
  /\ read' = [read EXCEPT ![k] = Now[k]]
  /\ main_pc' = next
  /\ UNCHANGED <<page, isr, last, status_published>>

ReadErrors == ReadCounter("errors", "rejected")
ReadRejected == ReadCounter("rejected", "unexpected")
ReadUnexpected == ReadCounter("unexpected", "compare")

(* Nothing new: the loop feeds the watchdog and waits for an interrupt,    *)
(* which the timer raises every millisecond.                               *)
Unchanged ==
  /\ main_pc = "compare"
  /\ status_published /\ read = last
  /\ main_pc' = "errors"
  /\ UNCHANGED <<page, isr, read, last, status_published>>

(* Publish, and remember what was published only if it was. *)
Mut_PublishRemembersAlways ==
  /\ main_pc = "compare"
  /\ ~ status_published \/ read # last
  /\ Page!Publish(Encode(read)) \/ Page!PublishRejected
  /\ last' = read /\ status_published' = TRUE
  /\ main_pc' = "errors"
  /\ UNCHANGED <<isr, read>>

Publish ==
  /\ main_pc = "compare"
  /\ ~ status_published \/ read # last
  /\ \/ /\ Page!Publish(Encode(read))
        /\ last' = read
        /\ status_published' = TRUE
     \/ /\ Page!PublishRejected
        /\ UNCHANGED <<last, status_published>>
  /\ main_pc' = "errors"
  /\ UNCHANGED <<isr, read>>

Main ==
  \/ \E ok \in BOOLEAN : DemoInit(ok) \/ WatchdogInit(ok)
  \/ ReadErrors \/ ReadRejected \/ ReadUnexpected
  \/ Unchanged \/ Publish
  \/ DemoFail
-----------------------------------------------------------------------------
(* The handler, once the target is open. *)
Open == main_pc \notin {"init", "not_open"}

CountError ==
  /\ Open /\ errors + unexpected < MaxEvents
  /\ errors' = (errors + 1) % CounterModulus
  /\ UNCHANGED <<page, unexpected, main_pc, read, last, status_published>>

CountUnexpected ==
  /\ Open /\ errors + unexpected < MaxEvents
  /\ unexpected' = (unexpected + 1) % CounterModulus
  /\ UNCHANGED <<page, errors, main_pc, read, last, status_published>>

Latch(r) ==
  /\ Open
  /\ Page!Acquire(r)
  /\ UNCHANGED <<isr, main_pc, read, last, status_published>>

Unlatch(r) ==
  /\ Page!Release(r)
  /\ UNCHANGED <<isr, main_pc, read, last, status_published>>

Next ==
  \/ Main
  \/ CountError \/ CountUnexpected
  \/ \E r \in Readers : Latch(r) \/ Unlatch(r)

(* The main loop runs, and a read transaction ends: by STOP, or by the     *)
(* target's SCL-low timeout, both of which release the latch.              *)
Fairness ==
  /\ WF_vars(Main)
  /\ \A r \in Readers : WF_vars(Unlatch(r))

Spec == Init /\ [][Next]_vars /\ Fairness
-----------------------------------------------------------------------------
(* The type invariant. *)
TypeOK ==
  /\ published \in [Offsets -> 0 .. Base - 1]
  /\ errors \in Count /\ unexpected \in Count /\ rejected \in Count
  /\ main_pc \in {"init", "watchdog", "errors", "rejected", "unexpected",
                  "compare", "fail", "not_open"}
  /\ read \in [Counters -> Count] /\ last \in [Counters -> Count]
  /\ status_published \in BOOLEAN
  /\ \A r \in Readers :
       latch[r] = NoLatch \/ latch[r].image \in [Offsets -> 0 .. Base - 1]

(* The cached counts are those the page shows, decoded as a controller     *)
(* decodes them: skipping a publication never leaves an older value there. *)
CacheMatchesPage == Decode(published) = last

(* Once the counters of the handler stand still, the page comes to show    *)
(* them and the number of refused publications, and stays so, however      *)
(* often readers have made publish fail.                                   *)
Quiet == [][UNCHANGED isr]_vars
StatusConverges ==
  /\ [](TypeOK /\ CacheMatchesPage)
  /\ ([](main_pc \notin {"fail", "not_open"}) /\ <>Quiet) =>
       <>[](Decode(published) = Now)
=============================================================================
