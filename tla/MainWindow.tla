------------------------------- MODULE MainWindow -------------------------------
(***************************************************************************)
(* The launcher's window as far as it has state: the server settings, the  *)
(* connection test that must succeed before monitoring starts, the saved   *)
(* servers, the table of rules and the settings kept on disk.              *)
(*                                                                         *)
(* Every slot runs on the window's thread, one after the other; the test   *)
(* runs on a thread of its own and talks to the window through the event   *)
(* queue.  A click may come between any two events of that queue.  A       *)
(* server is its address (host and port, one text here) and what the       *)
(* authentication fields say.  The engine is whether it runs and with      *)
(* which server; EngineLifecycle opens it up.  The window is always in     *)
(* WinDivert mode: no widget is connected to onWinDivertModeChanged.       *)
(***************************************************************************)
EXTENDS Naturals, SequencesExt

CONSTANTS
  Addresses,      \* IP addresses with a port
  NoAddress,      \* a text that is none; Blank is the empty one
  Programs,       \* names a row can have
  Default,        \* "ProxyTestApp.exe"
  InitialStores,  \* what is on disk at first
  Typed,          \* bound: names the user types
  Touched,        \* bound: rows the user works on
  Cuts,           \* bound: rows in which a crash cuts a save short
  MaxTests,       \* bound: test threads at a time
  MaxClicks       \* bound: what the user does

Blank == ""
Texts == Addresses \cup {NoAddress, Blank}
Server == [addr : Texts, auth : {"off", "unnamed", "named"}]
Off == [addr |-> Blank, auth |-> "off"]
Names == Programs \cup {Blank}
Row == [program : Names, action : {"PROXY", "DIRECT", "BLOCK"}, custom : BOOLEAN]
\* names: the list of an older version, still written after the rows
Settings == [server : Server, history : Seq(Server), rows : Seq(Row), names : Seq(Names),
             auto : BOOLEAN]

ASSUME WindowAssumption ==
  /\ Blank \notin Addresses \cup Programs /\ NoAddress \notin Addresses
  /\ Default \in Programs /\ Typed \subseteq Programs
  /\ Touched \subseteq Nat /\ Cuts \subseteq Nat
  /\ InitialStores \subseteq Settings
  /\ MaxTests \in Nat /\ MaxClicks \in Nat

VARIABLES
  open,                               \* the program runs
  shown, history, index, rows,        \* the fields, the combo box, the table
  connected, startOn, stopOn, testOn, \* m_serverConnected and the enabled buttons
  engine,                             \* the server the engine runs with, or Off
  thread, current, queue,             \* test threads, m_testThread, posted events
  auto,                               \* the 500 ms timer of the auto-start is pending
  stored,                             \* QSettings
  passed, raced, unsaved,             \* history variables, see the properties
  clicks

form == <<shown, history, index, rows>>
buttons == <<connected, startOn, stopOn, testOn>>
tests == <<thread, current, queue>>
memory == <<passed, raced, unsaved>>
vars == <<open, form, buttons, engine, tests, auto, stored, memory, clicks>>

Threads == 1 .. MaxTests
Thread == [state : {"none", "running", "posted", "done"}, addr : Texts]
Event == [event : {"completed", "destroy"}, of : Threads, ok : BOOLEAN]
Idle == [state |-> "none", addr |-> Blank]

Usable(s) == s.addr \in Addresses /\ s.auth # "unnamed"
Snapshot(s, h, r) ==
  [server |-> s, history |-> h, rows |-> r, names |-> [i \in DOMAIN r |-> r[i].program],
   auto |-> stored.auto]

Init ==
  /\ open = FALSE /\ stored \in InitialStores
  /\ shown = Off /\ history = <<>> /\ index = 0 /\ rows = <<>>
  /\ connected = FALSE /\ startOn = FALSE /\ stopOn = FALSE /\ testOn = TRUE
  /\ engine = Off /\ auto = FALSE
  /\ thread = [t \in Threads |-> Idle] /\ current = 0 /\ queue = <<>>
  /\ passed = {} /\ raced = FALSE /\ unsaved = TRUE /\ clicks = 0

Click == open /\ clicks < MaxClicks /\ clicks' = clicks + 1
-------------------------------------------------------------------------------
(* Opening and closing the program. *)

\* The keys rule_1, rule_2, ... come back in the order of their texts, which is that of
\* their digits, padded, with the shorter first: rule_10 is before rule_2 (up to 999 rows).
Padded(i) == IF i < 10 THEN 100 * i ELSE IF i < 100 THEN 10 * i ELSE i
KeyBefore(i, j) == Padded(i) < Padded(j) \/ (Padded(i) = Padded(j) /\ i < j)
KeyPlace(i, keys) == Cardinality({j \in keys : KeyBefore(j, i)}) + 1

Named(r) == {i \in DOMAIN r : r[i].program # Blank}
NewRow(p) == [program |-> p, action |-> "PROXY", custom |-> FALSE]

\* A row without a name is skipped; without a rule_ key the old list is read.
LoadedRows ==
  LET r == stored.rows
      keys == Named(r)
  IN IF r = <<>> THEN [i \in DOMAIN stored.names |-> NewRow(stored.names[i])]
     ELSE [p \in 1 .. Cardinality(keys) |-> r[CHOOSE i \in keys : KeyPlace(i, keys) = p]]

\* The constructor; an empty table gets the default row, which is not saved at once.
Launch ==
  /\ ~open /\ open' = TRUE
  /\ shown' = stored.server /\ history' = stored.history /\ index' = 0
  /\ rows' = IF LoadedRows = <<>> THEN <<NewRow(Default)>> ELSE LoadedRows
  /\ unsaved' = (rows' # stored.rows)
  /\ auto' = stored.auto
  /\ UNCHANGED <<buttons, engine, tests, stored, passed, raced, clicks>>

Close ==
  /\ open' = FALSE /\ engine' = Off /\ auto' = FALSE
  /\ connected' = FALSE /\ startOn' = FALSE /\ stopOn' = FALSE /\ testOn' = TRUE
  /\ thread' = [t \in Threads |-> Idle] /\ current' = 0 /\ queue' = <<>>
  /\ passed' = {} /\ raced' = FALSE
  /\ UNCHANGED <<shown, history, index>>

\* The rows a save has written when it ends in one of them: its name, its name and its
\* action, or all of it.
RowsWritten(r) ==
  {<<>>, r} \cup
  UNION {{Append(SubSeq(r, 1, k - 1), row) :
            row \in {r[k], [r[k] EXCEPT !.custom = FALSE],
                    [r[k] EXCEPT !.custom = FALSE, !.action = "PROXY"]}} :
          k \in Cuts \cap DOMAIN r}

\* What a crash in the middle of saveSettings leaves: the saved servers are not counted
\* while they are written, the old rules are removed before the first new one is there,
\* then come the old list of names and the server.
Written(new) ==
  {[stored EXCEPT !.history = h] : h \in {<<>>, new.history}} \cup
  {[new EXCEPT !.rows = r, !.names = stored.names, !.server = stored.server] :
     r \in RowsWritten(new.rows)} \cup
  {[new EXCEPT !.server = x] : x \in {stored.server, [stored.server EXCEPT !.addr = new.server.addr]}}

\* saveSettings; the one thing that can come between two of its keys is the end.
SaveSettings(r) ==
  /\ rows' = r
  /\ \/ /\ stored' = Snapshot(shown, history, r) /\ unsaved' = FALSE
        /\ UNCHANGED <<open, shown, history, index, buttons, engine, tests, auto, passed, raced>>
     \/ /\ stored' \in Written(Snapshot(shown, history, r)) /\ unsaved' = TRUE
        /\ Close

\* The tray's Exit, and the destructor after it.
Quit ==
  /\ Click /\ Close /\ UNCHANGED rows
  /\ \/ stored' = Snapshot(shown, history, rows) /\ unsaved' = FALSE
     \/ stored' \in Written(Snapshot(shown, history, rows)) /\ unsaved' = TRUE

Crash ==
  /\ Click /\ Close
  /\ UNCHANGED <<rows, stored, unsaved>>
-------------------------------------------------------------------------------
(* The connection test. *)

Testing == current # 0 /\ thread[current].state \in {"running", "posted"}

NewTest ==
  \E t \in Threads :
    /\ thread[t] = Idle
    /\ thread' = [thread EXCEPT ![t] = [state |-> "running", addr |-> shown.addr]]
    /\ current' = t /\ testOn' = FALSE
    /\ UNCHANGED queue

TestServer ==
  \/ Testing /\ UNCHANGED <<connected, startOn, testOn, tests>>
  \/ /\ ~Testing /\ ~Usable(shown)
     /\ connected' = FALSE /\ startOn' = FALSE
     /\ UNCHANGED <<testOn, tests>>
  \/ /\ ~Testing /\ Usable(shown)
     /\ NewTest /\ UNCHANGED <<connected, startOn>>

TestServerClicked ==
  /\ Click /\ testOn /\ TestServer
  /\ UNCHANGED <<open, form, stopOn, engine, auto, stored, memory>>

\* Mutant: one of run's early returns forgets the signal.
ThreadAnswersSuccess(t) ==
  /\ thread[t].state = "running"
  /\ thread' = [thread EXCEPT ![t].state = "posted"]
  /\ \/ queue' = Append(queue, [event |-> "completed", of |-> t, ok |-> TRUE])
     \/ UNCHANGED queue
  /\ UNCHANGED <<open, form, buttons, engine, current, auto, stored, memory, clicks>>

\* ConnectionTestThread::run, whatever the server says (see ProxyTunnel).
ThreadAnswers(t) ==
  /\ thread[t].state = "running"
  /\ thread' = [thread EXCEPT ![t].state = "posted"]
  /\ \E ok \in BOOLEAN : queue' = Append(queue, [event |-> "completed", of |-> t, ok |-> ok])
  /\ UNCHANGED <<open, form, buttons, engine, current, auto, stored, memory, clicks>>

\* QThread: finished has posted deleteLater, isRunning says no from now on.
ThreadFinishes(t) ==
  /\ thread[t].state = "posted"
  /\ thread' = [thread EXCEPT ![t].state = "done"]
  /\ queue' = Append(queue, [event |-> "destroy", of |-> t, ok |-> FALSE])
  /\ UNCHANGED <<open, form, buttons, engine, current, auto, stored, memory, clicks>>

\* Mutant: the button is switched whether the engine runs or not.
TestCompletedAlways ==
  /\ queue # <<>> /\ Head(queue).event = "completed"
  /\ connected' = Head(queue).ok /\ startOn' = Head(queue).ok
  /\ testOn' = TRUE /\ queue' = Tail(queue)
  /\ UNCHANGED <<open, form, stopOn, engine, thread, current, auto, stored, memory, clicks>>

TestCompleted ==
  /\ queue # <<>> /\ Head(queue).event = "completed"
  /\ LET ok == Head(queue).ok IN
       /\ connected' = ok
       /\ startOn' = IF engine = Off THEN ok ELSE startOn
       /\ passed' = IF ok THEN passed \cup {thread[Head(queue).of].addr} ELSE passed
  /\ testOn' = TRUE /\ queue' = Tail(queue)
  /\ UNCHANGED <<open, form, stopOn, engine, thread, current, auto, stored, raced, unsaved, clicks>>

\* destroyed clears m_testThread, whichever thread that is by then.
ThreadDestroyed ==
  /\ queue # <<>> /\ Head(queue).event = "destroy"
  /\ thread' = [thread EXCEPT ![Head(queue).of] = Idle]
  /\ current' = 0 /\ queue' = Tail(queue)
  /\ UNCHANGED <<open, form, buttons, engine, auto, stored, memory, clicks>>
-------------------------------------------------------------------------------
(* Starting and stopping. *)

\* The engine may fail to start; one that runs already gets the server only.
StartEngine ==
  \/ engine = Off /\ UNCHANGED <<engine, startOn, stopOn>>
  \/ engine = Off /\ engine' = shown /\ startOn' = FALSE /\ stopOn' = TRUE
  \/ engine # Off /\ engine' = shown /\ UNCHANGED <<startOn, stopOn>>

\* Without a good test one is begun, and its answer is not waited for.
StartMonitor ==
  \/ ~connected /\ TestServer /\ UNCHANGED <<engine, stopOn>>
  \/ connected /\ StartEngine /\ UNCHANGED <<connected, testOn, tests>>

StartMonitorClicked ==
  /\ Click /\ startOn /\ Usable(shown) /\ StartMonitor
  /\ UNCHANGED <<open, form, auto, stored, memory>>

StopMonitorClicked ==
  /\ Click /\ stopOn /\ engine # Off
  /\ engine' = Off /\ startOn' = TRUE /\ stopOn' = FALSE
  /\ UNCHANGED <<open, form, connected, testOn, tests, auto, stored, memory>>

\* The timer tests and looks at m_serverConnected at once: what it says is of before.
AutoStart ==
  /\ open /\ auto /\ auto' = FALSE
  /\ IF connected /\ Usable(shown)
     THEN /\ StartEngine /\ UNCHANGED connected
          /\ IF Testing THEN UNCHANGED <<testOn, tests>> ELSE NewTest
     ELSE TestServer /\ UNCHANGED <<engine, stopOn>>
  /\ UNCHANGED <<open, form, stored, memory, clicks>>
-------------------------------------------------------------------------------
(* The server's fields and the saved servers. *)

Outstanding ==
  \/ \E t \in Threads : thread[t].state = "running"
  \/ \E i \in DOMAIN queue : queue[i].event = "completed"

Show(s) ==
  /\ shown' = s
  /\ raced' = (raced \/ (s.addr # shown.addr /\ Outstanding))

\* Mutant: the old test still counts.
DisconnectNot == engine' = Off /\ stopOn' = (stopOn /\ engine = Off) /\ UNCHANGED <<connected, startOn>>

\* Mutant: the engine runs on.
DisconnectOnly == connected' = FALSE /\ startOn' = FALSE /\ UNCHANGED <<engine, stopOn>>

\* The engine is stopped and the server has to be tested anew.
Disconnect ==
  /\ engine' = Off /\ stopOn' = (stopOn /\ engine = Off)
  /\ connected' = FALSE /\ startOn' = FALSE

ProxySettingsChanged(a) ==
  /\ Click /\ a # shown.addr
  /\ Show([shown EXCEPT !.addr = a]) /\ Disconnect
  /\ UNCHANGED <<open, history, index, rows, testOn, tests, auto, stored, passed, unsaved>>

\* The check box, the user name and the password are connected to no such slot.
AuthChanged(x) ==
  /\ Click /\ x # shown.auth
  /\ shown' = [shown EXCEPT !.auth = x]
  /\ UNCHANGED <<open, history, index, rows, buttons, engine, tests, auto, stored, memory>>

\* The placeholder loads nothing.
ServerComboChanged(i) ==
  /\ Click /\ i # index /\ index' = i
  /\ IF i > 0 THEN Show(history[i]) /\ Disconnect
     ELSE UNCHANGED <<shown, raced, connected, startOn, stopOn, engine>>
  /\ UNCHANGED <<open, history, rows, testOn, tests, auto, stored, passed, unsaved>>

SavedAs == {i \in DOMAIN history : history[i].addr = shown.addr}

\* Only the empty text is not saved.  A new entry is selected, which loads it: the engine stops.
SaveServerClicked ==
  /\ Click /\ shown.addr # Blank
  /\ \/ \E i \in SavedAs : history' = [history EXCEPT ![i] = shown]
        /\ UNCHANGED <<index, buttons, engine>>
     \/ /\ SavedAs = {}
        /\ history' = Append(history, shown) /\ index' = Len(history) + 1
        /\ Disconnect /\ UNCHANGED testOn
  /\ UNCHANGED <<open, shown, rows, tests, auto, stored, memory>>

\* Mutant: the entry stays selected after it is gone.
DeleteServerSelected ==
  /\ Click /\ index > 0
  /\ history' = RemoveAt(history, index)
  /\ UNCHANGED <<open, shown, index, rows, buttons, engine, tests, auto, stored, memory>>

\* The combo box falls back to the entry before, which is loaded; the placeholder is not.
DeleteServerClicked ==
  /\ Click /\ index > 0
  /\ history' = RemoveAt(history, index) /\ index' = index - 1
  /\ IF index > 1 THEN Show(history[index - 1]) /\ Disconnect
     ELSE UNCHANGED <<shown, raced, connected, startOn, stopOn, engine>>
  /\ UNCHANGED <<open, rows, testOn, tests, auto, stored, passed, unsaved>>
-------------------------------------------------------------------------------
(* The table. *)

AddExeClicked(p) ==
  /\ Click /\ \A i \in DOMAIN rows : rows[i].program # p
  /\ SaveSettings(Append(rows, NewRow(p)))

\* Mutant: the row is taken from the table only.
RemoveExeUnsaved(i) ==
  /\ Click /\ rows' = RemoveAt(rows, i)
  /\ UNCHANGED <<open, shown, history, index, buttons, engine, tests, auto, stored, memory>>

RemoveExeClicked(i) == Click /\ SaveSettings(RemoveAt(rows, i))

\* The two combo boxes of a row, and Set Proxy.
ActionChanged(i, a) ==
  /\ Click /\ rows[i].action # a
  /\ SaveSettings([rows EXCEPT ![i].action = a])

SetRuleProxyClicked(i) == Click /\ SaveSettings([rows EXCEPT ![i].custom = TRUE])
GlobalProxyChosen(i) == Click /\ rows[i].custom /\ SaveSettings([rows EXCEPT ![i].custom = FALSE])

\* A cell of the table can be edited in place; nobody is told.
ProgramEdited(i, p) ==
  /\ Click /\ rows[i].program # p
  /\ rows' = [rows EXCEPT ![i].program = p] /\ unsaved' = TRUE
  /\ UNCHANGED <<open, shown, history, index, buttons, engine, tests, auto, stored, passed, raced>>
-------------------------------------------------------------------------------
Monitoring == TestServerClicked \/ StartMonitorClicked \/ StopMonitorClicked \/ AutoStart

Fields ==
  \/ \E a \in Texts : ProxySettingsChanged(a)
  \/ \E x \in {"off", "unnamed", "named"} : AuthChanged(x)
  \/ \E i \in 0 .. Len(history) : ServerComboChanged(i)
  \/ SaveServerClicked \/ DeleteServerClicked

Table ==
  \/ \E p \in Typed : AddExeClicked(p)
  \/ \E i \in Touched \cap DOMAIN rows :
       \/ RemoveExeClicked(i) \/ SetRuleProxyClicked(i) \/ GlobalProxyChosen(i)
       \/ \E a \in {"PROXY", "DIRECT", "BLOCK"} : ActionChanged(i, a)
       \/ \E p \in Typed \cup {Blank} : ProgramEdited(i, p)

Next ==
  \/ Launch \/ Quit \/ Crash \/ Monitoring \/ Fields \/ Table
  \/ TestCompleted \/ ThreadDestroyed
  \/ \E t \in Threads : ThreadAnswers(t) \/ ThreadFinishes(t)

Spec == Init /\ [][Next]_vars

\* The test has limits on everything it waits for, and the event loop delivers.
Fairness ==
  /\ \A t \in Threads : WF_vars(ThreadAnswers(t)) /\ WF_vars(ThreadFinishes(t))
  /\ WF_vars(TestCompleted) /\ WF_vars(ThreadDestroyed)

FairSpec == Spec /\ Fairness
-------------------------------------------------------------------------------
(* Properties. *)

\* The variables stay within their types, an event's thread exists.
TypeOK ==
  /\ open \in BOOLEAN /\ connected \in BOOLEAN /\ startOn \in BOOLEAN /\ stopOn \in BOOLEAN
  /\ testOn \in BOOLEAN /\ auto \in BOOLEAN /\ raced \in BOOLEAN /\ unsaved \in BOOLEAN
  /\ shown \in Server /\ history \in Seq(Server) /\ index \in 0 .. Len(history)
  /\ rows \in Seq(Row) /\ engine \in Server
  /\ thread \in [Threads -> Thread] /\ current \in 0 .. MaxTests
  /\ queue \in Seq(Event) /\ \A i \in 1 .. Len(queue) : thread[queue[i].of].state # "none"
  /\ stored \in Settings
  /\ passed \subseteq Addresses /\ clicks \in 0 .. MaxClicks

\* The engine never runs on with another address than the one in the fields: every
\* way of changing the fields stops it (MainWindow.cpp:344-357, 924-933).
RunningServerIsShown == engine # Off => engine.addr = shown.addr

\* The two buttons say whether the engine runs, whatever order its signals, the test's
\* answer and the changes of the settings came in.
ButtonsFollowEngine ==
  /\ stopOn <=> engine # Off
  /\ startOn => engine = Off

\* The engine only starts with an address that a test of this session has reached,
\* unless the address was changed while a test was under way.
TestedUnlessRaced == engine # Off => engine.addr \in passed \/ raced

\* The same without the exception.
StartedServerWasTested == engine # Off => engine.addr \in passed

\* What the user did to the table with its buttons and boxes is still there when the
\* program is opened again, after a crash too: below ten rows, each row that has a name
\* stands in its place among those that have one.  A table of which nothing is left
\* comes back with the default row.  Unsaved names the two cases in which it may be
\* otherwise: a cell edited in place and not saved since, and a crash inside a save.
RestartKeepsTable ==
  [][Launch /\ ~unsaved /\ Len(rows) <= 9 =>
       IF Named(rows) = {} THEN rows' = <<NewRow(Default)>>
       ELSE /\ Len(rows') = Cardinality(Named(rows))
            /\ \A i \in Named(rows) :
                 rows'[Cardinality({j \in Named(rows) : j <= i})] = rows[i]]_vars

\* Why: the parts of the inductive invariant.  Nothing of the program is left while it is closed.
ClosedIsQuiet ==
  ~open => /\ engine = Off /\ ~connected /\ ~startOn /\ ~stopOn /\ ~auto
           /\ thread = [t \in Threads |-> Idle] /\ current = 0 /\ queue = <<>>

\* A thread's answer is posted before its end, and nothing of it comes after that.
EventsInOrder ==
  /\ \A i \in 1 .. Len(queue) :
       /\ queue[i].event = "completed" => thread[queue[i].of].state \in {"posted", "done"}
       /\ queue[i].event = "destroy" => thread[queue[i].of].state = "done"
  /\ \A i, j \in 1 .. Len(queue) :
       i < j /\ queue[i].of = queue[j].of =>
         queue[i].event = "completed" /\ queue[j].event = "destroy"

\* Until its answer has been heard a test is of the address shown, or the address has been
\* changed meanwhile.
TestsShown ==
  /\ \A t \in Threads : thread[t].state # "none" => thread[t].addr \in Addresses
  /\ \A t \in Threads : thread[t].state = "running" => thread[t].addr = shown.addr \/ raced
  /\ \A i \in 1 .. Len(queue) : queue[i].event = "completed" =>
       thread[queue[i].of].addr = shown.addr \/ raced

ConnectedWasTested == connected => shown.addr \in passed \/ raced

\* Loading reads what was saved, and the old list names nothing else.
SavedTable ==
  ~unsaved => stored.rows = rows /\ (rows = <<>> => stored.names = <<>>)

WindowInv ==
  /\ TypeOK /\ RunningServerIsShown /\ ButtonsFollowEngine /\ TestedUnlessRaced
  /\ ClosedIsQuiet /\ EventsInOrder /\ TestsShown /\ ConnectedWasTested /\ SavedTable

\* A test that has been started gives the button back, unless the program is closed.
TestIsAnswered == (open /\ ~testOn) ~> (testOn \/ ~open)
===============================================================================
