# wtelnet in TLA+

wtelnet is a chat server over Telnet, in Go. Every piece of data belongs to one
goroutine and the goroutines talk over go channels (`README.md:307-330`). What
can go wrong is therefore the protocol between them: what is on its way when a
user leaves, when a chat channel shuts down or when a connection drops; what
several sessions do to one database; and what becomes of bytes that arrive in
the middle of something else. There are three models, TLC checks them on small
instances, and TLAPS proves all but the liveness for every size:

- the **chat**: channel master, chat channels and the doppelgangers of users who
  are logged in, and the abstract account of it in `Membership`;
- the **front door**: listener, Telnet goroutines and doppelgangers from the
  accepted connection through registration and login to `/create`, over one
  database;
- the **terminal**: one connection byte by byte, from the keys of its user to the
  lines that are run and back to his screen.

## The system

| component | source | state | operations |
|---|---|---|---|
| channel master | `daemon/channelmaster.go` | the map of running chat channels with their member counts | join, who, exit from doppelgangers; a refused join from chat channels; launches and shuts down chat channels |
| chat channel | `daemon/chatchannel.go` | the roster (`memberList`), the speech go channel, the log file | join, who, exit, shutdown from the master; speech from doppelgangers |
| doppelganger | `daemon/doppelganger.go` | login state, `chatChannelID`, `chatChannelCallback`, the flags and the counter of the exit procedure, the line being edited | one per connection: commands, messages from the master and from chat channels, the way out |
| Telnet goroutine | `daemon/servetelnet.go` | none of its own | one per connection: hands bytes to the doppelganger, closes the go channel when a read fails |
| login and registration | `daemon/doppelganger.go:57-264, 1080-1270` | the modes of a session, the `user` table | name, password, new account |
| line editor | `daemon/doppelganger.go:909-1061` | line buffer, cursor, control sequence | bytes to lines, echo |
| channel directory | `doCommand`, `getChatchannelID` | the `channel` table | `/create`, `/list`, look-up |
| conversation log | `daemon/chatchannel.go:247-306` | one file per channel | append |
| start-up, listener | `daemon/wtelnet.go`, `go-telnet-mod/server.go` | the globals | create the database, listen, retry |
| heartbeat | `daemon/heartbeat.go` | none | one tick a second |
| Telnet data | `go-telnet-mod/data_reader.go`, `data_writer.go` | none | escaping and stripping of IAC |

How they interact, with the buffer of each go channel:

    Telnet goroutine --0--> doppelganger --16384--> channel master --1--> chat channel
                            doppelganger <---1----- channel master <-512- chat channel
                            doppelganger --128--> chat channel (speech, past the master)
                            doppelganger <---1--- chat channel

There are three cycles (doppelganger and master, master and chat channel,
doppelganger and chat channel), and every goroutine closes the go channels it
receives on when it returns, so that a later send on them panics and takes the
whole server down (`README.md:448-463`). What is hard, and which property is
about it, is listed in `PROJECT.json` under `hazards`. In short:

- **Accounting.** The master's count and the roster change at different times;
  the Shutdown has to meet an empty roster (`README.md:511-529`).
- **Relaunch.** The map entry goes when the Shutdown is sent, not when it is
  handled; a new goroutine of the channel may overlap with the old one.
- **Return of a doppelganger.** It may return only when nothing is on its way to
  it, and it has to return at some time (`README.md:448-509`).
- **Typing ahead.** `/join`, `/exit`, `/who` are accepted while an earlier
  request is unanswered.
- **Cycles.** Bounded go channels in cycles may deadlock (`README.md:366-427`).
- **Failures.** Writes to a dropped connection, failed look-ups, ^C and ^D.

## The modules

| module | content |
|---|---|
| `ChatState` | constants with their assumptions, all variables, message formats, `Panic` |
| `ChannelMaster` | `channelMasterGoroutine`, `joinChatChannel`, `whoIsOnChatChannel` |
| `ChatChannel` | `chatChannelGoRoutine`, `processMessageFromChannelMaster`, the broadcasts |
| `Doppelganger` | the select loop in command mode, `doCommand`, `handleChannelExitProcedure` |
| `TelnetSession` | `ServeTELNET`, and the environment: the user and the network |
| `ChatServer` | the composition, fairness, all properties |
| `Membership` | abstract: who is on which channel, what he asked for, what he is yet to hear |
| `ChatMembership` | the refinement mapping from `ChatServer` to `Membership` |
| `MCChatServer` | who is who and what may be typed, for the `.cfg` files |
| `ChatServerProofs` | proof of type correctness, and of the inductive invariant of the map and what follows from it |
| `ChatAccounts` | lemmas about go channels and counting their messages; the accounting invariant and why each step of the channel master keeps it |
| `ChatRosters` | why each step of chat channels and doppelgangers keeps it, and what follows from it |
| `ChatPatience` | what holds besides when users wait for their answers |
| `ChatPatienceProofs` | why each step keeps it, and what follows from it |
| `ChatMembershipProofs` | why each step of the chat is then a step of `Membership` or none |
| `AccountState` | constants and variables of the front door, the database among them |
| `Login` | the doppelganger from its launch to `/create`: modes, echo, `userExists`, `createUser`, `login`, `createChatchannel` |
| `Listener` | `main`, `ListenAndServe`, `Serve`, `handle`, `ServeTELNET` by lines, the network, crash and restart |
| `FrontDoor` | the composition, fairness, properties |
| `FrontDoorProofs` | proof of its inductive invariant and what follows from it |
| `TerminalState` | constants and variables of the terminal |
| `TelnetData` | `internalDataReader.Read` and `ServeTELNET` by bytes |
| `LineEditor` | a byte in the doppelganger up to the return key, echo, prompts, `Write` |
| `Terminal` | the user, the lines, what arrives in between; properties |
| `TerminalProofs` | proof of its inductive invariant and what follows from it |
| `TerminalKeys` | proof that lines are run as they were entered |
| `MCFrontDoor`, `MCTerminal` | symmetry and alphabets for the `.cfg` files |

### The chat

**Steps.** A goroutine's `select` takes one message; what its handler computes
without a send belongs to that step. Every send on a go channel that may block
is a step of its own: the sends a handler still has to make wait in
`masterTodo`, `masterReplies` and `todo[i]`, a goroutine takes its next message
only when they are empty (`MasterIdle`, `ChatIdle`), and what the code does
after a send (the decrement after an Exit, the `delete` after a Shutdown, the
roster entry after a Joined) belongs to the step of that send. Go's random map
iteration is a choice among all orders of the roster. A send on a go channel
whose receiver has returned is `Panic`: `crash` says which, and nothing happens
after it.

**State.** `running[c]` is the goroutine behind the map entry of channel `c`
(0: no entry) and `memberCount[c]` its count. Chat channel goroutines are
numbered in the order they are launched, so that two goroutines of one channel
are told apart. `chatID` is `chatChannelID` with `NoChannel` for 0 and `Joining`
for -1, `callback` the goroutine behind `chatChannelCallback`, `gone` is
`telnetGoroutineHasGoneAway`, `cantExit` is
`cantExitBeforeExitMessageFromChannel`. One action of a doppelganger is one
iteration of its loop from the `select` on: the case, the exit procedure at the
end (`EndOfLoop`), and the prompt at the top of the next iteration, whose write
may fail (`StaysWithUser`). A write may fail once the connection is down, and
need not.

**What is abstracted.** Text, prompts, logging; a line is its command. The
channel master's queue of 16384 is unbounded. A slice of an empty string, an
exit from channel -1 and a `nil` callback are what they are in the code.

**Users.** A *patient* user goes by what the screen says: he does not type the
next request before the last one is answered. An *impatient* one types anything
at any time. `view` is what the screen says to a patient user and nothing in the
server reads it. The source refuses neither, and the difference is the finding
of several runs below: what holds for patient users only is checked with
`Impatient = {}` and so named.

**Time.** The seconds a zombie counts are iterations of its loop. With `Timely`,
the count does not reach `CantExitLimit` while something about that doppelganger
is still on its way: messages take less than 1000 seconds. It is an assumption
about the machine, and runs that do not need it leave it out. With it,
`CantExitLimit = 1` loses nothing: the limit is met exactly when nothing is
under way.

**The promise.** `Membership` knows no goroutines: a user asks to join or to
leave, the request is decided (admitted while there is room, refused otherwise,
released), and he hears of it once. `ChatMembership` says where each of these
is in the server. A request is decided when a handler takes it out of its go
channel, so that those a chat channel's handler is about to enter are on the
roster already (`Entering`) and the one whose exit it announces is not
(`Leaving`); a request is any join or exit in the two queues or in the master's
hands; a verdict is any answer in a doppelganger's go channels or in a
handler's. That these unions have one member at most, that a refusal of the
master and one of the chat channel are never both on their way and that a second
goroutine of a channel never has members the first one lost is what the
refinement amounts to. It is checked on an instance, and proved for every one,
for patient users and look-ups that do not fail; without either it does not
hold, see below.

### The front door

**Steps.** An action of `Login` is an iteration of the loop with one line, from
the `select` to the prompt of the next iteration. The transactions are two
steps, the SELECT and the rest, since each of them is a statement of its own and
other sessions may use the database in between; of the database it is assumed
that a statement is atomic, that the UNIQUE constraints hold and that a rolled
back transaction leaves nothing. SQLite's own locking is stricter than that. A
query or a transaction may fail (`DatabaseErrors`).

**Lines.** A user types what the prompt asks for: `Awaited` is the prompt a line
typed now will meet, so that a name is a name even if typed while `createUser`
runs. At most one line is under way, in the hands of the Telnet goroutine;
`buffered` lines are still unread when the user drops. `EchoFails` is the byte
of a line whose echo finds the connection down: the doppelganger returns and the
rest of the line is never received.

**Faults.** A connection drops at any time, after which writes may fail or not.
`ProgramEnds` is a crash, a panic or an error of `ListenAndServe` that `main`
does not retry; what is left is the database, and `StartsUp` finds it. Accepting
needs a file descriptor (`FdLimit` counts the listener's); without one `Serve`
returns, which closes the listener, and `main` sleeps and listens again.

**State.** `user` and `channel` are the rows with their position as ID. `mode`,
`attemptingUserName`, `attemptingUserNewPassword`, `userID`, `userName`, `echoOn`
are the fields of `userInfo`, `gone` is `telnetGoroutineHasGoneAway`. A slot of
`Connections` is used again when its doppelganger has returned and its
descriptor is closed.

Users who are on a chat channel are not in this model, and the way out over
`handleChannelExitProcedure` is that of a user on no channel; the chat models the
other one.

### The terminal

**Steps.** `Read` takes a byte of the wire at a time and may be anywhere in a
Telnet command when the wire is empty; a byte it returns is `handed` over; the
doppelganger takes it, or takes a message from the chat first. The line buffer
is what it is in the code: overwritten from `cursorColumn` on, never cleared.

**The user** sees `line` as the line he is typing and `entered` as those he has
entered. He types letters, a space and a byte 255 (which his client doubles),
both forms of the return key, backspace as 8, 127 or the left arrow, and keys
and Telnet commands that do nothing. At a prompt for a password he types
`Secrets`, and only once the prompt is there. He does not send a second request
for a channel before the first is answered: after an impatient `/exit` and
`/join` a screen can keep a part of an old line.

**The screen** is the line the cursor is on. `Erased` is `\b \b` so many times,
which stops at the first column. Bytes stand for characters, lines do not wrap.
The writer sends a 255 as it is (`data_writer.go:94-97`; the comments above it,
26-66, still describe the doubling that `README.md:1035-1048` says was taken
out), the user's client takes it for a command, and `garbled` says that the
screen is not followed any more.

What the model shows of the code besides: `prevUsrByte` is never assigned, so
that the pairing of CR and LF (`doppelganger.go:961-970`) is dead code and it is
the check for a blank line that drops the second byte. Any Telnet command but
option negotiation and IAC SE (IAC NOP, for one) is `errCorrupted` and ends the
session, though `README.md:133-135` says commands from the client are stripped
out. ESC takes the next two bytes with it whatever they are, so that a key of
four bytes leaves its last one in the line. A failing `/create` leaves the user
without a prompt (`doppelganger.go:333-346`). `chatChannelID` stays -1 after a chat
channel's refusal (`doppelganger.go:1417-1428`; the channel master's sets it to 0), so
that what the user says then (`chat = "refused"`) is backspaced out and does not come
back: it goes nowhere, or to the goroutine of a channel he has left (561-568).

## What the runs check

The runs of the chat instantiate `MCChatServer`, those of the front door
`MCFrontDoor`, `Terminal` `MCTerminal`. `CHECK_DEADLOCK FALSE` stands in runs where
impatient users can bring the server to a stop and in runs that look for one
violation; the runs with patient users only check that no state but an idle
server (`Idle`) is without a step.

| run | instance | shows |
|---|---|---|
| `Alone` | 1 impatient user, 2 channels of 1 seat, all commands, failing look-ups, 4 lines, untimely, speech buffer 1 | types; map entries are live; an ID a doppelganger holds is in the map; the Shutdown meets an empty roster; a count is never too low |
| `Rivals` | 2 impatient users, 1 seat, 2 lines each, untimely | the same with refusals and with the inductive invariants of the proofs for any users, `IInv` and `AccountsInv` |
| `OneSeat` | 2 patient users, 1 seat, join, exit, who, ^C or ^D, 2 lines each | the count is exact; nothing is sent to a doppelganger that has returned; an empty server has no goroutine and no entry left; no panic, no deadlock; `ChatServer` implements `Membership`; `PatientInv`, the inductive invariant of the proofs about patient users |
| `TwoLogins` | 2 logins of one patient user, join, exit and speech, 3 lines each | the two are told apart by doppelganger ID; speech never meets a goroutine that has returned; views agree |
| `Released` | 2 patient users, 1 seat, fair | a dropped user's doppelganger returns; a request is answered |
| `FrontDoor` | 2 connections at a time beside the listener (3 descriptors), 1 name, 2 passwords, 1 channel, failing database | types and the inductive invariant; unique names; a session is the owner of its row; echo off for passwords only; rows keep their names over failures and restarts |
| `Departures` | 2 slots, 1 connection at a time beside the listener (2 descriptors), 1 password, failing database, fair | a dropped user's doppelganger returns; a connection that is done with is closed, and a listener that met its limit listens again |
| `Terminal` | lines of 2 bytes out of a letter, a space and 255, a secret, 1 byte ahead | types and the inductive invariant; lines run as entered; the editor follows the keys; the screen shows the line; conversation is unbroken; no password is shown |

Bounds. `MaxLines` bounds the lines of a user and `MaxLaunches` the goroutines;
where they allow it (`MaxLaunches` at least the sum of the lines) the second
never cuts a behaviour off; two launches are enough for `OneSeat` and `Released`,
whose users get one seat each at most with their two lines. A patient user's
third line begins where nothing of him is under way; `TwoLogins` has three, and
the theorems have any number of them. Four lines hold a join, a second join, an exit and a
`/who`, the longest combination a property turned out to need. Real seats are
6: with 1 and 2 seats and one user more, full, refused, last to leave and
relaunch all happen. Buffers of 4 are never full in the runs with patient users;
`Alone` and the cycle run have them full.

Two connections are enough for two transactions to cross, one name for them to
collide, and two passwords to tell who wrote last. `FdLimit` counts the
listener's descriptor. With three, as in `FrontDoor` and `AccountTakenOver`, two
users are connected while the listener listens, and a third one's attempt finds
no descriptor left: `Serve` returns, the listener closes, and `main` retries. With
two, as in `Departures`, the second user's attempt does so, and another
connection is accepted only when the descriptor of the first is closed. `FrontDoor` with the fairness of `Departures` would
have half a million states to search for cycles.
`MaxBuffered = 1` leaves a line unread. Lines of two bytes have a first, a last
and a column to go back to; `MaxAhead = 1` has a key pressed while the last one
is under way, and the longest key is eight bytes, all of them cut from each
other.

### Disagreements with what the repository says

Each of these runs is expected to be violated, by the code as it is; what the
repository says is quoted in `PROJECT.json` under `findings`.

| run | what happens |
|---|---|
| `ExitWhileJoining` | `/exit` before the join is answered names channel -1; the master takes "should never happen" and its goroutine returns: no join or exit works again |
| `SpeechCycle` | speaker and chat channel wait for each other once the speech buffer is full (scaled from 128 to 2; the waiting does not depend on the size, only the number of lines needed does) |
| `AccountTakenOver` | two sessions register one free name; both users are connected throughout; the second SELECT finds the row and the UPDATE replaces its password, and both go on to log in |
| `TelnetLeak` | a doppelganger that notices first that its user is gone returns; the Telnet goroutine stays in its send, the descriptor open |

`AccountTakenOver` has `DatabaseErrors = FALSE`: it is the race alone. With
errors one session is enough, since a `userExists` that fails goes on as "does
not exist" (`doppelganger.go:1093-1127`).

Four more have the same causes and are left to the reader to run, each a copy of
a `.cfg` with a few lines changed:

| property | from | changes | what happens |
|---|---|---|---|
| `NoCrash` | `ExitWhileJoining` | `Impatient = {}`, `DatabaseErrors = TRUE` | a failed look-up is answered twice, for want of a `return` (`channelmaster.go:246`); the user leaves in between, and the second answer is a send on a closed go channel |
| `EmptyServerIsClean` | `ExitWhileJoining` | `MaxLines = 3` | two joins before the answer count 2 and sit once: goroutine and entry are never released (`README.md:311-316`, 691-694) |
| `ZombiesShutDown` | `Released` | `Offered <- JoinExitQuit` | refused by a full channel, then ^D: nothing wakes the zombie that is to count to 1000 (`README.md:473`) |
| `MasterAndChatNeverWedge` | `OneSeat` | `DenialBuffer = 1`, `CHECK_DEADLOCK FALSE` | master and chat channel wait for each other once the buffer of refusals is full (`README.md:404-427`) |

Typing ahead has more consequences than these runs show, from the same cause.
With `NoCrash` as its invariant and `Impatient` set to everybody, `OneSeat` finds
a join answered after the doppelganger returned on an earlier exit, `TwoLogins`
finds speech sent through the `chatChannelCallback` of a goroutine that has shut
down (the user is `Joining` again), and `ExitWhileJoining` with four lines of
`Everything` a `/who` that meets the empty roster of a running channel
(`""[2:]`, `chatchannel.go:228`).

`README.md:318-322` asks whether two goroutines of one channel can exist and
trusts the serialization by the master to make it impossible. They can: a
channel that is left and joined again is launched again while its old goroutine
is still telling its members. It is harmless as far as the proofs go:
`OneLiveGoroutinePerChannel` and `MasterNeverSendsOnClosed` hold for every size.

### Fairness

Weak fairness of each goroutine (`MasterStep`, `ChatStep(i)`, `DoppStep(d)`,
`TelnetStep(d)`), conditioned on no panic: the Go scheduler is preemptive and
runs whatever is ready, and a `select` chooses at random among ready cases. The
fairness is of the goroutine, not of each case of its `select`. `TelnetStep` is
in it because a read of a dropped connection returns. Nobody has to type and no
connection has to drop.

The front door has the same for each doppelganger (`Iterates`), for the Telnet
goroutine (`ReadFails`, `HandlerReturns`, and `UserTypes` only of lines that had
arrived before their user dropped) and for the retry of `main`. No user has to
type while he is connected, nothing has to fail and the program need not end.
`TelnetLeak` is a counterexample under this fairness.

## What is proved

The chat, for all `Doppelgangers`, `Channels` and sizes, from `IdsAssumption`,
`SizesAssumption` and `OfferedAssumption` of `ChatState`. Up to `ChatRosters`
nothing else is assumed: users may be impatient, messages slow, look-ups may
fail. The theorems of `ChatPatienceProofs` and `ChatMembershipProofs` have the
hypothesis `PatientUsers`, that of the runs that check their properties: nobody types ahead, look-ups do not
fail, messages take less than the limit of a zombie. Without any one of the
three `NoCrash` is false: the section above shows it for users who type ahead and
for look-ups that fail, and `OneSeat` with `Timely = FALSE` for a zombie that gives
up before its join is answered. The refinement needs `LeaveAssumption` besides,
which keeps the name of an `/exit` among the requests apart from the channels.
The front door, for all
`Connections`, `Names`, `Passwords`, `ChannelNames` and limits, from
`LimitsAssumption` of `AccountState`. The terminal, for all `Letters`, `Secrets`
and bounds, from `BytesAssumption` and `SecretsAssumption` of `TerminalState`: the
second sets the bytes of passwords apart from those that prompts and other keys
are made of, since what is seen on a screen does not say why it was sent.

| theorem | module | states |
|---|---|---|
| `TypeCorrect` | `ChatServerProofs` | `Spec => []TypeOK` |
| `Invariance` | `ChatServerProofs` | `Spec => []IInv` |
| `EntriesAreLive` | `ChatServerProofs` | a map entry stands for a running goroutine of its channel with no Shutdown queued |
| `OneIsLive` | `ChatServerProofs` | all goroutines of a channel but the one in the map have a Shutdown queued |
| `MasterSendsToOpen` | `ChatServerProofs` | the master never sends on a go channel a chat channel has closed |
| `AccountsKept` | `ChatRosters` | `Spec => []AccountsInv`, the accounting invariant |
| `CountIsNeverTooLow` | `ChatRosters` | the master's count is never below the roster with the joins and without the exits under way |
| `ShutdownIsOfEmptyRoster` | `ChatRosters` | a chat channel handles its Shutdown with nobody on the roster |
| `HoldersAreServed` | `ChatRosters` | the channel a doppelganger takes itself to be on is in the master's map |
| `DenialsAreCounted` | `ChatRosters` | a refusal finds the map entry it is to decrement |
| `PatienceKept` | `ChatPatienceProofs` | `PatientUsers => (Spec => []PatientInv)` |
| `PatientAreNotSentTo` | `ChatPatienceProofs` | patient users: nothing is sent to a doppelganger that has returned |
| `PatientCauseNoCrash` | `ChatPatienceProofs` | patient users: no goroutine panics |
| `PatientKeepMasterUp` | `ChatPatienceProofs` | patient users: the channel master does not return |
| `PatientCountsMatch` | `ChatPatienceProofs` | patient users: the master's counts are exact |
| `PatientViewsAgree` | `ChatPatienceProofs` | patient users: a doppelganger with nothing on its way is on the one roster it takes itself to be on |
| `PatientLeaveNothing` | `ChatPatienceProofs` | patient users: an idle server that everybody has left has no goroutine and no entry left |
| `PatientPromiseKept` | `ChatMembershipProofs` | patient users: `Spec => KeepsPromise`, the chat implements `Membership` |
| `FrontDoorInvariant` | `FrontDoorProofs` | `Spec => []IInv` |
| `NamesStayUnique` | `FrontDoorProofs` | no two users and no two channels of one name |
| `SessionsAreOwners` | `FrontDoorProofs` | a session past the login is the owner of its row; a password is asked only of one who has an account |
| `RowsAreKept` | `FrontDoorProofs` | no step takes a row away or changes its name |
| `PasswordsAreUnseen` | `FrontDoorProofs` | the echo is off exactly where a password is asked for |
| `FrontDoorTypes` | `FrontDoorProofs` | `Spec => []TypeOK` |
| `TerminalInvariant` | `TerminalProofs` | `Spec => []IInv` |
| `PasswordsStayHidden` | `TerminalProofs` | no byte of a password is ever on the screen |
| `LineStaysOnScreen` | `TerminalProofs` | the screen shows prompt and line, also after conversation came in |
| `ConversationStaysUnbroken` | `TerminalProofs` | nothing of prompt or line is left in a line of conversation |
| `TerminalTypes` | `TerminalProofs` | `Spec => []TypeOK` |
| `KeysAreFollowed` | `TerminalKeys` | `Spec => []KeysInv` |
| `LinesAreRunAsEntered` | `TerminalKeys` | every line is run as it was entered, once and in order |
| `EditorKeepsUp` | `TerminalKeys` | with nothing under way the editor has the user's line, and no line is missing |

The argument for the chat. A chat channel returns only by handling a Shutdown. The master
sends a Shutdown through the map entry and deletes the entry in the same step,
so a goroutine with a Shutdown queued is in no entry, and one without is running
(`EntryIsLive`); conversely one that lost its entry has the Shutdown
queued until it returns (`OneLiveGoroutinePerChannel`). For this to be inductive
the master's handler may not have a second send queued behind the one that
deletes the entry (`OneSendAtATime`) and goroutines yet to be launched have
empty inboxes (`UnbornAreUnused`). `WaitBelowLimit` makes the type of
`cantExitCount` inductive: a doppelganger still in its loop has not reached the
limit. Each action is a lemma; the types are proved per group of variables,
since most actions leave most groups alone. `Rivals` checks `IInv` with TLC.

The argument for the accounts. `CountCoversRoster` is not inductive, nor is what
one would say of it first, that a member has one exit to come: the users of
these theorems type ahead, so one doppelganger may have several joins answered
and several exits on the way, and the count goes down by each. What every
decrement needs is something that is counted *before* it. `Due(c)` is that sum:
the joins between master and chat channel, the exits asked of the master and not
yet passed on, and the *claims*. A doppelganger claims a seat while it takes
itself to be on `c` (`Holders`), and while a Joined is in its go channel
(`Hearing`); a member who does neither and has no exit under way claims one too
(`Unclaimed`: his session was given another channel by a later answer).
`CountCoversDue` says that the count is at least `Due`. It is inductive because
each step moves a summand to another or drops it, and the two that lower the
count drop one of their own: the send of an Exit the request it answers, a Denial
the join it refuses. An `/exit` turns a `Holder` into a request, an answer turns
`Hearing` into `Holder`, and a handler that is done with a join turns it into
`Hearing` or into a Denial.

The rest of `AccountsInv` says that these summands are what they seem. A verdict
counts for the goroutine that gives it only while that one is in the map
(`VerdictsStand`), else the joins of a goroutine on its way out would be charged
to its successor. A `Holder`'s channel is in the map
(`HoldersKeepTheirChannel`), else its `/exit` would find no entry; this comes from
the count, which a claim keeps above 0, so that no Shutdown can be due. A
handler announces one exit at most (`OneLeaverAtATime`), and go channels of
buffer 1 hold one message (`OneMessageOfBuffer`), so that taking one empties
them. A goroutine that has its Shutdown has nobody on its roster but whom it is
about to take off (`ShutdownIsLast`): at the send the count is 0, so `Due` is 0,
no member claims and none is `Unclaimed`, hence the exit of each has been handed
over, and since the go channel was empty it is the one that is being announced.

The roster itself is bounded at the end (`RosterIsDue`): each member is a
claimant, has an exit asked for or is about to be taken off, and each of these
sets is no larger than the messages it is read from. `ChatAccounts` has the steps
of the master, `ChatRosters` those of chat channels and doppelgangers; steps that
only read a message and move a claim are gathered in one lemma (`DoppMoves`).
`Rivals` checks `AccountsInv` with TLC.

The argument for patient users. All six properties come from one: of each
doppelganger one join or exit, a *matter*, is under way at most (`OneMatter`). It
is in one of six places (`MatterAt`: the master's queue, the master's hands, a chat
channel's inbox, the sends of its handler, and the two go channels to the
doppelganger), and in each at most once (`NothingBehind`). What makes this
inductive is that the doppelganger knows (`SessionsKnow`): `Knows` relates
`chatChannelID`, `cantExitBeforeExitMessageFromChannel`,
`telnetGoroutineHasGoneAway`, the screen and a line still in the Telnet
goroutine's hands to the matter under way, so that a patient user's next request,
and the exit procedure's own, begin where nothing is. A step then moves one
matter on, or ends it (`MatterMoves`, `MatterGoes`), and leaves those of the others.

The rosters follow (`SeatsAreTaken`): a member not being taken off is one who
takes himself to be on the channel, is about to hear of it or has asked to leave,
and since a matter is one, never two of these. That the master's count is equal
to `Accounted` is then a sum of changes with sign (`Changes`, `CountKept`): where
the impatient have an inequality, each step here adds what it takes. The count
is 0 only as a Shutdown is sent (`EntriesCount`), and so an idle server has an
entry only while somebody is on the channel. A handler's texts go to members, or
to whom it admits; a refusal reported to the master is one that is told as well
(`RepliesReach`). A turn of a doppelganger has the most cases: `Handler` says what
each of its handlers leaves to the exit procedure, `LoopOutcome` that it stays,
leaves its channel or returns, the last only when nothing of its own is left,
and `HandlerKeeps` that any of these keeps the invariant; for the zombie's limit
this is where `Timely` is needed. `OneSeat` checks `PatientInv` with TLC.

The argument for the promise. It is a step simulation: under `PatientInv` each
action of `ChatServer` is an action of `Membership` on the mapped variables, or
leaves them as they are (`NextPromised`). The mapping collects a user's requests
and verdicts from all go channels and all handlers, and a step changes one or two
of these places. `Wishes` and `Words` therefore say place by place what
`requestOf` and `verdictOf` say as a union (`WishesAre`, `WordsAre`), and `Seated`
and `SeatsAre` do it for the rosters. `OneMatter` of `PatientInv` becomes
`OneEntry`: what a user asked for and what he is to hear has one member or none
taken together, so that a step that takes the one leaves the empty set and a
step that adds one found it empty. For each action of `Membership` one lemma says
what has to be shown of the entry of its user and of the channel's roster
(`PromisedAdmits`, `PromisedRefuses`, `PromisedReleases`, `PromisedHears`...);
everything else stays, and a lemma for each kind of step says so.

The steps are of four kinds. A user's line or lost connection is `Types`, `Drops` or
nothing (`TypingPromised`, `LinePromised`). A doppelganger's turn begins a request,
hears of one, or hears of its admission and asks to leave at once because its user
dropped meanwhile: `Handler` and `Outcome` of `ChatPatienceProofs` say what a turn
leaves, `HearsNothing` and `HearsWord` what was heard in it (`StepHears`). The decision is in a chat channel's handler (`JoinDecided`,
`ExitDecided`), in the launch (`LaunchPromised`) or in the master's refusal of a
name it does not find. All other sends move a wish or a word on to the next place
(`SendPromised`, `DenialPromised`, `DeliveryPromised`, `TellPromised`).

Three facts are not in `PatientInv`. A doppelganger that takes its user to be gone
is right (`DropsAreKnown`, an invariant of its own): the exit it then asks for is one
`Membership` allows. A handler that announces an exit or a joining tells every
member, in whatever order the map iteration yields them (`BroadcastReaches`): there
are as many texts as members, to different ones. And a Shutdown that takes away
the entry takes nobody off (`ShutdownLeavesNobody`), because the count was exact.

The argument for the front door. That a session owns its row is kept by others
because they only append rows or overwrite one with a row of the same name
(`WrittenKeeps`, from which `RowOfKept`: who was found is found again). That an
UPDATE overwrites with the same name needs what its SELECT found to be there
still (`TransactionsStand`), and this needs the same of the steps of others. The
name a transaction writes is the one attempted (`AttemptsAreNamed`), and a line
is of the type its handler stores because it was typed for the prompt it meets
(`LinesFitPrompts`), also when its slot is used by a new connection. Nearly every
step of a doppelganger ends in `Sets`: the lemma `SetsKeeps` says once what the
new values have to satisfy (`Fits`) and what else may have changed (`Around`),
and each handler has a short lemma that shows this. `RowsAreKept` follows from
the same two facts about `Written`. `FrontDoor` checks `IInv` with TLC.

The argument for the terminal. A secret is typed only when nothing is under way,
so it is the first byte of the wire and the mode cannot change before it has been
taken, since only a return key changes it (`SecretsInTheirPlace`); in the line
buffer it is to the left of the cursor only until the line is run, and what is to
the right is shown by nothing. What is backspaced out before conversation is as
long as prompt and line because `promptLen` is the length of the prompt of now
(`PromptIsMeasured`) and the screen is that prompt and that line
(`ScreenShowsLine`), whose bytes grow and shrink together (`SuffixGrows`,
`SuffixShrinks`, `ErasedConcat`). `Terminal` checks `IInv` with TLC.

The argument for the echo: `PasswordUnseen` is extended to a session in the
middle of a transaction, which goes on with the echo it found
(`EchoFollowsMode`); then each `Sets` has to give mode and echo together.

The argument for the keys. What has to be invariant is about the bytes that are
still under way: they will take the editor from where it is to what its user
means. `Seen` and `Fed` say what one byte does to an editor, as a function of its
state and the byte; `Meant` is the line as the user sees it and the number of lines
he has entered that are not run yet; `Upcoming` is the editor of now, or once it
has taken the byte handed over. To say what *all* the bytes do one would
compute it by recursion over the wire, and the steps would need induction over
it. `KeysInv` says instead that there *is* a run: a function from the positions of
the wire to states of the editor (`Follows`), each of them what the byte makes of the
one before and each line it runs the next one entered (`Right`), from `Upcoming` to
`Meant` or to the end of the session (`Reaches`). A key adds bytes to the wire, so it
adds states to the end of the run, one lemma per kind of key (`LeadsOn`, then
`KeyOfOne` to `KeyOfThree`, `Negotiation`, `Subnegotiation`, `ArrowSent`...). A byte
that is read drops the first state (`LeadsFrom`). A line that is run takes one off
the count of all of them (`LeadsShorter`). Bytes after ^C or an unknown Telnet
command lead nowhere, so that the run may end there. With nothing under way the run
has one state, and that is `EditorFollowsKeys`; that the byte handed over is `Right`
is `LinesRunAsEntered`. TLC cannot enumerate the runs: `Terminal` checks these two
consequences. With the run computed, as a recursive function of the wire,
`KeysInv` held in every state of that instance.

Only model-checked: the liveness properties (`DroppedUserIsReleased`,
`RequestIsAnswered`, `DroppedSessionEnds`, `ServesAgain`), which are out of the
prover's reach.
Every invariant, action property and refinement that a passing run checks is
stated by a theorem. Symmetry is used in safety runs only.

## What is not modelled

- The conversation log: nothing reads it back. What may go wrong with it, two
  goroutines of one channel that append at a time and the end of the program
  when it cannot be opened, is in `hazards`.
- The creation of the schema is one step of `Init`; a crash in it is in `hazards`.
- The exit procedure of a user who is on a channel and the login are in different
  models; they share the doppelganger, not its state: before the login there is
  no channel, and after it the login modes are not met again.
- IDs of doppelgangers are distinct, though `doppelganger.go:743-744` draws them
  from a generator seeded with the time.
- Characters of several bytes, lines that wrap, cursor keys of more than three
  bytes.
- The heartbeat case of the master and its answer to an exit with ID 0
  (`channelmaster.go:273-288`): the one only prints, the other is never sent.
- The Telnet library's client, TLS and shell parts, its examples and its
  documentation, which are most of the files the map does not reach and which
  the chat server does not use.

## Plan

Done: the chat with its abstract account and the proof that it implements it, the
front door, the terminal. Left:

1. A composition of front door and chat, whose interface is a line typed in
   command mode and the return of a doppelganger.
2. `Conversation`: the order of what members see and of the log, per channel.
