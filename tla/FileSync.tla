------------------------------ MODULE FileSync ------------------------------
(* The file sync client of adb (push, pull, sync, ls) talking to the sync  *)
(* service of the device over one connection.  The service is not part of  *)
(* the repository: it is modelled from how the client uses it.  Files are  *)
(* sequences of chunks (one ID_DATA packet each) with a time; their names, *)
(* modes and the progress messages are left out.                           *)
EXTENDS Integers, FiniteSets, Sequences, Functions

CONSTANTS Files,     \* the files of the source
          First,     \* the one that push, install and pull copy
          Content,   \* [file -> sequence of chunks]
          Parent,    \* [file or directory -> the directory it is in]
          Root,      \* the directory that is copied or listed
          Commands,  \* the commands that are run
          MaxRuns,   \* commands run one after the other
          Cap,       \* messages the connection holds, each way
          None

Dirs == DOMAIN Parent \ Files
Entries(d) == {x \in DOMAIN Parent : Parent[x] = d}

(* Every entry of a directory of S is in S.                                *)
Closed(S) == \A x \in DOMAIN Parent : Parent[x] \in S => x \in S

(* The source is a tree of directories, with files as leaves: everything   *)
(* is below the directory that is copied, and no directory below itself.   *)
ASSUME SourceTree ==
  /\ IsFiniteSet(DOMAIN Parent) /\ Files \subseteq DOMAIN Parent /\ First \in Files
  /\ \A f \in Files : Entries(f) = {} /\ Content[f] \in Seq(Range(Content[f]))
  /\ \A f \in Files : \A t \in {0, 1} : [data |-> Content[f], time |-> t] # None
  /\ Root \in Dirs /\ \A S \in SUBSET DOMAIN Parent : Root \in S /\ Closed(S) => Files \subseteq S
  /\ \A d \in Dirs : \E S \in SUBSET DOMAIN Parent : Entries(d) \subseteq S /\ Closed(S) /\ d \notin S

ASSUME CapAssumption == Cap \in Nat \ {0}

VARIABLES cmd, pc, todo,   \* the command, its next step, the copyinfo list
          left,            \* of the current loop: list entries or chunks to do
          flag,            \* files found up to date
          dirs,            \* directories still to be listed
          unread,          \* files the client could not read
          result,          \* the command's exit status
          runs,            \* commands started
          toD, fromD,      \* the connection
          link,            \* it is up
          dmn,             \* the service: what it does, for which file
          dst,             \* the copies at the destination
          refused          \* files the device could not read

conn == <<toD, fromD, link>>
device == <<dmn, refused>>
vars == <<cmd, pc, todo, left, flag, dirs, unread, result, runs, conn, device, dst>>

New(f) == [data |-> Content[f], time |-> 1]
Old == [data |-> <<0>>, time |-> 0]
Empty == [data |-> <<>>, time |-> 0]
Idle == [does |-> "idle", file |-> None, rest |-> <<>>]
Msg(id, f, x) == [id |-> id, file |-> f, x |-> x]

(* A set of names as the list a directory is read into: each of them once, *)
(* in any order.                                                           *)
Orders(S) == UNION {Bijection(1 .. n, S) : n \in 0 .. Cardinality(S)}

Pulls == {"pull", "pulldir", "ls"}
OneFile == {"push", "install", "pull"}
Trees == {"pushdir", "sync", "list"}

ASSUME KnownCommands == Commands \subseteq Pulls \cup OneFile \cup Trees /\ MaxRuns \in Nat \ {0}

Init ==
  /\ cmd \in Commands
  /\ pc = "start" /\ result = "none" /\ runs = 1
  /\ todo = <<>> /\ left = <<>> /\ flag = {} /\ dirs = <<>> /\ unread = {}
  /\ toD = <<>> /\ fromD = <<>> /\ link = TRUE
  /\ dmn = Idle /\ refused = {}
  /\ dst \in [Files -> {None, Old} \cup {New(f) : f \in Files}]
  /\ \A f \in Files : dst[f] \in {None, Old, New(f)}

---------------------------------------------------------------------------
(* writex and readx: a packet goes out when there is room, comes in when   *)
(* there is one, and both fail once the connection is down.                *)

Write(m) == link /\ Len(toD) < Cap /\ toD' = Append(toD, m) /\ UNCHANGED <<fromD, link>>
Read == link /\ fromD # <<>> /\ fromD' = Tail(fromD) /\ UNCHANGED <<toD, link>>
Reply == Head(fromD)

Goto(stage) == pc' = stage /\ result' = result
Return(status) == pc' = "end" /\ result' = status
Same == UNCHANGED <<cmd, runs, device>>

(* Mutant: a failing read of file data is tried again.                     *)
io_fails_retries ==
  /\ ~link /\ pc \notin {"start", "next", "end"}
  /\ CASE pc \in {"send_data", "recv_data"} -> Goto(pc)
       [] pc = "quit" -> Return("success")
       [] OTHER -> Return("error")
  /\ Same /\ UNCHANGED <<todo, left, flag, dirs, unread, conn, dst>>

(* A step that talks to the device ends the command with an error when the *)
(* connection is down; only write_data_file's and sync_quit's results are  *)
(* not looked at.                                                          *)
io_fails ==
  /\ ~link /\ pc \notin {"start", "next", "end"}
  /\ CASE pc = "send_data" -> Goto("send_done")
       [] pc = "quit" -> Return("success")
       [] OTHER -> Return("error")
  /\ Same /\ UNCHANGED <<todo, left, flag, dirs, unread, conn, dst>>

---------------------------------------------------------------------------
(* The start of a command that copies one file or lists the device: what   *)
(* the name at the source is has to be asked first, except for ls.         *)

Begin ==
  /\ todo' = IF cmd \in OneFile THEN <<First>> ELSE <<>>
  /\ dirs' = IF cmd \in OneFile THEN <<>> ELSE <<Root>>
  /\ left' = todo' \o dirs'
  /\ Goto(IF cmd = "ls" THEN "list_write" ELSE "stat_write")
  /\ Same /\ UNCHANGED <<flag, unread, conn, dst>>

do_sync_push == pc = "start" /\ cmd \in {"push", "install"} /\ Begin
do_sync_pull == pc = "start" /\ cmd \in {"pull", "pulldir"} /\ Begin
do_sync_ls == pc = "start" /\ cmd = "ls" /\ Begin

(* do_sync_push of a path that cannot be examined: ID_QUIT, and an error.  *)
push_nothing ==
  /\ pc = "start" /\ cmd \in {"push", "install"}
  /\ Write(Msg("QUIT", None, None)) /\ Return("error")
  /\ Same /\ UNCHANGED <<todo, left, flag, dirs, unread, dst>>

(* local_build_list: files below a directory that cannot be read are left  *)
(* out silently; only the top directory's failure is reported.  The order  *)
(* of the list is readdir's.                                               *)
local_build_list ==
  /\ pc = "start" /\ cmd \in Trees
  /\ \/ /\ \E lost \in SUBSET {f \in Files : Parent[f] # Root} :
             /\ todo' \in Orders(Files \ lost)
             /\ unread' = lost
        /\ left' = todo'
        /\ Goto(IF cmd = "pushdir" \/ todo' = <<>> THEN "next" ELSE "stat_write")
     \/ Return("error") /\ UNCHANGED <<todo, left, unread>>
  /\ Same /\ UNCHANGED <<flag, dirs, conn, dst>>

---------------------------------------------------------------------------
(* ID_STAT: sync_readmode for one path; for a sync, sync_start_readtime    *)
(* for the whole list before the first sync_finish_readtime.               *)

stat_write ==
  /\ pc = "stat_write" /\ Write(Msg("STAT", Head(left), None))
  /\ left' = IF Len(left) > 1 THEN Tail(left) ELSE todo \o dirs
  /\ Goto(IF Len(left) > 1 THEN "stat_write" ELSE "stat_read")
  /\ Same /\ UNCHANGED <<todo, flag, dirs, unread, dst>>

(* Mutant: the size is not compared.                                       *)
UpToDate_time(f, stat) == stat # None /\ stat.time = New(f).time

UpToDate(f, stat) == stat # None /\ stat.size = Len(Content[f]) /\ stat.time = New(f).time

(* The replies are matched with the list by their order.  A pull of what   *)
(* is not on the device ends here.                                         *)
stat_read ==
  /\ pc = "stat_read" /\ Read
  /\ flag' = IF cmd \in {"sync", "list"} /\ UpToDate(Head(left), Reply.x)
             THEN flag \cup {Head(left)} ELSE flag
  /\ left' = Tail(left)
  /\ IF Reply.id # "STAT" \/ (cmd \in Pulls /\ Reply.x = None)
     THEN Return("error")
     ELSE Goto(CASE left' # <<>> -> "stat_read"
                 [] left' = <<>> /\ dirs # <<>> -> "list_write"
                 [] OTHER -> "next")
  /\ Same /\ UNCHANGED <<todo, dirs, unread, dst>>

(* The loops over the copy list of copy_local_dir_remote and               *)
(* copy_remote_dir_local; a list-only sync sends nothing.                  *)
next ==
  /\ pc = "next"
  /\ LET skip == todo # <<>> /\ (Head(todo) \in flag \/ cmd = "list")
     IN  /\ todo' = IF skip THEN Tail(todo) ELSE todo
         /\ Goto(CASE todo = <<>> -> "quit"
                   [] skip -> "next"
                   [] OTHER -> IF cmd \in Pulls THEN "recv_req" ELSE "send_req")
  /\ left' = IF todo # <<>> THEN Content[Head(todo)] ELSE <<>>
  /\ Same /\ UNCHANGED <<flag, dirs, unread, conn, dst>>

---------------------------------------------------------------------------
(* sync_send.                                                              *)

(* A package is read into memory and checked before anything is sent.      *)
apk_invalid ==
  /\ pc = "send_req" /\ cmd = "install" /\ Return("error")
  /\ Same /\ UNCHANGED <<todo, left, flag, dirs, unread, conn, dst>>

send_req ==
  /\ pc = "send_req" /\ Write(Msg("SEND", Head(todo), None)) /\ Goto("send_data")
  /\ Same /\ UNCHANGED <<todo, left, flag, dirs, unread, dst>>

send_data ==
  /\ pc = "send_data" /\ left # <<>>
  /\ Write(Msg("DATA", Head(todo), Head(left))) /\ left' = Tail(left) /\ Goto("send_data")
  /\ Same /\ UNCHANGED <<todo, flag, dirs, unread, dst>>

(* Mutant: a file that cannot be read is given up without ID_DONE.         *)
send_eof_givesUp ==
  /\ pc = "send_data" /\ link
  /\ left = <<>> \/ cmd # "install"
  /\ unread' = IF left = <<>> THEN unread ELSE unread \cup {Head(todo)}
  /\ todo' = IF left = <<>> THEN todo ELSE Tail(todo)
  /\ Goto(IF left = <<>> THEN "send_done" ELSE "next")
  /\ Same /\ UNCHANGED <<left, flag, dirs, conn, dst>>

(* The end of the file, or a local file that cannot be opened or read (a   *)
(* package is in memory by now): what write_data_file returns is not used. *)
send_eof ==
  /\ pc = "send_data" /\ link
  /\ left = <<>> \/ cmd # "install"
  /\ unread' = IF left = <<>> THEN unread ELSE unread \cup {Head(todo)}
  /\ Goto("send_done")
  /\ Same /\ UNCHANGED <<todo, left, flag, dirs, conn, dst>>

send_done ==
  /\ pc = "send_done" /\ Write(Msg("DONE", Head(todo), New(Head(todo)).time))
  /\ Goto("send_status")
  /\ Same /\ UNCHANGED <<todo, left, flag, dirs, unread, dst>>

(* Mutant: a failed store is reported, and the next file sent.             *)
send_status_goesOn ==
  /\ pc = "send_status" /\ Read
  /\ todo' = Tail(todo) /\ Goto("next")
  /\ Same /\ UNCHANGED <<left, flag, dirs, unread, dst>>

send_status ==
  /\ pc = "send_status" /\ Read
  /\ todo' = IF Reply.id = "OKAY" THEN Tail(todo) ELSE todo
  /\ IF Reply.id = "OKAY" THEN Goto("next") ELSE Return("error")
  /\ Same /\ UNCHANGED <<left, flag, dirs, unread, dst>>

---------------------------------------------------------------------------
(* sync_recv.                                                              *)

recv_req ==
  /\ pc = "recv_req" /\ Write(Msg("RECV", Head(todo), None)) /\ Goto("recv_first")
  /\ Same /\ UNCHANGED <<todo, left, flag, dirs, unread, dst>>

Extend(file, chunk) == [file EXCEPT !.data = Append(@, chunk)]

(* One reply.  The first one creates the local file, data is added to it,  *)
(* ID_DONE ends it; on anything else the file is unlinked and the copy     *)
(* counts as done.  Creating or writing the local file may fail.           *)
recv_reply ==
  /\ pc \in {"recv_first", "recv_data"} /\ Read
  /\ LET f == Head(todo)
         opened == IF pc = "recv_first" THEN Empty ELSE dst[f]
     IN  \/ /\ Reply.id = "DATA"
            /\ dst' = [dst EXCEPT ![f] = Extend(opened, Reply.x)]
            /\ Goto("recv_data") /\ todo' = todo
         \/ /\ Reply.id # "DATA"
            /\ dst' = [dst EXCEPT ![f] = IF Reply.id = "DONE" THEN opened ELSE None]
            /\ Goto("next") /\ todo' = Tail(todo)
         \/ /\ pc = "recv_first" /\ Reply.id \in {"DATA", "DONE"}
            /\ dst' = [dst EXCEPT ![f] = None]
            /\ Return("error") /\ todo' = todo
         \/ /\ Reply.id = "DATA"
            /\ dst' = [dst EXCEPT ![f] = opened]
            /\ Return("error") /\ todo' = todo
  /\ Same /\ UNCHANGED <<left, flag, dirs, unread>>

---------------------------------------------------------------------------
(* sync_ls; remote_build_list calls it for every directory it finds.       *)

list_write ==
  /\ pc = "list_write" /\ Write(Msg("LIST", Head(dirs), None))
  /\ dirs' = Tail(dirs)
  /\ Goto("list_read")
  /\ Same /\ UNCHANGED <<todo, left, flag, unread, dst>>

sync_ls_build_list_cb(name) ==
  /\ dirs' = IF name \in Dirs THEN <<name>> \o dirs ELSE dirs
  /\ todo' = IF name \in Files THEN <<name>> \o todo ELSE todo

(* Only ID_DONE ends a list well.                                          *)
list_read ==
  /\ pc = "list_read" /\ Read
  /\ IF Reply.id = "DENT" /\ cmd = "pulldir"
     THEN sync_ls_build_list_cb(Reply.file)
     ELSE UNCHANGED <<dirs, todo>>
  /\ IF Reply.id \notin {"DENT", "DONE"}
     THEN Return("error")
     ELSE Goto(CASE Reply.id = "DENT" -> "list_read"
                 [] Reply.id # "DENT" /\ dirs # <<>> -> "list_write"
                 [] OTHER -> "next")
  /\ Same /\ UNCHANGED <<left, flag, unread, dst>>

sync_quit ==
  /\ pc = "quit" /\ Write(Msg("QUIT", None, None)) /\ Return("success")
  /\ Same /\ UNCHANGED <<todo, left, flag, dirs, unread, dst>>

Client ==
  \/ io_fails \/ do_sync_push \/ do_sync_pull \/ do_sync_ls \/ push_nothing \/ local_build_list
  \/ stat_write \/ stat_read \/ next
  \/ apk_invalid \/ send_req \/ send_data \/ send_eof \/ send_done \/ send_status
  \/ recv_req \/ recv_reply \/ list_write \/ list_read \/ sync_quit

---------------------------------------------------------------------------
(* The sync service of the device: it answers its requests in order.  A    *)
(* file it cannot store is failed at once, and its remaining data skipped. *)
(* The text of a FAIL fits in the client's buffer (256 bytes): sync_recv   *)
(* would leave the rest of a longer one in the stream.                     *)

Request == Head(toD)
Answer(m) == Len(fromD) < Cap /\ fromD' = Append(fromD, m)
Consume == link /\ toD # <<>> /\ toD' = Tail(toD)
Host == UNCHANGED <<cmd, pc, todo, left, flag, dirs, unread, result, runs, link>>

Stat(f) == IF dst[f] = None THEN None ELSE [size |-> Len(dst[f].data), time |-> dst[f].time]

d_stat ==
  /\ dmn = Idle /\ Consume /\ Request.id = "STAT"
  /\ LET f == Request.file
     IN  IF cmd \in Pulls
         THEN \E there \in {TRUE, None} : Answer(Msg("STAT", f, there))
         ELSE Answer(Msg("STAT", f, Stat(f)))
  /\ Host /\ UNCHANGED <<device, dst>>

d_open ==
  /\ dmn = Idle /\ Consume /\ Request.id \in {"LIST", "RECV"}
  /\ \E rest \in IF Request.id = "LIST" THEN Orders(Entries(Request.file)) ELSE {Content[Request.file]} :
       dmn' = [does |-> Request.id, file |-> Request.file, rest |-> rest]
  /\ Host /\ UNCHANGED <<fromD, refused, dst>>

d_next ==
  /\ link /\ dmn.does \in {"LIST", "RECV"}
  /\ IF dmn.rest = <<>>
     THEN Answer(Msg("DONE", dmn.file, None)) /\ dmn' = Idle
     ELSE /\ Answer(IF dmn.does = "LIST" THEN Msg("DENT", Head(dmn.rest), None)
                    ELSE Msg("DATA", dmn.file, Head(dmn.rest)))
          /\ dmn' = [dmn EXCEPT !.rest = Tail(@)]
  /\ Host /\ UNCHANGED <<toD, refused, dst>>

d_unreadable ==
  /\ link /\ dmn.does = "RECV"
  /\ Answer(Msg("FAIL", dmn.file, None)) /\ dmn' = Idle
  /\ refused' = refused \cup {dmn.file}
  /\ Host /\ UNCHANGED <<toD, dst>>

d_store ==
  /\ Consume
  /\ \/ dmn = Idle /\ Request.id = "SEND" /\ dst' = [dst EXCEPT ![Request.file] = Empty]
     \/ dmn.does = "SEND" /\ Request.id = "DATA" /\ dst' = [dst EXCEPT ![dmn.file] = Extend(@, Request.x)]
  /\ dmn' = [does |-> "SEND", file |-> Request.file, rest |-> <<>>]
  /\ Host /\ UNCHANGED <<fromD, refused>>

d_store_fails ==
  /\ Consume
  /\ (dmn = Idle /\ Request.id = "SEND") \/ (dmn.does = "SEND" /\ Request.id = "DATA")
  /\ Answer(Msg("FAIL", Request.file, None))
  /\ dst' = [dst EXCEPT ![Request.file] = None]
  /\ dmn' = [does |-> "skip", file |-> Request.file, rest |-> <<>>]
  /\ Host /\ UNCHANGED refused

d_stored ==
  /\ dmn.does = "SEND" /\ Consume /\ Request.id = "DONE"
  /\ Answer(Msg("OKAY", dmn.file, None))
  /\ dst' = [dst EXCEPT ![dmn.file].time = Request.x]
  /\ dmn' = Idle
  /\ Host /\ UNCHANGED refused

d_skip ==
  /\ dmn.does = "skip" /\ Consume /\ Request.id \in {"DATA", "DONE"}
  /\ dmn' = IF Request.id = "DONE" THEN Idle ELSE dmn
  /\ Host /\ UNCHANGED <<fromD, refused, dst>>

Daemon == d_stat \/ d_open \/ d_next \/ d_unreadable \/ d_store \/ d_store_fails \/ d_stored \/ d_skip

(* The connection is lost: the device is unplugged, the server killed.     *)
Lost ==
  /\ link /\ pc # "end" /\ link' = FALSE
  /\ toD' = <<>> /\ fromD' = <<>> /\ dmn' = Idle
  /\ UNCHANGED <<cmd, pc, todo, left, flag, dirs, unread, result, runs, refused, dst>>

(* The user runs another command against the same destination.             *)
Again ==
  /\ pc = "end" /\ runs < MaxRuns /\ runs' = runs + 1
  /\ cmd' \in Commands /\ (cmd' \in Pulls) = (cmd \in Pulls)
  /\ pc' = "start" /\ result' = "none"
  /\ todo' = <<>> /\ left' = <<>> /\ flag' = {} /\ dirs' = <<>> /\ unread' = {}
  /\ toD' = <<>> /\ fromD' = <<>> /\ link' = TRUE
  /\ dmn' = Idle /\ refused' = {}
  /\ dst' = dst

Next == Client \/ Daemon \/ Lost \/ Again

Spec == Init /\ [][Next]_vars
FairSpec == Spec /\ WF_vars(Client) /\ WF_vars(Daemon)

---------------------------------------------------------------------------
Stages == {"start", "stat_write", "stat_read", "next", "send_req", "send_data", "send_done",
           "send_status", "recv_req", "recv_first", "recv_data", "list_write", "list_read",
           "quit", "end"}

(* The copy list only holds files, the directory list only directories,    *)
(* the connection no more than it can hold.                                *)
TypeOK ==
  /\ cmd \in Commands /\ pc \in Stages /\ result \in {"none", "success", "error"}
  /\ Range(todo) \subseteq Files /\ Range(dirs) \subseteq Dirs
  /\ flag \subseteq Files /\ unread \subseteq Files /\ refused \subseteq Files
  /\ Len(toD) <= Cap /\ Len(fromD) <= Cap /\ link \in BOOLEAN
  /\ dmn.does \in {"idle", "LIST", "RECV", "SEND", "skip"}
  /\ \A f \in Files : dst[f] = None \/ dst[f].time \in {0, 1}
  /\ runs \in 1..MaxRuns

(* Final replies on their way, being prepared, or asked for.               *)
Owed ==
  Cardinality({i \in DOMAIN fromD : fromD[i].id \in {"STAT", "OKAY", "FAIL", "DONE"}})
  + (IF dmn.does \in {"LIST", "RECV", "SEND"} THEN 1 ELSE 0)
  + Cardinality({i \in DOMAIN toD : toD[i].id \in {"STAT", "SEND", "RECV", "LIST"}})

Awaited ==
  CASE pc = "stat_write" -> Len(todo \o dirs) - Len(left)
    [] pc = "stat_read" -> Len(left)
    [] pc \in {"send_data", "send_done", "send_status", "recv_first", "recv_data", "list_read"} -> 1
    [] OTHER -> 0

(* The replies carry no name, so client and device must stay in step: at   *)
(* every moment the device owes exactly the replies the client will still  *)
(* read, and nothing of one request is left in the stream for the next.    *)
(* The types are part of it.                                               *)
InStep == TypeOK /\ (link /\ pc # "end" => Owed = Awaited)

(* A file that a sync leaves alone is the source's: whatever earlier       *)
(* commands left on the device (a file cut short by a lost connection or   *)
(* by a local read error and stamped with the source's time, the remains   *)
(* of a failed store) is not taken for an up to date copy.                 *)
SkippedIsCurrent == \A f \in flag : dst[f] = New(f)

(* A command that reports success has copied every file of the source:     *)
(* the exceptions are files the client could not read (a push says so but  *)
(* goes on) and files the device could not read (no copy is left).         *)
SuccessIsCopied ==
  result = "success" =>
    \A f \in IF cmd \in OneFile THEN {First} ELSE Files :
      CASE cmd \in {"ls", "list"} -> TRUE
        [] cmd \in {"pull", "pulldir"} ->
             IF f \in refused THEN dst[f] = None ELSE dst[f] # None /\ dst[f].data = Content[f]
        [] OTHER -> f \in unread \/ dst[f] = New(f)

(* The client waits for room for an ID_STAT, the service for room for the  *)
(* reply to an earlier one.                                                *)
Clogged == link /\ pc = "stat_write" /\ Len(toD) = Cap /\ Len(fromD) = Cap

(* Every command ends, with the device refusing, the local file failing or *)
(* the connection being lost at any point, unless a sync of more files     *)
(* than the connection holds messages, both ways together, is stuck:       *)
(* copy_local_dir_remote reads no reply before its last request is out.    *)
Finishes == pc # "end" ~> (pc = "end" \/ (Clogged /\ Len(todo) > 2 * Cap))

============================================================================
