----------------------------- MODULE ParserServer -----------------------------
(***************************************************************************)
(* The parser server (src/src/server) and the browser's client             *)
(* (src/src/browser/Client.java, InputReaderThread.java).                  *)
(*                                                                         *)
(* A Connection thread per client feeds sentences to a pipeline of         *)
(* processes and writes what the last one prints, followed by a line       *)
(* >>end<<, to the client.  For every process a thread copies the error    *)
(* output to the same stream.  Both write byte by byte, so that a line can *)
(* be torn by another; two halves to a line show it.                       *)
(*                                                                         *)
(* The processes are programs of their own: each answers a sentence with   *)
(* one text, or exits.                                                     *)
(***************************************************************************)
EXTENDS Integers, Sequences

CONSTANTS
  Conns,           \* the connections, one for each client
  Options,         \* the preferences a client may send: [nbest, unify]
  Stamps,          \* the times at which connections can be made
  Loads,           \* bounds: the sentences and preferences each client sends,
                   \* and the lines of error output for it
  Unwritable       \* whether a preferences file can fail to be written

ASSUME ServerAssumption ==
  /\ Stamps \subseteq Nat
  /\ Loads \subseteq [Conns -> [ask : Nat, prefs : Nat, err : Nat]]
  /\ Unwritable \in BOOLEAN
  /\ Options \subseteq [nbest : BOOLEAN, unify : BOOLEAN]

VARIABLES
  load,            \* which of the bounds apply
  \* the client
  client,          \* "away", "config" and "wait" for an answer, "idle", "gone"
  asked, sent,     \* the sentences and the preferences sent so far
  reply,           \* what InputReaderThread has read for the last sentence
  \* the streams
  up, down,        \* to the server, messages; to the client, half lines
  \* the connection's thread
  thread,          \* "none", "first", "read", "feed", "join", "over", "failed"
  out,             \* half lines it has still to write
  opts, filter,    \* the options in force, and deleteFilterOpt
  stage, text,     \* the place in the pipeline, and what goes into it
  conf,            \* how often the parser has been configured
  \* the processes
  proc,            \* the process in each field of the parser
  errs, errq,      \* lines of error output so far; half lines to be copied
  \* the preferences files
  stamp,           \* the time in the name of the connection's file
  file             \* the connection and the configuration that wrote a file

cvars == <<load, client, asked, sent, reply>>
tvars == <<thread, opts, filter, stage, text, conf, stamp>>
evars == <<errs, errq>>
vars == <<cvars, up, down, tvars, out, proc, evars, file>>

Roles == {"parser", "nbest", "synget", "delete", "checker", "featproc"}

\* The processes that read the preferences file when they start.
Readers == {"parser", "nbest", "synget"}

unread == <<>>     \* no file, or not read yet
empty == 0         \* the text ""
null == -1         \* no text

Process == [st : {"none", "up", "busy", "said", "dead"}, k : Nat, cfg : {unread} \cup (Conns \X Nat)]

NoProcess == [st |-> "none", k |-> 0, cfg |-> unread]
Alive(p) == p.st \in {"up", "busy", "said"}

\* Parser.parse: the processes a sentence goes through.
Pipeline(o) ==
  IF o.nbest THEN <<"synget", "delete", "nbest">>
  ELSE IF o.unify THEN <<"parser", "checker", "featproc">> ELSE <<"parser">>

-----------------------------------------------------------------------------
(* Lines and halves.                                                       *)

Line(kind, k) == <<[kind |-> kind, of |-> k, half |-> 1], [kind |-> kind, of |-> k, half |-> 2]>>

\* outputString + ">>end<<\n".  When there is no text at all, the string
\* "null" precedes the mark on its line.
ReplyTo(t) ==
  IF t = null THEN Line("nullend", 0)
  ELSE (IF t = empty THEN <<>> ELSE Line("text", t)) \o Line("end", 0)

\* The first line in a stream, up to the half with the newline.
FirstLine(s) ==
  LET ends == {i \in DOMAIN s : s[i].half = 2}
  IN SubSeq(s, 1, CHOOSE i \in ends : \A j \in ends : i <= j)

HasLine(s) == \E i \in DOMAIN s : s[i].half = 2

After(s, l) == SubSeq(s, Len(l) + 1, Len(s))

-----------------------------------------------------------------------------
(* The client.                                                             *)

\* openConnection, and sendPreferences up to the wait for "ready".
Connect(c) ==
  /\ client[c] = "away" /\ load[c].prefs > 0
  /\ \E o \in Options : up' = [up EXCEPT ![c] = <<[kind |-> "prefs", o |-> o]>>]
  /\ client' = [client EXCEPT ![c] = "config"]
  /\ sent' = [sent EXCEPT ![c] = 1]
  /\ UNCHANGED <<load, asked, reply, down, tvars, out, proc, evars, file>>

\* sendPreferences when the user changes them.
SendPreferences(c) ==
  /\ client[c] = "idle" /\ sent[c] < load[c].prefs
  /\ \E o \in Options : up' = [up EXCEPT ![c] = Append(@, [kind |-> "prefs", o |-> o])]
  /\ client' = [client EXCEPT ![c] = "config"]
  /\ sent' = [sent EXCEPT ![c] = @ + 1]
  /\ UNCHANGED <<load, asked, reply, down, tvars, out, proc, evars, file>>

\* sendAndReceive up to the wait for InputReaderThread.
Ask(c) ==
  /\ client[c] = "idle" /\ asked[c] < load[c].ask
  /\ up' = [up EXCEPT ![c] = Append(@, [kind |-> "sentence", k |-> asked[c] + 1])]
  /\ client' = [client EXCEPT ![c] = "wait"]
  /\ asked' = [asked EXCEPT ![c] = @ + 1]
  /\ reply' = [reply EXCEPT ![c] = <<>>]
  /\ UNCHANGED <<load, sent, down, tvars, out, proc, evars, file>>

\* sendPreferences takes one line for the answer, whatever it says.
ReadReady(c) ==
  /\ client[c] = "config" /\ HasLine(down[c])
  /\ down' = [down EXCEPT ![c] = After(@, FirstLine(@))]
  /\ client' = [client EXCEPT ![c] = "idle"]
  /\ UNCHANGED <<load, asked, sent, reply, up, tvars, out, proc, evars, file>>

\* Fault: like sendPreferences, the reader is content with one line.
ReadLineOnce(c) ==
  /\ client[c] = "wait" /\ HasLine(down[c])
  /\ down' = [down EXCEPT ![c] = After(@, FirstLine(@))]
  /\ client' = [client EXCEPT ![c] = "idle"]
  /\ reply' = [reply EXCEPT ![c] = @ \o FirstLine(down[c])]
  /\ UNCHANGED <<load, asked, sent, up, tvars, out, proc, evars, file>>

\* InputReaderThread: every line but the mark is part of the reply, error
\* output too.
ReadLine(c) ==
  LET line == FirstLine(down[c])
  IN /\ client[c] = "wait" /\ HasLine(down[c])
     /\ down' = [down EXCEPT ![c] = After(@, line)]
     /\ IF line = Line("end", 0)
        THEN client' = [client EXCEPT ![c] = "idle"] /\ UNCHANGED reply
        ELSE reply' = [reply EXCEPT ![c] = @ \o line] /\ UNCHANGED client
     /\ UNCHANGED <<load, asked, sent, up, tvars, out, proc, evars, file>>

\* closeConnection.
Disconnect(c) ==
  /\ client[c] = "idle"
  /\ up' = [up EXCEPT ![c] = Append(@, [kind |-> "done"])]
  /\ client' = [client EXCEPT ![c] = "gone"]
  /\ UNCHANGED <<load, asked, sent, reply, down, tvars, out, proc, evars, file>>

-----------------------------------------------------------------------------
(* The connection's thread.                                                *)

\* ServerThread.startServer and the constructor of Connection.
Accept(c) ==
  /\ thread[c] = "none" /\ client[c] # "away"
  /\ thread' = [thread EXCEPT ![c] = "first"]
  /\ \E t \in Stamps : stamp' = [stamp EXCEPT ![c] = t]
  /\ UNCHANGED <<cvars, up, down, opts, filter, stage, text, conf, out, proc, evars, file>>

\* The processes that configParser starts.
Started(o, f) ==
  (IF f THEN {"delete", "synget"} ELSE {})
    \cup {IF o.nbest THEN "nbest" ELSE "parser"}
    \cup (IF o.unify THEN {"checker", "featproc"} ELSE {})

\* The fields after killAll, which leaves the n-best parser alone.
Killed(ps) ==
  [r \in Roles |-> IF r # "nbest" /\ Alive(ps[r]) THEN [ps[r] EXCEPT !.st = "dead"] ELSE ps[r]]

\* The fields after new processes have been started.
Fresh(ps, roles) ==
  [r \in Roles |-> IF r \in roles THEN [NoProcess EXCEPT !.st = "up"] ELSE ps[r]]

\* configParser with the options o, on what is left of the processes; it gives
\* up when the file cannot be written.
Configured(c, o, ps) ==
  LET f == filter[c] \/ o.nbest
  IN /\ file' = [file EXCEPT ![stamp[c]] = <<c, conf[c] + 1>>]
     /\ proc' = [proc EXCEPT ![c] = Fresh(ps, Started(o, f))]

NotWritten(c, ps) == Unwritable /\ proc' = [proc EXCEPT ![c] = ps] /\ UNCHANGED file

\* setOptions; nothing sets deleteFilterOpt back.
SetOptions(c, o) ==
  /\ opts' = [opts EXCEPT ![c] = o]
  /\ filter' = [filter EXCEPT ![c] = @ \/ o.nbest]

\* Connection.run up to the loop.
First(c) ==
  LET o == Head(up[c]).o
  IN /\ thread[c] = "first"
     /\ \/ Configured(c, o, proc[c]) /\ SetOptions(c, o)
        \/ NotWritten(c, proc[c]) /\ UNCHANGED <<opts, filter>>
     /\ conf' = [conf EXCEPT ![c] = @ + 1]
     /\ up' = [up EXCEPT ![c] = Tail(@)]
     /\ out' = [out EXCEPT ![c] = Line("ready", 0)]
     /\ thread' = [thread EXCEPT ![c] = "read"]
     /\ UNCHANGED <<cvars, down, stage, text, stamp, evars>>

\* The next line from the client, when the last answer is written.
Reads(c, kind) ==
  /\ thread[c] = "read" /\ out[c] = <<>> /\ up[c] # <<>> /\ Head(up[c]).kind = kind
  /\ up' = [up EXCEPT ![c] = Tail(@)]

\* Fault: only the options change, the processes stay.
ReconfigureKeeps(c) ==
  /\ Reads(c, "prefs")
  /\ opts' = [opts EXCEPT ![c] = Head(up[c]).o]
  /\ conf' = [conf EXCEPT ![c] = @ + 1]
  /\ out' = [out EXCEPT ![c] = Line("ready", 0)]
  /\ UNCHANGED <<cvars, down, thread, stage, text, filter, stamp, proc, file, evars>>

\* setPrefs: setOptions, killAll and configParser.
Reconfigure(c) ==
  /\ Reads(c, "prefs")
  /\ LET o == Head(up[c]).o
     IN /\ SetOptions(c, o)
        /\ \/ Configured(c, o, Killed(proc[c]))
           \/ NotWritten(c, Killed(proc[c]))
  /\ conf' = [conf EXCEPT ![c] = @ + 1]
  /\ out' = [out EXCEPT ![c] = Line("ready", 0)]
  /\ UNCHANGED <<cvars, down, thread, stage, text, stamp, evars>>

\* The beginning of parse.
Parse(c) ==
  /\ Reads(c, "sentence")
  /\ text' = [text EXCEPT ![c] = Head(up[c]).k]
  /\ stage' = [stage EXCEPT ![c] = 1]
  /\ thread' = [thread EXCEPT ![c] = "feed"]
  /\ UNCHANGED <<cvars, down, opts, filter, conf, stamp, out, proc, evars, file>>

\* Fault: the loop goes on after the client has said that it is done.
DoneGoesOn(c) ==
  /\ Reads(c, "done")
  /\ UNCHANGED <<cvars, down, tvars, out, proc, evars, file>>

\* The client is done: the streams are closed and the file is deleted.
Done(c) ==
  /\ Reads(c, "done")
  /\ thread' = [thread EXCEPT ![c] = "over"]
  /\ file' = [file EXCEPT ![stamp[c]] = unread]
  /\ UNCHANGED <<cvars, down, opts, filter, stage, text, conf, stamp, out, proc, evars>>

Role(c) == Pipeline(opts[c])[stage[c]]

\* Fault: one stage more than the pipeline has.
PassOn(c, t) ==
  IF stage[c] <= Len(Pipeline(opts[c]))
  THEN /\ text' = [text EXCEPT ![c] = t]
       /\ stage' = [stage EXCEPT ![c] = @ + 1]
       /\ thread' = [thread EXCEPT ![c] = "feed"]
       /\ UNCHANGED out
  ELSE /\ out' = [out EXCEPT ![c] = ReplyTo(t)]
       /\ text' = [text EXCEPT ![c] = empty]
       /\ stage' = [stage EXCEPT ![c] = 0]
       /\ thread' = [thread EXCEPT ![c] = "read"]

\* Where the text t of a stage goes: to the next stage or to the client.
Pass(c, t) ==
  IF stage[c] < Len(Pipeline(opts[c]))
  THEN /\ text' = [text EXCEPT ![c] = t]
       /\ stage' = [stage EXCEPT ![c] = @ + 1]
       /\ thread' = [thread EXCEPT ![c] = "feed"]
       /\ UNCHANGED out
  ELSE /\ out' = [out EXCEPT ![c] = ReplyTo(t)]
       /\ text' = [text EXCEPT ![c] = empty]
       /\ stage' = [stage EXCEPT ![c] = 0]
       /\ thread' = [thread EXCEPT ![c] = "read"]

\* Fault: the text stays in the buffer of the stream to the process.
FeedUnflushed(c) ==
  /\ thread[c] = "feed"
  /\ IF text[c] = null \/ ~Alive(proc[c][Role(c)])
     THEN Pass(c, null)
     ELSE thread' = [thread EXCEPT ![c] = "join"] /\ UNCHANGED <<out, text, stage>>
  /\ UNCHANGED <<cvars, up, down, opts, filter, conf, stamp, proc, evars, file>>

\* pipeToProcess up to the join: the process gets the text.  It cannot be
\* written to a process that has ended, or when there is no text: the
\* exception is caught and there is no text.
Feed(c) ==
  /\ thread[c] = "feed"
  /\ IF text[c] = null \/ ~Alive(proc[c][Role(c)])
     THEN Pass(c, null) /\ UNCHANGED proc
     ELSE /\ thread' = [thread EXCEPT ![c] = "join"]
          /\ proc' = IF text[c] = empty THEN proc
                     ELSE [proc EXCEPT ![c][Role(c)] = [@ EXCEPT !.st = "busy", !.k = text[c]]]
          /\ UNCHANGED <<out, text, stage>>
  /\ UNCHANGED <<cvars, up, down, opts, filter, conf, stamp, evars, file>>

\* Fault: the output is taken without waiting for the thread that reads it.
JoinNot(c) ==
  /\ thread[c] = "join"
  /\ Pass(c, IF proc[c][Role(c)].st = "said" THEN proc[c][Role(c)].k ELSE empty)
  /\ proc' = IF proc[c][Role(c)].st = "said" THEN [proc EXCEPT ![c][Role(c)].st = "up"] ELSE proc
  /\ UNCHANGED <<cvars, up, down, opts, filter, conf, stamp, evars, file>>

\* The rest of pipeToProcess: InputManager has read a line "end", or all there
\* is from a process that has ended.
Join(c) ==
  /\ thread[c] = "join"
  /\ \/ /\ proc[c][Role(c)].st = "said"
        /\ Pass(c, proc[c][Role(c)].k)
        /\ proc' = [proc EXCEPT ![c][Role(c)].st = "up"]
     \/ /\ proc[c][Role(c)].st = "dead"
        /\ Pass(c, empty)
        /\ UNCHANGED proc
  /\ UNCHANGED <<cvars, up, down, opts, filter, conf, stamp, evars, file>>

\* One half line is written.  When the client is gone, it may be lost or be an
\* exception that ends the thread.
Write(c) ==
  /\ out[c] # <<>> /\ thread[c] = "read"
  /\ \/ /\ client[c] # "gone"
        /\ down' = [down EXCEPT ![c] = Append(@, Head(out[c]))]
        /\ out' = [out EXCEPT ![c] = Tail(@)]
        /\ UNCHANGED thread
     \/ /\ client[c] = "gone"
        /\ out' = [out EXCEPT ![c] = <<>>]
        /\ \/ UNCHANGED thread
           \/ thread' = [thread EXCEPT ![c] = "failed"]
        /\ UNCHANGED down
  /\ UNCHANGED <<cvars, up, opts, filter, stage, text, conf, stamp, proc, evars, file>>

Thread(c) ==
  \/ First(c) \/ Reconfigure(c) \/ Parse(c) \/ Done(c)
  \/ Feed(c) \/ Join(c) \/ Write(c)

-----------------------------------------------------------------------------
(* The processes, and the threads that copy their error output.            *)

\* A process reads its preferences when it gets to it, and ends when the file
\* is not there (read_prefs).
Boot(c, r) ==
  /\ r \in Readers /\ Alive(proc[c][r]) /\ proc[c][r].cfg = unread
  /\ proc' = IF file[stamp[c]] # unread
             THEN [proc EXCEPT ![c][r].cfg = file[stamp[c]]]
             ELSE [proc EXCEPT ![c][r].st = "dead"]
  /\ UNCHANGED <<cvars, up, down, tvars, out, evars, file>>

\* It prints its output for a sentence, or ends: the parser does so at an
\* empty sentence (hand_next_sent) and in err_abort.
Answer(c, r) ==
  /\ proc[c][r].st = "busy" /\ (r \in Readers => proc[c][r].cfg # unread)
  /\ \E st \in {"said", "dead"} : proc' = [proc EXCEPT ![c][r].st = st]
  /\ UNCHANGED <<cvars, up, down, tvars, out, evars, file>>

\* A line of error output.
Complain(c) ==
  /\ errs[c] < load[c].err /\ \E r \in Roles : Alive(proc[c][r])
  /\ errs' = [errs EXCEPT ![c] = @ + 1]
  /\ errq' = [errq EXCEPT ![c] = @ \o Line("err", errs[c] + 1)]
  /\ UNCHANGED <<cvars, up, down, tvars, out, proc, file>>

\* InputManager for an error stream.
CopyError(c) ==
  /\ errq[c] # <<>>
  /\ down' = IF client[c] = "gone" THEN down ELSE [down EXCEPT ![c] = Append(@, Head(errq[c]))]
  /\ errq' = [errq EXCEPT ![c] = Tail(@)]
  /\ UNCHANGED <<cvars, up, tvars, out, proc, errs, file>>

Processes(c) == \E r \in Roles : Boot(c, r) \/ Answer(c, r)

-----------------------------------------------------------------------------
Init ==
  /\ load \in Loads
  /\ client = [c \in Conns |-> "away"]
  /\ asked = [c \in Conns |-> 0] /\ sent = [c \in Conns |-> 0]
  /\ reply = [c \in Conns |-> <<>>]
  /\ up = [c \in Conns |-> <<>>] /\ down = [c \in Conns |-> <<>>]
  /\ thread = [c \in Conns |-> "none"] /\ out = [c \in Conns |-> <<>>]
  /\ opts = [c \in Conns |-> [nbest |-> FALSE, unify |-> FALSE]]
  /\ filter = [c \in Conns |-> FALSE]
  /\ stage = [c \in Conns |-> 0] /\ text = [c \in Conns |-> empty]
  /\ conf = [c \in Conns |-> 0]
  /\ proc = [c \in Conns |-> [r \in Roles |-> NoProcess]]
  /\ errs = [c \in Conns |-> 0] /\ errq = [c \in Conns |-> <<>>]
  /\ stamp = [c \in Conns |-> 0]
  /\ file = [t \in Stamps |-> unread]

Next ==
  \E c \in Conns :
    \/ Connect(c) \/ SendPreferences(c) \/ Ask(c) \/ Disconnect(c)
    \/ ReadReady(c) \/ ReadLine(c)
    \/ Accept(c) \/ Thread(c)
    \/ Processes(c) \/ Complain(c) \/ CopyError(c)

\* Threads and processes run on; the user and the error output are free.
Fairness ==
  \A c \in Conns :
    /\ WF_vars(ReadReady(c)) /\ WF_vars(ReadLine(c))
    /\ WF_vars(Accept(c)) /\ WF_vars(Thread(c))
    /\ WF_vars(Processes(c)) /\ WF_vars(CopyError(c))

Spec == Init /\ [][Next]_vars /\ Fairness

-----------------------------------------------------------------------------
Half == [kind : {"ready", "end", "nullend", "text", "err"}, of : Nat, half : {1, 2}]

\* Each connection has its pipeline, streams and files; a thread is at a stage
\* of the pipeline when it feeds a process, and at none otherwise.
TypeOK ==
  \A c \in Conns :
    /\ client[c] \in {"away", "config", "wait", "idle", "gone"}
    /\ thread[c] \in {"none", "first", "read", "feed", "join", "over", "failed"}
    /\ {down[c], out[c], reply[c], errq[c]} \subseteq Seq(Half)
    /\ opts[c] \in Options \cup {[nbest |-> FALSE, unify |-> FALSE]}
    /\ IF thread[c] \in {"feed", "join"} THEN stage[c] \in DOMAIN Pipeline(opts[c])
       ELSE stage[c] = 0
    /\ proc[c] \in [Roles -> Process]

\* No answer is on its way to a client that is not waiting for one: the mark
\* of a sentence is never taken for the mark of the next one.
Lockstep ==
  \A c \in Conns :
    client[c] # "wait" =>
      /\ thread[c] \notin {"feed", "join"}
      /\ \A i \in DOMAIN (down[c] \o out[c]) :
           (down[c] \o out[c])[i].kind \in {"ready", "err"}

\* What a process prints for a sentence was computed with the preferences that
\* the client sent last, unless another connection was made at the same time
\* and shares the file.
OwnPrefs ==
  \A c \in Conns : \A r \in Readers :
    /\ thread[c] \notin {"none", "over", "failed"}
    /\ \A d \in Conns \ {c} : stamp[d] # stamp[c]
    /\ proc[c][r].st = "said"
    => proc[c][r].cfg = <<c, conf[c]>>

\* The halves of the text for the sentence k are in s, each of them once and in
\* order, and those of no other text; or there is no text.
TextOf(s, k) ==
  \E i, j \in DOMAIN s :
    /\ i < j /\ s[i] = Line("text", k)[1] /\ s[j] = Line("text", k)[2]
    /\ \A m \in DOMAIN s : s[m].kind = "text" => m \in {i, j}

NoText(s) == \A m \in DOMAIN s : s[m].kind # "text"

\* A process of the pipeline has ended.
Broken(c) == \E i \in DOMAIN Pipeline(opts[c]) : ~Alive(proc[c][Pipeline(opts[c])[i]])

\* The reply to a sentence has the text for that sentence, whole and once, or
\* none because a process of the pipeline has ended; never the text for another
\* sentence, whatever error output comes between (sendAndReceive).
OwnReplies ==
  [][\A c \in Conns :
       client[c] = "wait" /\ client'[c] = "idle" =>
         TextOf(reply[c], asked[c]) \/ (NoText(reply[c]) /\ Broken(c))]_vars

\* A line that another one has been written into.
Torn(s) ==
  \E i \in DOMAIN s :
    \/ s[i].half = 2 /\ (i = 1 \/ s[i - 1] # [s[i] EXCEPT !.half = 1])
    \/ s[i].half = 1 /\ i < Len(s) /\ s[i + 1] # [s[i] EXCEPT !.half = 2]

Harmed(c) == Torn(reply[c] \o down[c]) \/ Broken(c)

\* A client that waits for a reply gets it, as long as the processes live and
\* no line is torn.
RepliesCome ==
  \A c \in Conns : client[c] = "wait" ~> client[c] # "wait" \/ Harmed(c)

\* Preferences are always answered, and a connection ends when its client does.
ConnectionsEnd ==
  \A c \in Conns :
    /\ client[c] = "config" ~> client[c] # "config"
    /\ client[c] = "gone" ~> thread[c] \in {"over", "failed"}

\* "Sends a sentence to the parser (server) and then reads the output which is
\* returned" (Client.sendAndReceive): the output comes.
AlwaysReplies == \A c \in Conns : client[c] = "wait" ~> client[c] # "wait"
=============================================================================
