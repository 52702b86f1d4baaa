------------------------------ MODULE Pinentry ------------------------------
(***************************************************************************)
(* locksmith-pinentry (internal/pinentry): gpg-agent starts it when gopass *)
(* needs the passphrase of a key, and the two speak the Assuan protocol    *)
(* over a pair of pipes, one request at a time.                            *)
(*                                                                         *)
(* Text is a sequence of bytes, since the protocol escapes some of them.   *)
(* The commands that change nothing (OPTION, SETTITLE, NOP ...) are one.   *)
(***************************************************************************)
EXTENDS Integers, Sequences

CONSTANTS
    Pins,      \* what the user may type
    Texts,     \* descriptions gpg-agent wants shown
    Prompts,   \* and prompts
    MaxAsked   \* bound of the times gpg-agent asks for the passphrase

Byte == 0 .. 255

ASSUME PinentryAssumption ==
    /\ MaxAsked \in Nat
    /\ Pins \subseteq Seq(Byte) /\ Texts \subseteq Seq(Byte) /\ Prompts \subseteq Seq(Byte)

NUL == 0
LF == 10
CR == 13
Percent == 37

-----------------------------------------------------------------------------
HexDigit(n) == IF n < 10 THEN 48 + n ELSE 55 + n

hexVal(c) ==
    CASE c \in 48 .. 57  -> c - 48
      [] c \in 97 .. 102 -> c - 87
      [] c \in 65 .. 70  -> c - 55
      [] OTHER -> -1

(* Mutant of Escaped: the line feed is sent as it is.                      *)
EscapedNoLF == {Percent, CR, NUL}

(* The bytes that must not appear in a data line.                          *)
Escaped == {Percent, CR, LF, NUL}

Escape(c) == IF c \in Escaped
             THEN <<Percent, HexDigit(c \div 16), HexDigit(c % 16)>> ELSE <<c>>

encodeAssuan(s) ==
    LET upTo[n \in 0 .. Len(s)] ==
            IF n = 0 THEN <<>> ELSE upTo[n - 1] \o Escape(s[n])
    IN  upTo[Len(s)]

(* Mutant of IsEscape: an escape at the very end is not seen.              *)
IsEscapeShort(s, i) ==
    /\ s[i] = Percent /\ i + 2 < Len(s)
    /\ hexVal(s[i + 1]) >= 0 /\ hexVal(s[i + 2]) >= 0

IsEscape(s, i) ==
    /\ s[i] = Percent /\ i + 2 <= Len(s)
    /\ hexVal(s[i + 1]) >= 0 /\ hexVal(s[i + 2]) >= 0

(* A percent sign that starts no escape stands for itself.                 *)
decodePercent(s) ==
    LET from[i \in 1 .. Len(s) + 3] ==
            IF i > Len(s) THEN <<>>
            ELSE IF IsEscape(s, i)
            THEN <<16 * hexVal(s[i + 1]) + hexVal(s[i + 2])>> \o from[i + 3]
            ELSE <<s[i]>> \o from[i + 1]
    IN  from[1]

(* What the peer reads as one line.                                        *)
UpToLF(s) == LET ends == {i \in 1 .. Len(s) : s[i] = LF}
             IN  IF ends = {} THEN s
                 ELSE SubSeq(s, 1, (CHOOSE i \in ends : \A j \in ends : i <= j) - 1)

-----------------------------------------------------------------------------
(* The dialogs that getPassword tries: osascript's on macOS, elsewhere     *)
(* zenity's, then kdialog's; then the terminal.                            *)
Guis == {"osascript", "zenity", "kdialog"}
UIs  == Guis \cup {"tty"}

(* unicode.IsSpace, of single bytes.                                       *)
White == 9 .. 13 \cup {32}

(* strings.TrimRight, and the end of strings.TrimSpace: s up to the first  *)
(* byte from which on all are in cut.                                      *)
TrimRight(s, cut) ==
    LET ends == {n \in 0 .. Len(s) : \A i \in n + 1 .. Len(s) : s[i] \in cut}
    IN  SubSeq(s, 1, CHOOSE n \in ends : \A m \in ends : n <= m)

(* Mutant of Entered: white space is cut off at both ends of a passphrase. *)
EnteredTrimmed(ui, p) ==
    LET starts == {n \in 1 .. Len(p) + 1 : \A i \in 1 .. n - 1 : p[i] \in White}
    IN  TrimRight(SubSeq(p, CHOOSE n \in starts : \A m \in starts : m <= n, Len(p)), White)

(* What getPassword returns when p is typed.  A dialog program prints it   *)
(* with a newline; the dialog of macOS puts it behind a label, so that     *)
(* TrimSpace reaches its end only.                                         *)
Entered(ui, p) ==
    IF ui = "tty" THEN p
    ELSE TrimRight(p \o <<LF>>, IF ui = "osascript" THEN White ELSE {LF})

-----------------------------------------------------------------------------
VARIABLES
    pin,      \* pinentry: not running, reading, in a dialog, or ended
    desc,     \* what it was told to show
    prompt,
    request,  \* the request under way, or NoRequest
    reply,    \* the reply under way, or NoReply
    shown,    \* the dialog the user sees
    typed,    \* what the user typed last
    agent,    \* gpg-agent
    wanted,   \* the dialog gpg-agent wants the user to see
    got,      \* the passphrase gpg-agent received
    times     \* times it asked for it

pinVars == <<pin, desc, prompt, request, reply, shown, typed>>
agentVars == <<agent, wanted, got, times>>
pinentryVars == <<pinVars, agentVars>>

NoRequest == [cmd |-> "none", arg |-> <<>>]
NoReply   == [status |-> "none", data |-> <<>>]
NoText    == <<>>
Nothing   == <<-1>>
Commands  == {"SETDESC", "SETPROMPT", "GETPIN", "other", "unknown", "BYE"}
Default   == <<80>>  \* "Passphrase"
NotShown  == <<-1>>  \* the dialog has no place for it

PinentryTypeOK ==
    /\ pin \in {"off", "greet", "reading", "ended"} \cup UIs
    /\ desc \in Seq(Byte) /\ prompt \in Seq(Byte)
    /\ request \in [cmd : Commands \cup {"none"}, arg : Seq(Byte)]
    /\ reply \in [status : {"none", "OK", "ERR"}, data : Seq(Byte)]
    /\ typed \in Pins \cup {Nothing}
    /\ agent \in {"idle", "greeted", "desc", "prompt", "ask", "check", "bye",
                  "ok", "failed", "cancelled"}
    /\ times \in 0 .. MaxAsked

PinentryInit ==
    /\ pin = "off"
    /\ desc = NoText /\ prompt = NoText
    /\ request = NoRequest /\ reply = NoReply
    /\ shown = <<NoText, NoText>> /\ typed = Nothing
    /\ agent = "idle"
    /\ wanted = <<NoText, NoText>> /\ got = Nothing
    /\ times = 0

(* The process is gone, and with it all it knew.                           *)
PinentryCleared ==
    /\ pin' = "off"
    /\ desc' = NoText /\ prompt' = NoText
    /\ request' = NoRequest /\ reply' = NoReply
    /\ shown' = <<NoText, NoText>> /\ typed' = Nothing
    /\ agent' = "idle"
    /\ wanted' = <<NoText, NoText>> /\ got' = Nothing
    /\ times' = 0

-----------------------------------------------------------------------------
(* run: the greeting is the reply to no request.                           *)
Greets ==
    /\ pin = "greet"
    /\ pin' = "reading"
    /\ reply' = [NoReply EXCEPT !.status = "OK"]
    /\ UNCHANGED <<desc, prompt, request, shown, typed, agentVars>>

Replies(status, data) ==
    /\ reply' = [status |-> status, data |-> data]
    /\ request' = NoRequest

Reads(cmds) == pin = "reading" /\ request.cmd \in cmds

SetDesc ==
    /\ Reads({"SETDESC"})
    /\ desc' = decodePercent(request.arg)
    /\ Replies("OK", <<>>)
    /\ UNCHANGED <<pin, prompt, shown, typed, agentVars>>

SetPrompt ==
    /\ Reads({"SETPROMPT"})
    /\ prompt' = decodePercent(request.arg)
    /\ Replies("OK", <<>>)
    /\ UNCHANGED <<pin, desc, shown, typed, agentVars>>

OtherCommand ==
    /\ Reads({"other", "unknown"})
    /\ Replies(IF request.cmd = "other" THEN "OK" ELSE "ERR", <<>>)
    /\ UNCHANGED <<pin, desc, prompt, shown, typed, agentVars>>

Bye ==
    /\ Reads({"BYE"})
    /\ Replies("OK", <<>>)
    /\ pin' = "ended"
    /\ UNCHANGED <<desc, prompt, shown, typed, agentVars>>

(* What the dialog tells the user: zenity has the prompt for a title and   *)
(* the terminal has it before the input; neither shows the description.    *)
Dialog(ui) ==
    <<IF ui \in {"osascript", "kdialog"} THEN desc ELSE NotShown,
      IF prompt = NoText THEN Default ELSE prompt>>

(* getPassword tries the window system first.  The build has the dialog of *)
(* macOS or that of the others; the model leaves the choice to each        *)
(* dialog.                                                                 *)
GetPin ==
    /\ Reads({"GETPIN"})
    /\ pin' \in {"osascript", "zenity"}
    /\ shown' = Dialog(pin')
    /\ typed' = Nothing
    /\ UNCHANGED <<desc, prompt, request, reply, agentVars>>

(* There is no display or no such program, or the user closed its dialog:  *)
(* the question goes on to the next one, at last to the terminal.          *)
NoGui ==
    /\ pin \in Guis
    /\ pin' \in {"tty"} \cup IF pin = "zenity" THEN {"kdialog"} ELSE {}
    /\ shown' = Dialog(pin')
    /\ UNCHANGED <<desc, prompt, request, reply, typed, agentVars>>

DialogCloses == pin' = "reading" /\ shown' = <<NoText, NoText>>

(* On a terminal the first newline ends the input.                         *)
Typed ==
    /\ pin \in UIs
    /\ \E p \in Pins :
          /\ pin = "tty" => \A i \in DOMAIN p : p[i] \notin {LF, CR}
          /\ typed' = p
          /\ Replies("OK", encodeAssuan(Entered(pin, p)))
    /\ DialogCloses
    /\ UNCHANGED <<desc, prompt, agentVars>>

(* Mutant of Cancelled: the request is left without a reply.               *)
CancelledSilently ==
    /\ pin = "tty"
    /\ DialogCloses
    /\ request' = NoRequest
    /\ UNCHANGED <<desc, prompt, reply, typed, agentVars>>

(* There is no terminal, or reading from it failed.                        *)
Cancelled ==
    /\ pin = "tty"
    /\ DialogCloses
    /\ Replies("ERR", <<>>)
    /\ UNCHANGED <<desc, prompt, typed, agentVars>>

(* gpg-agent went away: the scanner ends.                                  *)
InputEnds ==
    /\ pin = "reading" /\ request = NoRequest
    /\ agent \in {"ok", "failed", "cancelled"}
    /\ pin' = "ended"
    /\ UNCHANGED <<desc, prompt, request, reply, shown, typed, agentVars>>

(* The process dies, in a dialog or not.                                   *)
PinentryDies ==
    /\ pin \in {"greet", "reading"} \cup UIs
    /\ pin' = "ended"
    /\ UNCHANGED <<desc, prompt, request, reply, shown, typed, agentVars>>

-----------------------------------------------------------------------------
(* gpg-agent, as it uses pinentry.                                         *)
AgentStarts ==
    /\ agent = "idle"
    /\ agent' = "greeted"
    /\ pin' = "greet"
    /\ UNCHANGED <<desc, prompt, request, reply, shown, typed, wanted, got, times>>

Sends(cmd, arg) == request' = [cmd |-> cmd, arg |-> arg]

Answered(from) == agent = from /\ reply # NoReply /\ reply' = NoReply

(* Every option is tried; a refusal is no error.                           *)
AgentSendsOption ==
    /\ Answered("greeted")
    /\ agent' = "desc"
    /\ Sends("other", <<>>) \/ Sends("unknown", <<>>)
    /\ UNCHANGED <<pin, desc, prompt, shown, typed, wanted, got, times>>

AgentDescribes ==
    /\ Answered("desc")
    /\ agent' = "prompt"
    /\ \E t \in Texts : /\ wanted' = <<t, wanted[2]>>
                        /\ Sends("SETDESC", encodeAssuan(t))
    /\ UNCHANGED <<pin, desc, prompt, shown, typed, got, times>>

AgentPrompts ==
    /\ Answered("prompt")
    /\ agent' = "ask"
    /\ \E t \in Prompts : /\ wanted' = <<wanted[1], t>>
                          /\ Sends("SETPROMPT", encodeAssuan(t))
    /\ UNCHANGED <<pin, desc, prompt, shown, typed, got, times>>

AgentAsks ==
    /\ Answered("ask")
    /\ times < MaxAsked
    /\ times' = times + 1
    /\ agent' = "check"
    /\ Sends("GETPIN", <<>>)
    /\ UNCHANGED <<pin, desc, prompt, shown, typed, wanted, got>>

(* The passphrase is right, or wrong and asked for again with a new text.  *)
AgentChecks ==
    /\ Answered("check")
    /\ reply.status = "OK"
    /\ got' = decodePercent(UpToLF(reply.data))
    /\ \/ agent' = "ok" /\ Sends("BYE", <<>>) /\ UNCHANGED wanted
       \/ /\ times < MaxAsked
          /\ agent' = "prompt"
          /\ \E t \in Texts : /\ wanted' = <<t, wanted[2]>>
                              /\ Sends("SETDESC", encodeAssuan(t))
       \/ times = MaxAsked /\ agent' = "failed" /\ Sends("BYE", <<>>) /\ UNCHANGED wanted
    /\ UNCHANGED <<pin, desc, prompt, shown, typed, times>>

AgentGivesUp ==
    /\ Answered("check")
    /\ reply.status = "ERR"
    /\ agent' = "cancelled"
    /\ Sends("BYE", <<>>)
    /\ UNCHANGED <<pin, desc, prompt, shown, typed, wanted, got, times>>

(* The pipe is closed before the reply was there.                          *)
AgentSeesEnd ==
    /\ agent \notin {"idle", "ok", "failed", "cancelled"}
    /\ pin = "ended" /\ reply = NoReply
    /\ agent' = "failed"
    /\ UNCHANGED <<pinVars, wanted, got, times>>

(* gpg-agent is killed, or gopass is and gpg-agent gives up the question.  *)
AgentDies ==
    /\ agent \notin {"idle", "ok", "failed", "cancelled"}
    /\ agent' = "failed"
    /\ UNCHANGED <<pinVars, wanted, got, times>>

AgentForgets ==
    /\ agent \in {"ok", "failed", "cancelled"} /\ pin = "ended"
    /\ PinentryCleared

PinentrySteps ==
    Greets \/ SetDesc \/ SetPrompt \/ OtherCommand \/ Bye \/ GetPin \/ InputEnds

AgentSteps ==
    \/ AgentSendsOption \/ AgentDescribes \/ AgentPrompts \/ AgentAsks
    \/ AgentChecks \/ AgentGivesUp \/ AgentSeesEnd

UserSteps == NoGui \/ Typed \/ Cancelled

PinentryNext ==
    PinentrySteps \/ AgentSteps \/ UserSteps \/ PinentryDies \/ AgentDies

-----------------------------------------------------------------------------
(* A passphrase is what was typed, but for white space at its end.         *)
Fits(p, text) ==
    /\ Len(p) <= Len(text)
    /\ p = SubSeq(text, 1, Len(p))
    /\ \A i \in Len(p) + 1 .. Len(text) : text[i] \in White

(* gpg-agent receives the passphrase the user typed, byte for byte, but    *)
(* for white space at its end, which the dialogs cut off: what             *)
(* encodeAssuan writes is one line and is decoded to the same text.        *)
PinAsTyped ==
    (agent \in {"prompt", "ask", "ok"} /\ got # Nothing) => Fits(got, typed)

(* The user is shown the prompt gpg-agent sent last, and the description   *)
(* where the dialog has one, so that the passphrase is asked for the key   *)
(* that needs it.                                                          *)
DialogAsWanted ==
    pin \in UIs =>
        /\ shown[1] = wanted[1] \/ (pin \in {"zenity", "tty"} /\ shown[1] = NotShown)
        /\ shown[2] = IF wanted[2] = NoText THEN Default ELSE wanted[2]
=============================================================================
