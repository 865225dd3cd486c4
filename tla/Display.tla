------------------------------ MODULE Display ------------------------------
(***************************************************************************)
(* What the sender says of the track (SET_PARAMETER, rtsp_handlers.c), how *)
(* it reaches the parts of the program that listen (rtsp_events.c) and     *)
(* what the display makes of it: the OLED's callback and task              *)
(* (display.c), which share their state with no lock, or the LCD's         *)
(* (display_st7789.c), which lock it.  The task redraws by itself once a   *)
(* second while a track plays; else it waits for `dirty`.                  *)
(***************************************************************************)
EXTENDS Integers, Sequences

CONSTANTS Texts,               \* titles and artists: one of each belongs together
          MAX_LISTENERS, Builds, \* the parts a build contains that register
          TsWrap, TrackLength, \* RTP timestamps wrap; both in seconds
          MaxNotices, MaxSeconds

NoText == "notext"
Junk == TsWrap * TsWrap
BootOrder == <<"led", "board", "display", "bluetooth", "app">>

ASSUME DisplayAssumption ==
    /\ NoText \notin Texts /\ "dirty" \notin Texts /\ MAX_LISTENERS \in Nat
    /\ TsWrap \in Nat \ {0} /\ TrackLength \in 0..(TsWrap - 1)
    /\ MaxNotices \in Nat /\ MaxSeconds \in Nat

VARIABLES build, booted, listeners, \* what registers, how many did, who was accepted
          panel,                    \* "oled" or "st7789"
          display,                  \* s_display
          callback,                 \* the OLED's callback under way: what is left to store
          drawing,                  \* the display's task: what it has read so far
          onPanel,                    \* what is on the panel
          seconds, notices

displayVars == <<build, booted, listeners, panel, display, callback, drawing, onPanel, seconds,
                 notices>>
listenerVars == <<build, booted, listeners>>

Blank == [state |-> "STANDBY", title |-> NoText, artist |-> NoText, duration |-> 0,
          position |-> 0, sync |-> -1, dirty |-> FALSE]
Resting == [at |-> "rests", title |-> NoText, artist |-> NoText, state |-> "STANDBY"]
NoCallback == <<>>

DisplayInit ==
    /\ build \in Builds /\ booted = 0 /\ listeners = <<>>
    /\ panel \in {"oled", "st7789"}
    /\ display = [Blank EXCEPT !.dirty = TRUE] /\ callback = NoCallback
    /\ drawing = Resting /\ onPanel = Resting
    /\ seconds = 0 /\ notices = 0

(* rtsp_events_register, by each part as app_main comes to it: beyond the  *)
(* limit it is refused, and nobody looks at the result.                    *)
rtsp_events_register ==
    /\ booted < Len(BootOrder) /\ booted' = booted + 1
    /\ listeners' = IF BootOrder[booted'] \in build /\ Len(listeners) < MAX_LISTENERS
                    THEN Append(listeners, BootOrder[booted']) ELSE listeners
    /\ UNCHANGED <<build, panel, display, callback, drawing, onPanel, seconds, notices>>

(* get_estimated_position: what the track has come to since the last word  *)
(* of it.                                                                  *)
Estimate(d) ==
    LET p == d.position + (seconds - d.sync) IN
    IF d.state # "PLAYING" \/ d.sync < 0 THEN d.position
    ELSE IF d.duration > 0 /\ p > d.duration THEN d.duration ELSE p

(* rtsp_events_emit: the display's callback is called if it registered.    *)
(* The OLED's stores one thing after the other, `dirty` last; the LCD's    *)
(* holds the lock.                                                         *)
rtsp_events_emit(fields, texts) ==
    /\ callback = NoCallback /\ notices < MaxNotices /\ notices' = notices + 1
    /\ \E i \in 1..Len(listeners) : listeners[i] = "display"
    /\ IF panel = "oled"
       THEN display' = fields /\ callback' = texts
       ELSE /\ display' = [fields EXCEPT !.title = texts[1], !.artist = texts[2], !.dirty = TRUE]
            /\ callback' = NoCallback
    /\ UNCHANGED <<listenerVars, panel, drawing, onPanel, seconds>>

KeepTexts == <<display.title, display.artist>>

CLIENT_CONNECTED ==
    rtsp_events_emit([Blank EXCEPT !.state = "CONNECTED", !.dirty = display.dirty],
                     <<NoText, NoText>>)
DISCONNECTED ==
    rtsp_events_emit([Blank EXCEPT !.dirty = display.dirty], <<NoText, NoText>>)
PLAYING ==
    rtsp_events_emit([display EXCEPT !.state = "PLAYING", !.sync = seconds], KeepTexts)
PAUSED ==
    rtsp_events_emit([display EXCEPT !.position = Estimate(display), !.sync = -1,
                                     !.state = "PAUSED"], KeepTexts)

(* RTSP_EVENT_METADATA: a text that is absent leaves the old one; no       *)
(* position (0) counts only for a new title -- on the LCD also if it was 0 *)
(* before, and there the clock starts again in any case.                   *)
OledMoves(position, changed) == position # 0 \/ changed
LcdMoves(position, changed) == position # 0 \/ changed \/ display.position = 0
METADATA(meta) ==
    LET changed == meta.title # NoText /\ meta.title # display.title
        Text(new, old) == IF new = NoText THEN old ELSE new
        moves == IF panel = "oled" THEN OledMoves(meta.position, changed)
                 ELSE LcdMoves(meta.position, changed)
    IN rtsp_events_emit(
          [display EXCEPT !.duration = IF meta.duration # 0 THEN meta.duration ELSE @,
                          !.position = IF moves THEN meta.position ELSE @,
                          !.sync = IF moves \/ panel = "st7789" THEN seconds ELSE @],
          <<Text(meta.title, display.title), Text(meta.artist, display.artist)>>)

(* The OLED's callback goes on: the title, the artist, then dirty.         *)
StoreNext ==
    /\ callback # NoCallback
    /\ display' = CASE Len(callback) = 2 -> [display EXCEPT !.title = callback[1]]
                    [] callback = <<"dirty">> -> [display EXCEPT !.dirty = TRUE]
                    [] OTHER -> [display EXCEPT !.artist = callback[1]]
    /\ callback' = CASE Len(callback) = 2 -> Tail(callback)
                     [] callback = <<"dirty">> -> NoCallback
                     [] OTHER -> <<"dirty">>
    /\ UNCHANGED <<listenerVars, panel, drawing, onPanel, seconds, notices>>

(* parse_progress: start/current/end, subtracted without regard to a wrap. *)
parse_progress(start, elapsed) ==
    LET current == (start + elapsed) % TsWrap
        end == (start + TrackLength) % TsWrap
        Since(ts) == IF ts >= start THEN ts - start ELSE Junk
    IN [title |-> NoText, artist |-> NoText, position |-> Since(current),
        duration |-> Since(end)]

(* parse_dmap_metadata, and the strings of a binary property list: any of  *)
(* the texts may be missing; the latter may also say how far the track is. *)
parse_dmap_metadata(title, artist) ==
    [title |-> title, artist |-> artist, position |-> 0, duration |-> 0]
ParsePlist(title, artist, elapsed) ==
    [title |-> title, artist |-> artist, position |-> elapsed, duration |-> TrackLength]

(* handle_set_parameter emits one event for a message, if there is         *)
(* anything in it that it knows; a volume alone is not for the display.    *)
handle_set_parameter ==
    \/ \E start \in 0..(TsWrap - 1), elapsed \in 0..TrackLength :
          METADATA(parse_progress(start, elapsed))
    \/ \E t \in Texts \cup {NoText} :
          \/ \E a \in {t, NoText} : METADATA(parse_dmap_metadata(t, a))
          \/ \E e \in 0..TrackLength : METADATA(ParsePlist(t, t, e))

(* The OLED's task clears dirty when it is to draw ...                     *)
OledTask ==
    /\ panel = "oled" /\ drawing.at = "rests" /\ (display.dirty \/ display.state = "PLAYING")
    /\ display' = [display EXCEPT !.dirty = FALSE] /\ drawing' = [drawing EXCEPT !.at = "state"]
    /\ UNCHANGED <<listenerVars, panel, callback, onPanel, seconds, notices>>

(* ... and draws the title, then the artist, from the state as it finds it. *)
display_render ==
    /\ panel = "oled"
    /\ \/ /\ drawing.at = "state"
          /\ drawing' = [drawing EXCEPT !.at = "artist", !.state = display.state,
                                        !.title = display.title]
          /\ UNCHANGED <<display, onPanel>>
       \/ /\ drawing.at = "artist"
          /\ onPanel' = [drawing EXCEPT !.at = "rests", !.artist = display.artist]
          /\ drawing' = Resting /\ display' = display
    /\ UNCHANGED <<listenerVars, panel, callback, seconds, notices>>

(* The LCD's task takes dirty under the lock ...                           *)
LcdTask ==
    /\ panel = "st7789" /\ drawing.at = "rests" /\ (display.dirty \/ display.state = "PLAYING")
    /\ display' = [display EXCEPT !.dirty = FALSE] /\ drawing' = [drawing EXCEPT !.at = "state"]
    /\ UNCHANGED <<listenerVars, panel, callback, onPanel, seconds, notices>>

(* ... and then, under the lock again, a copy of all, which it draws unless *)
(* it does not get the graphics in 100 ms.                                  *)
ui_update ==
    /\ panel = "st7789"
    /\ \/ /\ drawing.at = "state"
          /\ drawing' = [at |-> "copied", title |-> display.title, artist |-> display.artist,
                         state |-> display.state]
          /\ onPanel' = onPanel
       \/ /\ drawing.at = "copied" /\ drawing' = Resting
          /\ onPanel' \in {onPanel, [drawing EXCEPT !.at = "rests"]}
    /\ UNCHANGED <<listenerVars, panel, display, callback, seconds, notices>>

Second ==
    /\ seconds < MaxSeconds /\ seconds' = seconds + 1
    /\ UNCHANGED <<listenerVars, panel, display, callback, drawing, onPanel, notices>>

DisplayNext ==
    \/ rtsp_events_register \/ Second
    \/ CLIENT_CONNECTED \/ DISCONNECTED \/ PLAYING \/ PAUSED \/ handle_set_parameter
    \/ StoreNext \/ OledTask \/ display_render \/ LcdTask \/ ui_update

DisplayTypeOK ==
    /\ display.state \in {"STANDBY", "CONNECTED", "PLAYING", "PAUSED"}
    /\ {display.title, display.artist} \subseteq Texts \cup {NoText}
    /\ display.dirty \in BOOLEAN /\ Len(listeners) <= MAX_LISTENERS
    /\ drawing.at \in {"rests", "state", "artist", "copied"}
    /\ seconds \in 0..MaxSeconds /\ notices \in 0..MaxNotices

UpToDate ==
    /\ onPanel.state = display.state
    /\ onPanel.state \in {"PLAYING", "PAUSED"} =>
          onPanel.title = display.title /\ onPanel.artist = display.artist

(* With nothing under way and nothing marked dirty, the panel shows what   *)
(* the program knows: an event that comes while the task draws is not lost *)
(* (the OLED's on_rtsp_event and display_task, which share no lock).       *)
OledUpToDate ==
    (panel = "oled" /\ callback = NoCallback /\ drawing.at = "rests" /\ ~display.dirty) => UpToDate

(* The same of the LCD, where the source says that a change "is never      *)
(* lost" (display_st7789.c, display_task); while a track plays the next    *)
(* second makes up for it.                                                 *)
LcdUpToDate ==
    (panel = "st7789" /\ drawing.at = "rests" /\ ~display.dirty /\ display.state # "PLAYING")
        => UpToDate

(* Seen, not so: every part that is built in hears the events.             *)
AllHear == booted = Len(BootOrder) => \A part \in build : \E i \in 1..Len(listeners) : listeners[i] = part

(* Seen, not so: while a track plays, only a new title or a position moves *)
(* the estimate back.                                                      *)
PositionGoesOn ==
    [][(display.state = "PLAYING" /\ display'.state = "PLAYING" /\ seconds' = seconds
        /\ display'.position = display.position)
       => Estimate(display') >= Estimate(display)]_displayVars
=============================================================================
