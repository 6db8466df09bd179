-------------------------------- MODULE Term --------------------------------
(***************************************************************************)
(* nl_term_parse_ansi_color() of src/term.c: a caller parses one escape    *)
(* sequence after another into the same struct nl_term_state.  The text is *)
(* a sequence of tokens: a number, as strtoul() reads it, or a character;  *)
(* "0" is the end of the string.                                           *)
(***************************************************************************)
EXTENDS Integers, Sequences

CONSTANTS
  Codes,       \* numbers that may stand where a control code is expected
  Indexes,     \* ... where an xterm colour index is expected
  Components,  \* ... where red, green or blue is expected
  MaxParse     \* MAX_COLOR_PARSE_LENGTH, in tokens

ASSUME NumberAssumption == Codes \cup Indexes \cup Components \subseteq Nat

VARIABLES term,   \* *state
          parse   \* new_state and the locals of the call in progress

termVars == <<term, parse>>

-----------------------------------------------------------------------------
(* Colours.  rgb says where the red, green and blue come from.               *)
Intensities == {"normal", "intense", "faint"}

color(type, xterm256, ansi, rgb) ==
  [color_type |-> type, xterm256 |-> xterm256, ansi |-> ansi, rgb |-> rgb]

Standard(intensity, n) ==
  color("standard", IF intensity = "intense" THEN n + 8 ELSE n, n, <<intensity, n>>)

(* The three default foregrounds look like standard color 7.                 *)
DefaultForeground(intensity) == [Standard(intensity, 7) EXCEPT !.color_type = "default"]
DefaultBackground == color("default", 0, 0, <<"background", 0>>)

DefaultState == [fg |-> DefaultForeground("normal"), bg |-> DefaultBackground,
                 intensity |-> "normal", flags |-> {}]

make_color_faint(c) ==
  CASE c.color_type = "default"                      -> DefaultForeground("faint")
    [] c.color_type = "standard"                     -> Standard("faint", c.ansi)
    [] c.color_type = "xterm256" /\ c.xterm256 < 16  -> Standard("faint", c.xterm256 % 8)
    [] OTHER                                         -> c

make_color_intense(c) ==
  CASE c.color_type = "default"                      -> DefaultForeground("intense")
    [] c.color_type = "standard"                     -> Standard("intense", c.ansi)
    [] c.color_type = "xterm256" /\ c.xterm256 < 8   -> Standard("intense", c.xterm256)
    [] OTHER                                         -> c

make_color_normal(c) ==
  CASE c.color_type = "default"                      -> DefaultForeground("normal")
    [] c.color_type = "standard"                     -> Standard("normal", c.ansi)
    [] c.color_type = "xterm256" /\ c.xterm256 \in 8..15
                                                     -> Standard("normal", c.xterm256 - 8)
    [] OTHER                                         -> c

set_color_intensity(s) ==
  [s EXCEPT !.fg = CASE s.intensity = "normal"  -> make_color_normal(@)
                     [] s.intensity = "intense" -> make_color_intense(@)
                     [] s.intensity = "faint"   -> make_color_faint(@)]

XtermColor(n) ==
  [(IF n < 8 THEN Standard("normal", n)
    ELSE IF n < 16 THEN Standard("intense", n - 8)
    ELSE color("xterm256", n, 0, <<IF n < 232 THEN "cube" ELSE "gray", n>>))
   EXCEPT !.color_type = "xterm256"]

-----------------------------------------------------------------------------
(* A control code, on the state so far.                                      *)
SetIntensity(s, intensity) == set_color_intensity([s EXCEPT !.intensity = intensity])

(* 3, 4, 5, 7 and 9 turn italic, underline, blink, reverse and strikethrough *)
(* on; 20 more turns each off.                                               *)
Flags == {3, 4, 5, 7, 9}

ResetForegroundOnly(s) == [s EXCEPT !.fg = DefaultForeground("normal")]
ResetForeground(s) == set_color_intensity([s EXCEPT !.fg = DefaultForeground("normal")])

Control(s, n) ==
  CASE n = 0             -> DefaultState
    [] n = 1             -> SetIntensity(s, "intense")
    [] n = 2             -> SetIntensity(s, "faint")
    [] n = 22            -> SetIntensity(s, "normal")
    [] n \in Flags       -> [s EXCEPT !.flags = @ \cup {n}]
    [] n - 20 \in Flags  -> [s EXCEPT !.flags = @ \ {n - 20}]
    [] n \in 30..37      -> [s EXCEPT !.fg = Standard(s.intensity, n - 30)]
    [] n = 39            -> ResetForeground(s)
    [] n \in 40..47      -> [s EXCEPT !.bg = Standard("normal", n - 40)]
    [] n = 49            -> [s EXCEPT !.bg = DefaultBackground]
    [] OTHER             -> s

-----------------------------------------------------------------------------
(* The parser.                                                               *)
Idle == [on |-> FALSE]

ParseBegin ==
  /\ ~parse.on
  /\ parse' = [on |-> TRUE, new |-> term, ps |-> "CONTROL", next |-> "SEMICOLON",
               target |-> "fg", color |-> DefaultForeground("normal"), read |-> 0]
  /\ UNCHANGED term

Reading(ps) == parse.on /\ parse.ps = ps /\ parse.read <= MaxParse

Continue(ps, next, new, target, c) ==
  /\ parse' = [parse EXCEPT !.ps = ps, !.next = next, !.new = new, !.target = target,
                            !.color = c, !.read = @ + 1]
  /\ UNCHANGED term

(* Returns 0: the end of the string, a sequence that is too long, or a token *)
(* that is not expected.                                                     *)
ParseFails == parse.on /\ parse' = Idle /\ UNCHANGED term

ParseEnd ==   \* an m
  /\ parse.on /\ parse.read <= MaxParse
  /\ term' = parse.new
  /\ parse' = Idle

ParseSemicolon ==
  /\ Reading("SEMICOLON")
  /\ Continue(parse.next, "CONTROL", parse.new, parse.target, parse.color)

ParseControl(n) ==
  /\ Reading("CONTROL")
  /\ n \notin {38, 48}
  /\ Continue("SEMICOLON", "CONTROL", Control(parse.new, n), parse.target, parse.color)

ParseTarget(n) ==
  /\ Reading("CONTROL")
  /\ n \in {38, 48}
  /\ Continue("SEMICOLON", "2_OR_5", parse.new, IF n = 38 THEN "fg" ELSE "bg", parse.color)

Parse2Or5(n) ==
  /\ Reading("2_OR_5")
  /\ CASE n = 2 -> Continue("SEMICOLON", "RED", parse.new, parse.target,
                            color("rgb", 0, 0, parse.color.rgb))
       [] n = 5 -> Continue("SEMICOLON", "XTERM_256", parse.new, parse.target,
                            [parse.color EXCEPT !.ansi = 0, !.color_type = "xterm256"])
       [] OTHER -> Continue("SEMICOLON", "CONTROL", parse.new, parse.target, parse.color)

set_target_color(s, target, c) == [s EXCEPT ![target] = c]

ParseXterm(n) ==
  LET c == XtermColor(n % 256) IN
  /\ Reading("XTERM_256")
  /\ Continue("SEMICOLON", "CONTROL", set_target_color(parse.new, parse.target, c),
              parse.target, c)

ParseRed(n) ==
  /\ Reading("RED")
  /\ Continue("SEMICOLON", "GREEN", parse.new, parse.target,
              [parse.color EXCEPT !.rgb = <<n % 256>>])

ParseGreen(n) ==
  /\ Reading("GREEN")
  /\ Continue("SEMICOLON", "BLUE", parse.new, parse.target,
              [parse.color EXCEPT !.rgb = Append(@, n % 256)])

ParseBlue(n) ==
  LET c == [parse.color EXCEPT !.rgb = Append(@, n % 256)] IN
  /\ Reading("BLUE")
  /\ Continue("SEMICOLON", "CONTROL", set_target_color(parse.new, parse.target, c),
              parse.target, c)

-----------------------------------------------------------------------------
TermInit == term = DefaultState /\ parse = Idle

TermNext ==
  \/ ParseBegin \/ ParseFails \/ ParseEnd \/ ParseSemicolon
  \/ \E n \in Codes : ParseControl(n) \/ ParseTarget(n) \/ Parse2Or5(n)
  \/ \E n \in Indexes : ParseXterm(n)
  \/ \E n \in Components : ParseRed(n) \/ ParseGreen(n) \/ ParseBlue(n)

TermSpec == TermInit /\ [][TermNext]_termVars

-----------------------------------------------------------------------------
(* Properties.                                                               *)

ColorOf(c, intensity, default) ==
  CASE c.color_type = "default"  -> c = default
    [] c.color_type = "standard" -> c = Standard(intensity, c.ansi)
    [] c.color_type = "xterm256" -> c = XtermColor(c.xterm256)
    [] c.color_type = "rgb"      -> c.xterm256 = 0 /\ c.ansi = 0 /\ Len(c.rgb) = 3

Consistent(s) ==
  /\ ColorOf(s.fg, s.intensity, DefaultForeground(s.intensity))
  /\ ColorOf(s.bg, "normal", DefaultBackground)

(* Color and intensity are set by different codes, in any order and in any    *)
(* number of sequences: a default or standard foreground is always the one of *)
(* the intensity in force, a background never follows it, and the type of a   *)
(* color tells where its other fields come from (term.h:26, term.c:238).      *)
ColorFollowsIntensity == Consistent(term) /\ (parse.on => Consistent(parse.new))
=============================================================================
