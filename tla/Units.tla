------------------------------- MODULE Units --------------------------------
(***************************************************************************)
(* Durations and byte counts written with units (dynamic-config, units.rs). *)
(*                                                                         *)
(* A text is the sequence of its components, each a number and a unit; the  *)
(* numbers are the texts' own, and may be larger than a 64-bit count can    *)
(* hold, which is MaxCount here.  A duration is counted in milliseconds.    *)
(***************************************************************************)
EXTENDS Integers, Sequences

CONSTANTS MaxCount,     \* the largest 64-bit count
          UnitTexts     \* the texts to read

ASSUME UnitsAssumption ==
    /\ MaxCount \in Nat \ {0}
    /\ UnitTexts \subseteq Seq([number : Nat, unit : STRING])

VARIABLE text

Invalid == -1

\* split_unit: a number that is not a 64-bit count is refused.
split_unit(component) == component.number <= MaxCount

\* Mutant: the product is the largest count instead.
saturating(value, factor) ==
    IF value > MaxCount \div factor THEN MaxCount ELSE value * factor

\* checked: a product that is not a count is refused.
checked(value, factor) ==
    IF value > MaxCount \div factor THEN Invalid ELSE value * factor

\* The seconds of a component whose unit is m, h or d.
Seconds(component) ==
    checked(component.number,
            CASE component.unit = "m" -> 60
              [] component.unit = "h" -> 60 * 60
              [] component.unit = "d" -> 24 * 60 * 60)

\* One component of duration::parse, in milliseconds.
Component(component) ==
    CASE ~split_unit(component) -> Invalid
      [] split_unit(component) /\ component.unit = "ms" -> component.number
      [] split_unit(component) /\ component.unit = "s" ->
            1000 * component.number
      [] split_unit(component) /\ component.unit \in {"m", "h", "d"} ->
            IF Seconds(component) = Invalid THEN Invalid
            ELSE 1000 * Seconds(component)
      [] OTHER -> Invalid

\* The longest Duration: MaxCount seconds and a fraction of one.
LongestDuration == 1000 * MaxCount + 999

\* duration::parse: the components are added up, and nothing is a duration
\* that does not fit.
duration_parse(components) ==
    LET total[n \in 0..Len(components)] ==
            IF n = 0 THEN 0
            ELSE IF \/ total[n - 1] = Invalid
                    \/ Component(components[n]) = Invalid
                    \/ total[n - 1] + Component(components[n])
                          > LongestDuration
            THEN Invalid
            ELSE total[n - 1] + Component(components[n])
    IN  IF components = <<>> THEN Invalid ELSE total[Len(components)]

\* duration::serialize: the milliseconds, as one component.
duration_serialize(duration) == <<[number |-> duration, unit |-> "ms"]>>

\* DurationVisitor: a bare number is in seconds, a negative one is none.
visit_number(number) ==
    IF number \in 0..MaxCount THEN 1000 * number ELSE Invalid

\* bytes::parse: one component, and no unit is bytes.
Multiplier(unit) ==
    CASE unit \in {"", "b"} -> 1
      [] unit \in {"k", "kib"} -> 1024
      [] unit \in {"m", "mib"} -> 1024 * 1024
      [] unit \in {"g", "gib"} -> 1024 * 1024 * 1024
      [] unit \in {"t", "tib"} -> 1024 * 1024 * 1024 * 1024
      [] unit = "kb" -> 1000
      [] unit = "mb" -> 1000 * 1000
      [] unit = "gb" -> 1000 * 1000 * 1000
      [] unit = "tb" -> 1000 * 1000 * 1000 * 1000
      [] OTHER -> 0

bytes_parse(component) ==
    IF ~split_unit(component) \/ Multiplier(component.unit) = 0 THEN Invalid
    ELSE checked(component.number, Multiplier(component.unit))

UnitsInit == text \in UnitTexts

-----------------------------------------------------------------------------
\* The milliseconds, or bytes, that a component stands for.
Meant(component) ==
    component.number *
        CASE component.unit = "ms" -> 1
          [] component.unit = "s" -> 1000
          [] component.unit = "m" -> 60000
          [] component.unit = "h" -> 3600000
          [] component.unit = "d" -> 86400000

MeantTotal(components) ==
    LET upTo[n \in 0..Len(components)] ==
            IF n = 0 THEN 0 ELSE upTo[n - 1] + Meant(components[n])
    IN  upTo[Len(components)]

\* A text is read as exactly what it says or refused, at every boundary of
\* the arithmetic, and a duration that was read can be written and read
\* back as long as its milliseconds are a count (the code's exception: a
\* longer one is written as a number that is refused).
UnitsAreExact ==
    LET d == duration_parse(text)
        whole == \A i \in 1..Len(text) :
                    text[i].unit \in {"ms", "s", "m", "h", "d"}
    IN  /\ d # Invalid => whole /\ d = MeantTotal(text)
        /\ d \in 0..MaxCount =>
               duration_parse(duration_serialize(d)) = d
        /\ (Len(text) = 1 /\ bytes_parse(text[1]) # Invalid) =>
               bytes_parse(text[1])
                   = text[1].number * Multiplier(text[1].unit)
        /\ \A n \in {0, MaxCount} :
               visit_number(n) = duration_parse(<<[number |-> n, unit |-> "s"]>>)
=============================================================================
