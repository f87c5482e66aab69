-------------------------- MODULE FtdiEepromProofs --------------------------
(***************************************************************************)
(* Theorems about FtdiEeprom and FtdiLine, for all devices, EEPROM sizes,  *)
(* settings and values.                                                    *)
(***************************************************************************)
EXTENDS FtdiEeprom, EepromLayoutProofs

-----------------------------------------------------------------------------
(* The line settings.                                                      *)

\* A port has what was asked for, but for the latency that a write left.
Agree(r, a) ==
    /\ r.latency \in {a.latency, WriteLatency}
    /\ r.data = a.data /\ r.flow = a.flow /\ r.xonxoff = a.xonxoff
    /\ r.dtr = a.dtr /\ r.rts = a.rts /\ r.event = a.event /\ r.error = a.error

LEMMA AgreeIs ==
    ASSUME NEW r \in Settings, NEW a \in Settings
    PROVE  Agree(r, a) <=> /\ r.latency \in {a.latency, WriteLatency}
                           /\ [r EXCEPT !.latency = 0] = [a EXCEPT !.latency = 0]
<1>1. ASSUME Agree(r, a) PROVE [r EXCEPT !.latency = 0] = [a EXCEPT !.latency = 0]
  BY <1>1 DEF Agree, Settings
<1>2. ASSUME [r EXCEPT !.latency = 0] = [a EXCEPT !.latency = 0], r.latency \in {a.latency, WriteLatency}
      PROVE  Agree(r, a)
  <2>. DEFINE x == [r EXCEPT !.latency = 0]
              y == [a EXCEPT !.latency = 0]
  <2>1. x.data = r.data /\ x.flow = r.flow /\ x.xonxoff = r.xonxoff /\ x.dtr = r.dtr
        /\ x.rts = r.rts /\ x.event = r.event /\ x.error = r.error
    BY DEF Settings
  <2>2. y.data = a.data /\ y.flow = a.flow /\ y.xonxoff = a.xonxoff /\ y.dtr = a.dtr
        /\ y.rts = a.rts /\ y.event = a.event /\ y.error = a.error
    BY DEF Settings
  <2>3. x = y
    BY <1>2
  <2>. HIDE DEF x, y
  <2>. QED BY <1>2, <2>1, <2>2, <2>3 DEF Agree
<1>. QED BY <1>1, <1>2 DEF Agree

\* What the chip reads out of a value that the library has packed.
LEMMA DataUnpacked ==
    ASSUME NEW c, c.bits \in Byte, c.parity \in 0..7, c.sbit \in 0..7, c.break \in Bit
    PROVE  /\ Field(DataValue(c), 1, 256) = c.bits /\ Field(DataValue(c), 256, 8) = c.parity
           /\ Field(DataValue(c), 2048, 8) = c.sbit /\ Field(DataValue(c), 16384, 2) = c.break
<1>. DEFINE b == c.bits
            p == c.parity
            s == c.sbit
            k == c.break
            v == DataValue(c)
<1>1. v = b + 256 * p + 2048 * s + 16384 * k /\ b \in Byte /\ p \in 0..7 /\ s \in 0..7 /\ k \in Bit
  BY SMT DEF DataValue
<1>. HIDE DEF b, p, s, k, v
<1>2. Field(v, 1, 256) = b /\ Field(v, 256, 8) = p /\ Field(v, 2048, 8) = s /\ Field(v, 16384, 2) = k
  BY <1>1, SMT DEF Field, Byte, Bit
<1>. QED BY <1>2, SMT DEF b, p, s, k, v

LEMMA CharsUnpacked ==
    ASSUME NEW x \in Byte, NEW y \in Byte, NEW v, v = x + 256 * y
    PROVE  Field(v, 1, 256) = x /\ Field(v, 256, 256) = y
BY SMT DEF Field, Byte, Bit

LEMMA CharUnpacked ==
    ASSUME NEW x \in Byte, NEW e \in Bit, NEW v, v = x + 256 * e
    PROVE  Field(v, 1, 256) = x /\ Field(v, 256, 2) = e
BY SMT DEF Field, Byte, Bit

LEMMA LinesUnpacked ==
    ASSUME NEW x \in Bit, NEW y \in Bit, NEW old
    PROVE  /\ Line(DtrValue(x), 1, old) = x /\ Line(DtrValue(x), 2, old) = old
           /\ Line(RtsValue(y), 2, old) = y /\ Line(RtsValue(y), 1, old) = old
           /\ Line(DtrValue(x) + RtsValue(y), 1, old) = x
           /\ Line(DtrValue(x) + RtsValue(y), 2, old) = y
BY SMT DEF Line, Field, Byte, Bit, DtrValue, RtsValue

\* Two settings that agree still do when the same changes in both.
LEMMA SameData ==
    ASSUME NEW r \in Settings, NEW a \in Settings, Agree(r, a),
           NEW v \in Byte \X (0..7) \X (0..7) \X Bit
    PROVE  /\ [r EXCEPT !.data = v] \in Settings /\ [a EXCEPT !.data = v] \in Settings
           /\ Agree([r EXCEPT !.data = v], [a EXCEPT !.data = v])
BY DEF Settings, Agree

LEMMA SameFlow ==
    ASSUME NEW r \in Settings, NEW a \in Settings, Agree(r, a), NEW x \in Byte, NEW v \in Byte \X Byte
    PROVE  /\ [r EXCEPT !.flow = x, !.xonxoff = v] \in Settings
           /\ [a EXCEPT !.flow = x, !.xonxoff = v] \in Settings
           /\ Agree([r EXCEPT !.flow = x, !.xonxoff = v], [a EXCEPT !.flow = x, !.xonxoff = v])
<1>1. [r EXCEPT !.flow = x, !.xonxoff = v] \in Settings
  BY DEF Settings
<1>2. [a EXCEPT !.flow = x, !.xonxoff = v] \in Settings
  BY DEF Settings
<1>3. Agree([r EXCEPT !.flow = x, !.xonxoff = v], [a EXCEPT !.flow = x, !.xonxoff = v])
  BY DEF Settings, Agree
<1>. QED BY <1>1, <1>2, <1>3

LEMMA SameLines ==
    ASSUME NEW r \in Settings, NEW a \in Settings, Agree(r, a), NEW x \in Bit, NEW y \in Bit
    PROVE  /\ [r EXCEPT !.dtr = x, !.rts = y] \in Settings
           /\ [a EXCEPT !.dtr = x, !.rts = y] \in Settings
           /\ Agree([r EXCEPT !.dtr = x, !.rts = y], [a EXCEPT !.dtr = x, !.rts = y])
<1>1. [r EXCEPT !.dtr = x, !.rts = y] \in Settings
  BY DEF Settings
<1>2. [a EXCEPT !.dtr = x, !.rts = y] \in Settings
  BY DEF Settings
<1>3. Agree([r EXCEPT !.dtr = x, !.rts = y], [a EXCEPT !.dtr = x, !.rts = y])
  BY DEF Settings, Agree
<1>. QED BY <1>1, <1>2, <1>3

LEMMA SameDtr ==
    ASSUME NEW r \in Settings, NEW a \in Settings, Agree(r, a), NEW x \in Bit
    PROVE  /\ [r EXCEPT !.dtr = x, !.rts = r.rts] \in Settings /\ [a EXCEPT !.dtr = x] \in Settings
           /\ Agree([r EXCEPT !.dtr = x, !.rts = r.rts], [a EXCEPT !.dtr = x])
<1>1. [r EXCEPT !.dtr = x, !.rts = r.rts] \in Settings
  BY DEF Settings
<1>2. [a EXCEPT !.dtr = x] \in Settings
  BY DEF Settings
<1>3. Agree([r EXCEPT !.dtr = x, !.rts = r.rts], [a EXCEPT !.dtr = x])
  BY DEF Settings, Agree
<1>. QED BY <1>1, <1>2, <1>3

LEMMA SameRts ==
    ASSUME NEW r \in Settings, NEW a \in Settings, Agree(r, a), NEW x \in Bit
    PROVE  /\ [r EXCEPT !.dtr = r.dtr, !.rts = x] \in Settings /\ [a EXCEPT !.rts = x] \in Settings
           /\ Agree([r EXCEPT !.dtr = r.dtr, !.rts = x], [a EXCEPT !.rts = x])
<1>1. [r EXCEPT !.dtr = r.dtr, !.rts = x] \in Settings
  BY DEF Settings
<1>2. [a EXCEPT !.rts = x] \in Settings
  BY DEF Settings
<1>3. Agree([r EXCEPT !.dtr = r.dtr, !.rts = x], [a EXCEPT !.rts = x])
  BY DEF Settings, Agree
<1>. QED BY <1>1, <1>2, <1>3

LEMMA SameCharacter ==
    ASSUME NEW r \in Settings, NEW a \in Settings, Agree(r, a), NEW v \in Byte \X Bit
    PROVE  /\ [r EXCEPT !.event = v] \in Settings /\ [a EXCEPT !.event = v] \in Settings
           /\ Agree([r EXCEPT !.event = v], [a EXCEPT !.event = v])
           /\ [r EXCEPT !.error = v] \in Settings /\ [a EXCEPT !.error = v] \in Settings
           /\ Agree([r EXCEPT !.error = v], [a EXCEPT !.error = v])
<1>1. /\ [r EXCEPT !.event = v] \in Settings /\ [a EXCEPT !.event = v] \in Settings
      /\ Agree([r EXCEPT !.event = v], [a EXCEPT !.event = v])
  BY DEF Settings, Agree
<1>2. /\ [r EXCEPT !.error = v] \in Settings /\ [a EXCEPT !.error = v] \in Settings
      /\ Agree([r EXCEPT !.error = v], [a EXCEPT !.error = v])
  BY DEF Settings, Agree
<1>. QED BY <1>1, <1>2

LEMMA SameLatency ==
    ASSUME NEW r \in Settings, NEW a \in Settings, Agree(r, a), NEW x \in Byte
    PROVE  /\ [r EXCEPT !.latency = x] \in Settings /\ [a EXCEPT !.latency = x] \in Settings
           /\ Agree([r EXCEPT !.latency = x], [a EXCEPT !.latency = x])
BY DEF Settings, Agree

\* The request of a call, taken by the chip, makes of a port that has what was asked
\* for one that has what is asked for now; and it names that port.
LEMMA RequestMeans ==
    ASSUME NEW c \in AllCalls, NEW r \in Settings, NEW a \in Settings, Agree(r, a), index \in 1..4
    PROVE  /\ Request(c).index % 256 = index
           /\ ChipSets(r, Request(c)) \in Settings /\ Meant(a, c) \in Settings
           /\ Agree(ChipSets(r, Request(c)), Meant(a, c))
<1>. DEFINE q == Request(c)
<1>1. CASE c.name = "set_line_property2"
  <2>1. c.bits \in {7, 8} /\ c.parity \in 0..4 /\ c.sbit \in 0..2 /\ c.break \in Bit
    BY <1>1, SMT DEF AllCalls
  <2>2. q.request = "data" /\ q.value = DataValue(c) /\ q.index = 0 + index
    BY <1>1 DEF Request, Ask
  <2>. HIDE DEF q
  <2>3. Field(q.value, 1, 256) = c.bits /\ Field(q.value, 256, 8) = c.parity
        /\ Field(q.value, 2048, 8) = c.sbit /\ Field(q.value, 16384, 2) = c.break
    <3>1. c.bits \in Byte /\ c.parity \in 0..7 /\ c.sbit \in 0..7 /\ c.break \in Bit
      BY <2>1, SMT DEF Byte, Bit
    <3>. QED BY <2>2, <3>1, DataUnpacked
  <2>4. ChipSets(r, q) = [r EXCEPT !.data = <<c.bits, c.parity, c.sbit, c.break>>]
    <3>1. ChipSets(r, q) = [r EXCEPT !.data = <<Field(q.value, 1, 256), Field(q.value, 256, 8),
                                      Field(q.value, 2048, 8), Field(q.value, 16384, 2)>>]
      BY <2>2 DEF ChipSets
    <3>. QED BY <2>3, <3>1, SMT DEF Settings
  <2>5. Meant(a, c) = [a EXCEPT !.data = <<c.bits, c.parity, c.sbit, c.break>>]
    BY <1>1 DEF Meant
  <2>7. q.index % 256 = index
    BY <2>1, <2>2, SMT
  <2>8. ChipSets(r, q) \in Settings /\ Meant(a, c) \in Settings /\ Agree(ChipSets(r, q), Meant(a, c))
    <3>. DEFINE v == <<c.bits, c.parity, c.sbit, c.break>>
    <3>1. v \in Byte \X (0..7) \X (0..7) \X Bit
      BY <2>1, SMT DEF Byte, Bit
    <3>. HIDE DEF v
    <3>2. [r EXCEPT !.data = v] \in Settings /\ [a EXCEPT !.data = v] \in Settings
          /\ Agree([r EXCEPT !.data = v], [a EXCEPT !.data = v])
      BY <3>1, SameData
    <3>. QED BY <2>4, <2>5, <3>2, Zenon DEF v
  <2>. QED BY <2>7, <2>8 DEF q
<1>2. CASE c.name = "setflowctrl"
  <2>1. c.flowctrl \in {0, 256, 512}
    BY <1>2, SMT DEF AllCalls
  <2>2. q.request = "flow" /\ q.value = 0 /\ q.index = c.flowctrl + index
    BY <1>2 DEF Request, Ask
  <2>. HIDE DEF q
  <2>3. Field(q.value, 1, 256) = 0 /\ Field(q.value, 256, 256) = 0 /\ q.index \div 256 = c.flowctrl \div 256
    BY <2>1, <2>2, SMT DEF Field, Byte, Bit
  <2>4. ChipSets(r, q) = [r EXCEPT !.flow = c.flowctrl \div 256, !.xonxoff = <<0, 0>>]
    <3>1. ChipSets(r, q) = [r EXCEPT !.flow = q.index \div 256,
                              !.xonxoff = <<Field(q.value, 1, 256), Field(q.value, 256, 256)>>]
      BY <2>2 DEF ChipSets
    <3>. QED BY <2>3, <3>1, Zenon
  <2>5. Meant(a, c) = [a EXCEPT !.flow = c.flowctrl \div 256, !.xonxoff = <<0, 0>>]
    BY <1>2 DEF Meant
  <2>7. q.index % 256 = index
    BY <2>1, <2>2, SMT
  <2>8. ChipSets(r, q) \in Settings /\ Meant(a, c) \in Settings /\ Agree(ChipSets(r, q), Meant(a, c))
    <3>. DEFINE v == <<0, 0>>
                x == c.flowctrl \div 256
    <3>1. v \in Byte \X Byte /\ x \in Byte
      BY <2>1, SMT DEF Byte, Bit
    <3>. HIDE DEF v, x
    <3>2. [r EXCEPT !.flow = x, !.xonxoff = v] \in Settings /\ [a EXCEPT !.flow = x, !.xonxoff = v] \in Settings
          /\ Agree([r EXCEPT !.flow = x, !.xonxoff = v], [a EXCEPT !.flow = x, !.xonxoff = v])
      BY <3>1, SameFlow
    <3>. QED BY <2>4, <2>5, <3>2, Zenon DEF v, x
  <2>. QED BY <2>7, <2>8 DEF q
<1>3. CASE c.name = "setflowctrl_xonxoff"
  <2>1. c.xon \in Byte /\ c.xoff \in Byte
    BY <1>3, SMT DEF AllCalls
  <2>2. q.request = "flow" /\ q.value = c.xon + 256 * c.xoff /\ q.index = 1024 + index
    BY <1>3 DEF Request, Ask
  <2>. HIDE DEF q
  <2>3. Field(q.value, 1, 256) = c.xon /\ Field(q.value, 256, 256) = c.xoff /\ q.index \div 256 = 4
    <3>1. q.index \div 256 = 4
      BY <2>2, SMT
    <3>. QED BY <2>1, <2>2, <3>1, CharsUnpacked
  <2>4. ChipSets(r, q) = [r EXCEPT !.flow = 4, !.xonxoff = <<c.xon, c.xoff>>]
    <3>1. ChipSets(r, q) = [r EXCEPT !.flow = q.index \div 256,
                              !.xonxoff = <<Field(q.value, 1, 256), Field(q.value, 256, 256)>>]
      BY <2>2 DEF ChipSets
    <3>. QED BY <2>3, <3>1, Zenon
  <2>5. Meant(a, c) = [a EXCEPT !.flow = 4, !.xonxoff = <<c.xon, c.xoff>>]
    BY <1>3 DEF Meant
  <2>7. q.index % 256 = index
    BY <2>1, <2>2, SMT
  <2>8. ChipSets(r, q) \in Settings /\ Meant(a, c) \in Settings /\ Agree(ChipSets(r, q), Meant(a, c))
    <3>. DEFINE v == <<c.xon, c.xoff>>
    <3>1. v \in Byte \X Byte /\ 4 \in Byte
      BY <2>1, SMT DEF Byte, Bit
    <3>. HIDE DEF v
    <3>2. [r EXCEPT !.flow = 4, !.xonxoff = v] \in Settings /\ [a EXCEPT !.flow = 4, !.xonxoff = v] \in Settings
          /\ Agree([r EXCEPT !.flow = 4, !.xonxoff = v], [a EXCEPT !.flow = 4, !.xonxoff = v])
      BY <3>1, SameFlow
    <3>. QED BY <2>4, <2>5, <3>2, Zenon DEF v
  <2>. QED BY <2>7, <2>8 DEF q
<1>4. CASE c.name = "setdtr"
  <2>1. c.state \in Bit
    BY <1>4, SMT DEF AllCalls
  <2>2. q.request = "modem" /\ q.value = DtrValue(c.state) /\ q.index = 0 + index
    BY <1>4 DEF Request, Ask
  <2>. HIDE DEF q
  <2>3. Line(q.value, 1, r.dtr) = c.state /\ Line(q.value, 2, r.rts) = r.rts
    BY <2>1, <2>2, LinesUnpacked
  <2>4. ChipSets(r, q) = [r EXCEPT !.dtr = c.state, !.rts = r.rts]
    <3>1. ChipSets(r, q) = [r EXCEPT !.dtr = Line(q.value, 1, r.dtr), !.rts = Line(q.value, 2, r.rts)]
      BY <2>2 DEF ChipSets
    <3>. QED BY <2>3, <3>1, Zenon
  <2>5. Meant(a, c) = [a EXCEPT !.dtr = c.state]
    BY <1>4 DEF Meant
  <2>7. q.index % 256 = index
    BY <2>1, <2>2, SMT
  <2>8. ChipSets(r, q) \in Settings /\ Meant(a, c) \in Settings /\ Agree(ChipSets(r, q), Meant(a, c))
    <3>1. [r EXCEPT !.dtr = c.state, !.rts = r.rts] \in Settings /\ [a EXCEPT !.dtr = c.state] \in Settings
          /\ Agree([r EXCEPT !.dtr = c.state, !.rts = r.rts], [a EXCEPT !.dtr = c.state])
      BY <2>1, SameDtr
    <3>. QED BY <2>4, <2>5, <3>1, Zenon
  <2>. QED BY <2>7, <2>8 DEF q
<1>5. CASE c.name = "setrts"
  <2>1. c.state \in Bit
    BY <1>5, SMT DEF AllCalls
  <2>2. q.request = "modem" /\ q.value = RtsValue(c.state) /\ q.index = 0 + index
    BY <1>5 DEF Request, Ask
  <2>. HIDE DEF q
  <2>3. Line(q.value, 1, r.dtr) = r.dtr /\ Line(q.value, 2, r.rts) = c.state
    BY <2>1, <2>2, LinesUnpacked
  <2>4. ChipSets(r, q) = [r EXCEPT !.dtr = r.dtr, !.rts = c.state]
    <3>1. ChipSets(r, q) = [r EXCEPT !.dtr = Line(q.value, 1, r.dtr), !.rts = Line(q.value, 2, r.rts)]
      BY <2>2 DEF ChipSets
    <3>. QED BY <2>3, <3>1, Zenon
  <2>5. Meant(a, c) = [a EXCEPT !.rts = c.state]
    BY <1>5 DEF Meant
  <2>7. q.index % 256 = index
    BY <2>1, <2>2, SMT
  <2>8. ChipSets(r, q) \in Settings /\ Meant(a, c) \in Settings /\ Agree(ChipSets(r, q), Meant(a, c))
    <3>1. [r EXCEPT !.dtr = r.dtr, !.rts = c.state] \in Settings /\ [a EXCEPT !.rts = c.state] \in Settings
          /\ Agree([r EXCEPT !.dtr = r.dtr, !.rts = c.state], [a EXCEPT !.rts = c.state])
      BY <2>1, SameRts
    <3>. QED BY <2>4, <2>5, <3>1, Zenon
  <2>. QED BY <2>7, <2>8 DEF q
<1>6. CASE c.name = "setdtr_rts"
  <2>1. c.dtr \in Bit /\ c.rts \in Bit
    BY <1>6, SMT DEF AllCalls
  <2>2. q.request = "modem" /\ q.value = DtrValue(c.dtr) + RtsValue(c.rts) /\ q.index = 0 + index
    BY <1>6 DEF Request, Ask
  <2>. HIDE DEF q
  <2>3. Line(q.value, 1, r.dtr) = c.dtr /\ Line(q.value, 2, r.rts) = c.rts
    BY <2>1, <2>2, LinesUnpacked
  <2>4. ChipSets(r, q) = [r EXCEPT !.dtr = c.dtr, !.rts = c.rts]
    <3>1. ChipSets(r, q) = [r EXCEPT !.dtr = Line(q.value, 1, r.dtr), !.rts = Line(q.value, 2, r.rts)]
      BY <2>2 DEF ChipSets
    <3>. QED BY <2>3, <3>1, Zenon
  <2>5. Meant(a, c) = [a EXCEPT !.dtr = c.dtr, !.rts = c.rts]
    BY <1>6 DEF Meant
  <2>7. q.index % 256 = index
    BY <2>1, <2>2, SMT
  <2>8. ChipSets(r, q) \in Settings /\ Meant(a, c) \in Settings /\ Agree(ChipSets(r, q), Meant(a, c))
    <3>1. [r EXCEPT !.dtr = c.dtr, !.rts = c.rts] \in Settings /\ [a EXCEPT !.dtr = c.dtr, !.rts = c.rts] \in Settings
          /\ Agree([r EXCEPT !.dtr = c.dtr, !.rts = c.rts], [a EXCEPT !.dtr = c.dtr, !.rts = c.rts])
      BY <2>1, SameLines
    <3>. QED BY <2>4, <2>5, <3>1, Zenon
  <2>. QED BY <2>7, <2>8 DEF q
<1>7. CASE c.name = "set_event_char"
  <2>1. c.ch \in Byte /\ c.enable \in Bit
    BY <1>7, SMT DEF AllCalls
  <2>2. q.request = "event" /\ q.value = CharValue(c) /\ q.index = 0 + index
    BY <1>7 DEF Request, Ask
  <2>. HIDE DEF q
  <2>3. Field(q.value, 1, 256) = c.ch /\ Field(q.value, 256, 2) = c.enable
    BY <2>1, <2>2, CharUnpacked DEF CharValue
  <2>4. ChipSets(r, q) = [r EXCEPT !.event = <<c.ch, c.enable>>]
    <3>1. ChipSets(r, q) = [r EXCEPT !.event = <<Field(q.value, 1, 256), Field(q.value, 256, 2)>>]
      BY <2>2 DEF ChipSets
    <3>. QED BY <2>3, <3>1, Zenon
  <2>5. Meant(a, c) = [a EXCEPT !.event = <<c.ch, c.enable>>]
    BY <1>7 DEF Meant
  <2>7. q.index % 256 = index
    BY <2>1, <2>2, SMT
  <2>8. ChipSets(r, q) \in Settings /\ Meant(a, c) \in Settings /\ Agree(ChipSets(r, q), Meant(a, c))
    <3>. DEFINE v == <<c.ch, c.enable>>
    <3>1. v \in Byte \X Bit
      BY <2>1, SMT DEF Byte, Bit
    <3>. HIDE DEF v
    <3>2. [r EXCEPT !.event = v] \in Settings /\ [a EXCEPT !.event = v] \in Settings
          /\ Agree([r EXCEPT !.event = v], [a EXCEPT !.event = v])
      BY <3>1, SameCharacter
    <3>. QED BY <2>4, <2>5, <3>2, Zenon DEF v
  <2>. QED BY <2>7, <2>8 DEF q
<1>8. CASE c.name = "set_error_char"
  <2>1. c.ch \in Byte /\ c.enable \in Bit
    BY <1>8, SMT DEF AllCalls
  <2>2. q.request = "error" /\ q.value = CharValue(c) /\ q.index = 0 + index
    BY <1>8 DEF Request, Ask
  <2>. HIDE DEF q
  <2>3. Field(q.value, 1, 256) = c.ch /\ Field(q.value, 256, 2) = c.enable
    BY <2>1, <2>2, CharUnpacked DEF CharValue
  <2>4. ChipSets(r, q) = [r EXCEPT !.error = <<c.ch, c.enable>>]
    <3>1. ChipSets(r, q) = [r EXCEPT !.error = <<Field(q.value, 1, 256), Field(q.value, 256, 2)>>]
      BY <2>2 DEF ChipSets
    <3>. QED BY <2>3, <3>1, Zenon
  <2>5. Meant(a, c) = [a EXCEPT !.error = <<c.ch, c.enable>>]
    BY <1>8 DEF Meant
  <2>7. q.index % 256 = index
    BY <2>1, <2>2, SMT
  <2>8. ChipSets(r, q) \in Settings /\ Meant(a, c) \in Settings /\ Agree(ChipSets(r, q), Meant(a, c))
    <3>. DEFINE v == <<c.ch, c.enable>>
    <3>1. v \in Byte \X Bit
      BY <2>1, SMT DEF Byte, Bit
    <3>. HIDE DEF v
    <3>2. [r EXCEPT !.error = v] \in Settings /\ [a EXCEPT !.error = v] \in Settings
          /\ Agree([r EXCEPT !.error = v], [a EXCEPT !.error = v])
      BY <3>1, SameCharacter
    <3>. QED BY <2>4, <2>5, <3>2, Zenon DEF v
  <2>. QED BY <2>7, <2>8 DEF q
<1>9. CASE c.name = "set_latency_timer"
  <2>1. c.latency \in Byte
    BY <1>9, SMT DEF AllCalls
  <2>2. q.request = "latency" /\ q.value = c.latency /\ q.index = 0 + index
    BY <1>9 DEF Request, Ask
  <2>. HIDE DEF q
  <2>4. ChipSets(r, q) = [r EXCEPT !.latency = c.latency]
    BY <2>2 DEF ChipSets, Settings
  <2>5. Meant(a, c) = [a EXCEPT !.latency = c.latency]
    BY <1>9 DEF Meant
  <2>7. q.index % 256 = index
    BY <2>1, <2>2, SMT
  <2>8. ChipSets(r, q) \in Settings /\ Meant(a, c) \in Settings /\ Agree(ChipSets(r, q), Meant(a, c))
    BY <2>1, <2>4, <2>5, SameLatency
  <2>. QED BY <2>7, <2>8 DEF q
<1>. QED
  <2>1. c.name \in {"set_line_property2", "setflowctrl", "setflowctrl_xonxoff", "setdtr", "setrts",
                    "setdtr_rts", "set_event_char", "set_error_char", "set_latency_timer"}
    BY DEF AllCalls
  <2>. QED BY <2>1, <1>1, <1>2, <1>3, <1>4, <1>5, <1>6, <1>7, <1>8, <1>9

-----------------------------------------------------------------------------
(* Types.                                                                  *)

IsBlock(b) ==
    /\ b = [what |-> b.what, part |-> b.part, header |-> b.header, strings |-> b.strings,
            user |-> b.user, factory |-> b.factory, sum |-> b.sum]
    /\ b.what \in {"blank", "zero", "magic", "part", "patched"} /\ b.part \in 0..4
AreBlocks(f, n) == f = [i \in 1..n |-> f[i]] /\ \A i \in 1..n : IsBlock(f[i])

IsEeprom(e) ==
    /\ e = [size |-> e.size, values |-> e.values, strings |-> e.strings, user |-> e.user,
            buf |-> e.buf, initialized |-> e.initialized]
    /\ e.size \in {-1, 0, 64, 128, 256} /\ e.initialized \in BOOLEAN
    /\ e.values = [f \in Fields |-> e.values[f]]
    /\ AreBlocks(e.buf, 4)

IsBuilt(b) ==
    /\ b = [on |-> b.on, size |-> b.size, values |-> b.values, strings |-> b.strings]
    /\ b.size \in {0, 64, 128, 256}

\* What a size or an open device says about the type.
Session ==
    /\ family \in Families /\ type \in {BM, family}
    /\ usb_dev # NULL => type = family
    /\ eeprom.size # 0 => type = family
    /\ calls \in 0..MaxCalls[family] /\ faults \in 0..MaxFaults

RomOK ==
    /\ rom = [d \in Devices |-> rom[d]]
    /\ \A d \in Devices : AreBlocks(rom[d], RomBlocks(family, d))

BuiltOK ==
    /\ IsBuilt(built)
    /\ meant = [d \in Devices |-> meant[d]]
    /\ \A d \in Devices : IsBuilt(meant[d])

TypeInv == LineTypeOK /\ Session /\ IsEeprom(eeprom) /\ RomOK /\ BuiltOK

\* A record with one of its fields changed.
LEMMA EepromUpdates ==
    ASSUME NEW e, IsEeprom(e)
    PROVE  /\ \A x \in {-1, 0, 64, 128, 256} : IsEeprom([e EXCEPT !.size = x])
           /\ \A x : IsEeprom([e EXCEPT !.strings = x])
           /\ \A x : IsEeprom([e EXCEPT !.user = x])
           /\ \A x \in BOOLEAN : IsEeprom([e EXCEPT !.initialized = x])
           /\ \A f \in Fields : \A x : IsEeprom([e EXCEPT !.values[f] = x])
<1>1. ASSUME NEW x \in {-1, 0, 64, 128, 256} PROVE IsEeprom([e EXCEPT !.size = x])
  BY DEF IsEeprom
<1>2. ASSUME NEW x PROVE IsEeprom([e EXCEPT !.strings = x])
  BY DEF IsEeprom
<1>3. ASSUME NEW x PROVE IsEeprom([e EXCEPT !.user = x])
  BY DEF IsEeprom
<1>4. ASSUME NEW x \in BOOLEAN PROVE IsEeprom([e EXCEPT !.initialized = x])
  BY DEF IsEeprom
<1>5. ASSUME NEW f \in Fields, NEW x PROVE IsEeprom([e EXCEPT !.values[f] = x])
  BY DEF IsEeprom
<1>. QED BY <1>1, <1>2, <1>3, <1>4, <1>5

LEMMA BufUpdates ==
    ASSUME NEW e, IsEeprom(e), NEW buf, AreBlocks(buf, 4)
    PROVE  IsEeprom([e EXCEPT !.buf = buf])
BY DEF IsEeprom

LEMMA ValuesUpdate ==
    ASSUME NEW e, IsEeprom(e), NEW v, v = [f \in Fields |-> v[f]]
    PROVE  IsEeprom([e EXCEPT !.values = v])
BY DEF IsEeprom

LEMMA SimpleBlocks ==
    /\ IsBlock(Blank) /\ IsBlock(Zero) /\ IsBlock(Magic)
    /\ \A m, i : i \in 1..4 => IsBlock(Part(m, i))
<1>1. IsBlock(Blank) /\ IsBlock(Zero) /\ IsBlock(Magic)
  BY DEF IsBlock, Blank, Zero, Magic, Block
<1>2. ASSUME NEW m, NEW i \in 1..4 PROVE IsBlock(Part(m, i))
  <2>1. Part(m, i).what = "part" /\ Part(m, i).part = i
    BY DEF Part
  <2>. QED BY <2>1 DEF IsBlock, Part
<1>. QED BY <1>1, <1>2

LEMMA BlockChanges ==
    ASSUME NEW b, NEW x, IsBlock(b)
    PROVE  /\ IsBlock([b EXCEPT !.factory = x]) /\ IsBlock([b EXCEPT !.sum = x])
           /\ IsBlock([b EXCEPT !.what = "patched"])
BY DEF IsBlock

\* The sizes of EEPROMs.
LEMMA RomSizes ==
    ASSUME NEW d \in Devices, family \in Families
    PROVE  RomBlocks(family, d) \in {0, 2, 4, 8}
<1>1. External[family][d] \in {0, 46, 56, 66}
  BY EepromAssumption
<1>. QED BY <1>1, SMT DEF RomBlocks

LEMMA RomLength ==
    ASSUME RomOK, NEW d \in Devices, family \in Families
    PROVE  /\ Len(rom[d]) = RomBlocks(family, d) /\ DOMAIN rom[d] = 1..RomBlocks(family, d)
           /\ rom[d] = <<>> <=> RomBlocks(family, d) = 0
<1>. DEFINE r == rom[d]
            n == RomBlocks(family, d)
<1>1. r = [i \in 1..n |-> r[i]] /\ n \in {0, 2, 4, 8}
  BY RomSizes DEF RomOK, AreBlocks
<1>. HIDE DEF r, n
<1>2. DOMAIN r = 1..n /\ n \in Nat
  BY <1>1
<1>3. Len(r) = n
  BY <1>1, <1>2
<1>4. r = <<>> <=> n = 0
  BY <1>1, <1>2
<1>. QED BY <1>2, <1>3, <1>4 DEF r, n

\* What a chip answers.
LEMMA AnswersAreBlocks ==
    ASSUME RomOK, family \in Families, NEW d \in Devices
    PROVE  /\ \A i \in Nat : IsBlock(Answer(d, i))
           /\ AreBlocks(Answers(d), 4)
<1>1. ASSUME NEW i \in Nat PROVE IsBlock(Answer(d, i))
  <2>1. CASE RomBlocks(family, d) = 0
    BY <2>1, RomLength, SimpleBlocks DEF Answer
  <2>2. CASE RomBlocks(family, d) # 0
    <3>1. RomBlocks(family, d) \in {2, 4, 8}
      BY <2>2, RomSizes
    <3>2. (i % RomBlocks(family, d)) + 1 \in 1..RomBlocks(family, d)
      BY <3>1, SMT
    <3>3. Answer(d, i) = rom[d][(i % RomBlocks(family, d)) + 1]
      BY <2>2, RomLength DEF Answer
    <3>. QED BY <3>2, <3>3 DEF RomOK, AreBlocks
  <2>. QED BY <2>1, <2>2
<1>2. \A i \in 1..4 : IsBlock(Answers(d)[i])
  BY <1>1 DEF Answers
<1>. QED BY <1>1, <1>2 DEF Answers, AreBlocks

\* The last of some parts.
LEMMA MaxOfParts ==
    ASSUME NEW S, S \subseteq 1..4, S # {}
    PROVE  Max(S) \in S /\ Max(S) \in 1..4 /\ \A i \in S : i <= Max(S)
<1>1. \E x \in S : \A y \in S : x >= y
  <2>1. CASE 4 \in S
    BY <2>1
  <2>2. CASE 4 \notin S /\ 3 \in S
    <3>1. \A y \in S : 3 >= y
      BY <2>2
    <3>. QED BY <2>2, <3>1
  <2>3. CASE 4 \notin S /\ 3 \notin S /\ 2 \in S
    <3>1. \A y \in S : 2 >= y
      BY <2>3
    <3>. QED BY <2>3, <3>1
  <2>4. CASE 4 \notin S /\ 3 \notin S /\ 2 \notin S
    <3>1. ASSUME NEW y \in S PROVE y = 1
      <4>1. y \in 1..4 /\ y # 2 /\ y # 3 /\ y # 4
        BY <2>4
      <4>. QED BY <4>1
    <3>2. 1 \in S
      BY <3>1
    <3>. QED BY <3>1, <3>2
  <2>. QED BY <2>1, <2>2, <2>3, <2>4
<1>2. Max(S) \in S /\ \A y \in S : Max(S) >= y
  BY <1>1 DEF Max
<1>. QED BY <1>2

\* What writing, marking and erasing leave of an EEPROM.
LEMMA ChangedAreBlocks ==
    ASSUME RomOK, family \in Families, IsEeprom(eeprom), NEW d \in Devices
    PROVE  /\ \A k \in 0..4 : AreBlocks(Written(d, k), RomBlocks(family, d))
           /\ AreBlocks(Erased(d), RomBlocks(family, d))
           /\ \A i \in Nat : AreBlocks(Marked(Erased(d), i), RomBlocks(family, d))
           /\ \A i : rom[d] # <<>> /\ i \in DOMAIN rom[d] =>
                AreBlocks([rom[d] EXCEPT ![i].what = "patched"], RomBlocks(family, d))
<1>. DEFINE n == RomBlocks(family, d)
<1>1. n \in {0, 2, 4, 8} /\ DOMAIN rom[d] = 1..n /\ Len(rom[d]) = n /\ \A i \in 1..n : IsBlock(rom[d][i])
  BY RomSizes, RomLength DEF RomOK, AreBlocks
<1>2. ASSUME NEW k \in 0..4 PROVE AreBlocks(Written(d, k), n)
  <2>1. Written(d, k) = [j \in 1..n |-> Written(d, k)[j]]
    BY <1>1 DEF Written
  <2>2. ASSUME NEW j \in 1..n PROVE IsBlock(Written(d, k)[j])
    <3>. DEFINE here == {i \in 1..k : ((i - 1) % Len(rom[d])) + 1 = j}
    <3>1. here \subseteq 1..4
      OBVIOUS
    <3>2. Written(d, k)[j] = IF here = {} THEN rom[d][j] ELSE Stored(d, Max(here), eeprom.buf[Max(here)])
      BY <1>1 DEF Written
    <3>. HIDE DEF here
    <3>3. CASE here = {}
      BY <1>1, <3>2, <3>3
    <3>4. CASE here # {}
      <4>. DEFINE m == Max(here)
      <4>1. m \in 1..4
        BY <3>1, <3>4, MaxOfParts
      <4>2. IsBlock(eeprom.buf[m])
        BY <4>1 DEF IsEeprom, AreBlocks
      <4>. HIDE DEF m
      <4>3. IsBlock(Stored(d, m, eeprom.buf[m]))
        BY <4>2, BlockChanges DEF Stored
      <4>. QED BY <3>2, <3>4, <4>3 DEF m
    <3>. QED BY <3>3, <3>4
  <2>. QED BY <2>1, <2>2 DEF AreBlocks
<1>3. AreBlocks(Erased(d), n)
  BY <1>1, SimpleBlocks DEF Erased, AreBlocks
<1>4. ASSUME NEW i \in Nat PROVE AreBlocks(Marked(Erased(d), i), n)
  BY <1>1, <1>3, SimpleBlocks DEF Erased, AreBlocks, Marked
<1>5. ASSUME NEW i, i \in DOMAIN rom[d]
      PROVE  AreBlocks([rom[d] EXCEPT ![i].what = "patched"], n)
  <2>. DEFINE r == rom[d]
  <2>1. r = [j \in 1..n |-> r[j]] /\ DOMAIN r = 1..n /\ \A j \in 1..n : IsBlock(r[j])
    BY <1>1 DEF RomOK, AreBlocks
  <2>. HIDE DEF r, n
  <2>2. IsBlock([r[i] EXCEPT !.what = "patched"])
    BY <1>5, <2>1, BlockChanges DEF r
  <2>. QED BY <1>5, <2>1, <2>2 DEF AreBlocks, r
<1>. QED BY <1>2, <1>3, <1>4, <1>5

\* The image that a build leaves in the buffer.
LEMMA BuiltAreBlocks ==
    ASSUME IsEeprom(eeprom), NEW size \in {0, 64, 128, 256}, NEW factory
    PROVE  AreBlocks(Body(size), 4) /\ AreBlocks(Summed(Body(size), size, factory), 4)
<1>1. AreBlocks(Body(size), 4)
  <2>1. Body(size) = [i \in 1..4 |-> Body(size)[i]]
    BY DEF Body
  <2>2. ASSUME NEW i \in 1..4 PROVE IsBlock(Body(size)[i])
    <3>. DEFINE m == [size |-> IF size = 0 THEN 256 ELSE size, header |-> Header(type, eeprom.values),
                      strings |-> eeprom.strings, user |-> eeprom.user]
                b == IF i <= LastPart(m.size) THEN Part(m, i) ELSE Zero
    <3>1. Body(size)[i] = IF type = X230 /\ i = 3 THEN [b EXCEPT !.factory = eeprom.buf[3].factory] ELSE b
      BY DEF Body
    <3>2. IsBlock(b)
      BY SimpleBlocks
    <3>. DEFINE x == eeprom.buf[3].factory
    <3>3. IsBlock([b EXCEPT !.factory = x])
      <4>. HIDE DEF b, x
      <4>. QED BY <3>2, BlockChanges
    <3>. HIDE DEF b
    <3>. QED BY <3>1, <3>2, <3>3
  <2>. QED BY <2>1, <2>2 DEF AreBlocks
<1>2. LastPart(size) \in {0, 1, 2, 4}
  BY SMT DEF LastPart
<1>3. ASSUME LastPart(size) # 0, NEW x, NEW body, AreBlocks(body, 4)
      PROVE  AreBlocks([body EXCEPT ![LastPart(size)].sum = x], 4)
  <2>. DEFINE l == LastPart(size)
  <2>1. l \in 1..4
    BY <1>2, <1>3
  <2>. HIDE DEF l
  <2>. DEFINE b == body[l]
  <2>2. IsBlock(b)
    BY <1>3, <2>1 DEF AreBlocks
  <2>3. IsBlock([b EXCEPT !.sum = x])
    <3>. HIDE DEF b
    <3>. QED BY <2>2, BlockChanges
  <2>. QED BY <1>3, <2>1, <2>3 DEF AreBlocks, l
<1>. QED BY <1>1, <1>3 DEF Summed

-----------------------------------------------------------------------------
(* The line settings stay as they were asked for.                          *)

LineInv == LineTypeOK /\ \A d \in Devices, i \in Indexes : Agree(regs[d][i], asked[d][i])

LEMMA LineInit1 == Init => LineInv
<1>. SUFFICES ASSUME Init PROVE LineInv
  OBVIOUS
<1>1. PowerUp \in Settings
  BY SMT DEF PowerUp, Settings, Byte, Bit
<1>2. Agree(PowerUp, PowerUp)
  BY DEF Agree
<1>3. index \in Indexes /\ usb_dev \in Devices \cup {NULL} /\ lineCalls \in 0..MaxLineCalls
  BY LineAssumption DEF Init, LineInit
<1>. QED BY <1>1, <1>2, <1>3 DEF Init, LineInit, LineInv, LineTypeOK

\* The chip, taking a request, changes the one port.
LEMMA LineCallKeeps ==
    ASSUME LineInv, NEW c \in LineCalls, LineCall(c)
    PROVE  LineInv'
<1>. DEFINE r == regs[usb_dev][index]
            a == asked[usb_dev][index]
            r2 == ChipSets(r, Request(c))
            a2 == Meant(a, c)
<1>1. usb_dev \in Devices /\ index \in Indexes /\ index \in 1..4 /\ c \in AllCalls
  BY LineAssumption DEF LineCall, LineInv, LineTypeOK
<1>2. r \in Settings /\ a \in Settings /\ Agree(r, a)
  BY <1>1 DEF LineInv, LineTypeOK
<1>3. Request(c).index % 256 = index /\ r2 \in Settings /\ a2 \in Settings /\ Agree(r2, a2)
  <2>. HIDE DEF r, a
  <2>. QED BY <1>1, <1>2, RequestMeans
<1>4. regs' = [regs EXCEPT ![usb_dev][index] = r2]
  BY <1>3 DEF LineCall, ChipTakes
<1>5. asked' = [asked EXCEPT ![usb_dev][index] = a2]
  BY DEF LineCall
<1>6. usb_dev' = usb_dev /\ index' = index /\ lineCalls' \in 0..MaxLineCalls
  BY LineAssumption DEF LineCall, LineInv, LineTypeOK
<1>. HIDE DEF r, a, r2, a2
<1>7. regs' \in [Devices -> [Indexes -> Settings]]
  BY <1>1, <1>3, <1>4 DEF LineInv, LineTypeOK
<1>8. asked' \in [Devices -> [Indexes -> Settings]]
  BY <1>1, <1>3, <1>5 DEF LineInv, LineTypeOK
<1>9. ASSUME NEW d \in Devices, NEW i \in Indexes
      PROVE  Agree(regs'[d][i], asked'[d][i])
  <2>1. CASE d = usb_dev /\ i = index
    <3>1. regs'[d][i] = r2 /\ asked'[d][i] = a2
      BY <1>4, <1>5, <2>1 DEF LineInv, LineTypeOK
    <3>. QED BY <1>3, <3>1
  <2>2. CASE ~(d = usb_dev /\ i = index)
    <3>1. regs'[d][i] = regs[d][i] /\ asked'[d][i] = asked[d][i]
      BY <1>4, <1>5, <2>2 DEF LineInv, LineTypeOK
    <3>. QED BY <3>1 DEF LineInv
  <2>. QED BY <2>1, <2>2
<1>. QED BY <1>6, <1>7, <1>8, <1>9 DEF LineInv, LineTypeOK

\* A write sets the latency of the port that is in use, and nothing else of any port.
LEMMA LatencyKeeps ==
    ASSUME LineInv, usb_dev # NULL, SetsLatency, UNCHANGED <<usb_dev, index, asked, lineCalls>>
    PROVE  LineInv'
<1>. DEFINE r == regs[usb_dev][index]
            r2 == [r EXCEPT !.latency = WriteLatency]
<1>1. usb_dev \in Devices /\ index \in Indexes
  BY DEF LineInv, LineTypeOK
<1>2. r \in Settings /\ Agree(r, asked[usb_dev][index])
  BY <1>1 DEF LineInv, LineTypeOK
<1>3. WriteLatency \in Byte
  BY SMT DEF WriteLatency, Byte
<1>4. r2 \in Settings
  BY <1>2, <1>3 DEF Settings
<1>5. Agree(r2, asked[usb_dev][index])
  BY <1>2 DEF Agree, Settings
<1>6. regs' = [regs EXCEPT ![usb_dev][index] = r2]
  BY DEF SetsLatency
<1>. HIDE DEF r, r2
<1>7. regs' \in [Devices -> [Indexes -> Settings]]
  BY <1>1, <1>4, <1>6 DEF LineInv, LineTypeOK
<1>8. ASSUME NEW d \in Devices, NEW i \in Indexes
      PROVE  Agree(regs'[d][i], asked[d][i])
  <2>1. CASE d = usb_dev /\ i = index
    BY <1>5, <1>6, <2>1 DEF LineInv, LineTypeOK
  <2>2. CASE ~(d = usb_dev /\ i = index)
    <3>1. regs'[d][i] = regs[d][i]
      BY <1>6, <2>2 DEF LineInv, LineTypeOK
    <3>. QED BY <3>1 DEF LineInv
  <2>. QED BY <2>1, <2>2
<1>. QED BY <1>7, <1>8 DEF LineInv, LineTypeOK

\* The calls that only change the library's structure.
StructureStep ==
    \/ \E s \in UserStrings : eeprom_initdefaults(s) \/ eeprom_set_strings(s)
    \/ \E call \in SetCalls : set_eeprom_value(call)
    \/ \E end \in UserEnds : set_eeprom_user_data(end) \/ set_user_data_addr(end)
    \/ \E d \in Devices : set_eeprom_buf(d)
    \/ \E factory \in Devices \cup {NULL} : eeprom_build(factory)
    \/ eeprom_decode \/ read_eeprom \/ \E k \in 0..3 : ReadEepromFails(k)

WriteStep == write_eeprom \/ \E k \in 0..3 : WriteEepromFails(k)
ChipStep == erase_eeprom \/ EraseEepromFails \/ write_eeprom_location

LEMMA Steps ==
    ASSUME [Next]_vars
    PROVE  \/ LineStep \/ (\E d \in Devices : usb_open(d)) \/ usb_close
           \/ StructureStep \/ WriteStep \/ ChipStep \/ UNCHANGED vars
BY Zenon DEF Next, StructureStep, WriteStep, ChipStep

LEMMA StructureKeeps == StructureStep => Keeps
BY DEF StructureStep, eeprom_initdefaults, eeprom_set_strings, set_eeprom_value, set_eeprom_user_data, set_user_data_addr,
       set_eeprom_buf, eeprom_build, eeprom_decode, read_eeprom, ReadEepromFails

LEMMA LineNext ==
    ASSUME LineInv, [Next]_vars
    PROVE  LineInv'
<1>1. CASE LineStep
  <2>1. ASSUME NEW c \in LineCalls, LineCall(c) PROVE LineInv'
    BY <2>1, LineCallKeeps
  <2>2. ASSUME NEW i \in Indexes, set_interface(i) PROVE LineInv'
    BY <2>2 DEF set_interface, LineInv, LineTypeOK
  <2>. QED BY <1>1, <2>1, <2>2 DEF LineStep
<1>2. ASSUME NEW d \in Devices, usb_open(d) PROVE LineInv'
  BY <1>2 DEF usb_open, LineInv, LineTypeOK
<1>3. CASE usb_close
  BY <1>3 DEF usb_close, LineInv, LineTypeOK
<1>4. CASE UNCHANGED lineVars
  BY <1>4 DEF lineVars, LineInv, LineTypeOK
<1>5. CASE WriteStep
  <2>1. PICK k : Write(k)
    BY <1>5 DEF WriteStep, write_eeprom, WriteEepromFails
  <2>2. usb_dev # NULL /\ SetsLatency /\ UNCHANGED <<usb_dev, index, asked, lineCalls>>
    BY <2>1 DEF Write
  <2>. QED BY <2>2, LatencyKeeps
<1>6. CASE StructureStep \/ ChipStep \/ UNCHANGED vars
  BY <1>4, <1>6, StructureKeeps DEF Keeps, ChipStep, erase_eeprom, EraseEepromFails, write_eeprom_location, vars
<1>. QED BY <1>1, <1>2, <1>3, <1>5, <1>6, Steps

\* Every port of every chip has the settings last asked for on it, whatever requests
\* with other settings, on other ports and for other devices come between, and whatever
\* the EEPROM calls do; only the latency may be what a write left.
THEOREM LinesAsAsked == Spec => []LineAsAsked
<1>1. LineInv => LineAsAsked
  BY AgreeIs DEF LineInv, LineTypeOK, LineAsAsked
<1>. QED BY <1>1, LineInit1, LineNext, PTL DEF Spec

-----------------------------------------------------------------------------
(* The types are kept.                                                     *)

Types == Session /\ IsEeprom(eeprom) /\ RomOK /\ BuiltOK

\* Tables of values have all names, and no others.
LEMMA TablesOfValues ==
    /\ Zeros = [f \in Fields |-> Zeros[f]]
    /\ \A t : Defaults(t) = [f \in Fields |-> Defaults(t)[f]]
    /\ \A t, h, old : DecodedCommon(t, h, old) = [f \in Fields |-> DecodedCommon(t, h, old)[f]]
    /\ \A t, h, old : DecodedValues(t, h, old) = [f \in Fields |-> DecodedValues(t, h, old)[f]]
<1>1. Zeros = [f \in Fields |-> Zeros[f]]
  BY DEF Zeros
<1>2. ASSUME NEW t PROVE Defaults(t) = [f \in Fields |-> Defaults(t)[f]]
  <2>. DEFINE a == [f \in CbusFields |-> DefaultPins(t)[PinOf(f)]]
              b == [vendor_id |-> 1027, use_serial |-> 1, product_id |-> ProductId(t),
                    usb_version |-> IF t = AM THEN 257 ELSE 512,
                    max_power |-> IF t \in {R, X230} THEN 90 ELSE 100, release_number |-> Release(t)]
  <2>1. DOMAIN a = CbusFields
    OBVIOUS
  <2>2. DOMAIN b = {"vendor_id", "use_serial", "product_id", "usb_version", "max_power", "release_number"}
    BY SMT
  <2>3. DOMAIN b \subseteq Fields
    BY <2>2 DEF Fields, Numbers, Flags
  <2>4. DOMAIN a \subseteq Fields
    BY <2>1 DEF Fields
  <2>5. DOMAIN Zeros = Fields
    BY DEF Zeros
  <2>6. Defaults(t) = a ++ b ++ Zeros
    BY Zenon DEF Defaults
  <2>. HIDE DEF a, b
  <2>. QED BY <2>3, <2>4, <2>5, <2>6 DEF ++
<1>3. ASSUME NEW t, NEW h, NEW old
      PROVE  /\ DecodedCommon(t, h, old) = [f \in Fields |-> DecodedCommon(t, h, old)[f]]
             /\ DecodedValues(t, h, old) = [f \in Fields |-> DecodedValues(t, h, old)[f]]
  BY DEF DecodedCommon, DecodedValues
<1>. QED BY <1>1, <1>2, <1>3

LEMMA FreshIsEeprom == IsEeprom(FreshEeprom) /\ IsBuilt(NotBuilt)
<1>1. AreBlocks([i \in 1..4 |-> Zero], 4)
  BY SimpleBlocks DEF AreBlocks
<1>2. IsEeprom(FreshEeprom)
  BY <1>1, TablesOfValues DEF FreshEeprom, IsEeprom
<1>. QED BY <1>2 DEF IsBuilt, NotBuilt

LEMMA TypesInit == Init => Types
<1>. SUFFICES ASSUME Init PROVE Types
  OBVIOUS
<1>1. Session
  BY EepromAssumption, LineAssumption DEF Init, LineInit, EepromInit, Session, FreshEeprom
<1>2. BuiltOK /\ IsEeprom(eeprom)
  BY FreshIsEeprom DEF Init, EepromInit, BuiltOK
<1>3. RomOK
  <2>1. family \in Families
    BY <1>1 DEF Session
  <2>2. ASSUME NEW d \in Devices PROVE AreBlocks(rom[d], RomBlocks(family, d))
    <3>1. IsBlock([Blank EXCEPT !.factory = d])
      BY SimpleBlocks, BlockChanges
    <3>. QED BY <3>1, SimpleBlocks DEF Init, EepromInit, AreBlocks
  <2>. QED BY <2>2 DEF Init, EepromInit, RomOK
<1>. QED BY <1>1, <1>2, <1>3 DEF Types

LEMMA Parts ==
    ASSUME IsEeprom(eeprom)
    PROVE  /\ LastPart(eeprom.size) \in {0, 1, 2, 4}
           /\ eeprom.size \in {0, -1} <=> LastPart(eeprom.size) = 0
BY SMT DEF IsEeprom, LastPart

\* What the calls on the structure leave of it.
LEMMA StructureTypes ==
    ASSUME LineInv, Types, StructureStep
    PROVE  /\ IsEeprom(eeprom') /\ IsBuilt(built')
           /\ eeprom'.size # 0 => type = family
           /\ calls' \in 0..MaxCalls[family] /\ faults' \in 0..MaxFaults
<1>. USE DEF Types
<1>a. /\ IsEeprom(eeprom) /\ IsBuilt(built) /\ RomOK /\ family \in Families
      /\ usb_dev # NULL => type = family
      /\ eeprom.size # 0 => type = family
      /\ calls \in 0..MaxCalls[family] /\ faults \in 0..MaxFaults
      /\ MaxCalls[family] \in Nat /\ MaxFaults \in Nat
      /\ usb_dev \in Devices \cup {NULL}
  BY EepromAssumption DEF Session, BuiltOK, LineInv, LineTypeOK
<1>b. Call => calls' \in 0..MaxCalls[family]
  BY <1>a DEF Call
<1>c. MayFail \/ UNCHANGED faults => faults' \in 0..MaxFaults
  BY <1>a DEF MayFail
<1>d. built' = built \/ built' = Clobbered \/ built' = NotBuilt => IsBuilt(built')
  BY <1>a, FreshIsEeprom DEF IsBuilt, Clobbered
<1>1. ASSUME NEW s \in UserStrings, eeprom_initdefaults(s)
      PROVE  /\ IsEeprom(eeprom') /\ IsBuilt(built')
             /\ eeprom'.size # 0 => type = family
             /\ calls' \in 0..MaxCalls[family] /\ faults' \in 0..MaxFaults
  <2>1. IsBuilt(built') /\ calls' \in 0..MaxCalls[family] /\ faults' \in 0..MaxFaults
    BY <1>1, <1>b, <1>c, <1>d DEF eeprom_initdefaults
  <2>2. CASE usb_dev = NULL
    <3>1. eeprom' = FreshEeprom
      BY <1>1, <2>2 DEF eeprom_initdefaults
    <3>. QED BY <2>1, <3>1, FreshIsEeprom DEF FreshEeprom
  <2>3. CASE usb_dev # NULL
    <3>1. DefaultSize(type) \in {-1, 0, 64, 128, 256}
      BY DEF DefaultSize
    <3>2. eeprom' = [size |-> DefaultSize(type), values |-> Defaults(type), strings |-> s, user |-> 0,
                     buf |-> FreshEeprom.buf, initialized |-> FALSE]
      BY <1>1, <2>3 DEF eeprom_initdefaults, FreshEeprom
    <3>3. AreBlocks(FreshEeprom.buf, 4)
      BY FreshIsEeprom DEF IsEeprom
    <3>4. Defaults(type) = [f \in Fields |-> Defaults(type)[f]]
      BY TablesOfValues
    <3>5. IsEeprom(eeprom')
      BY <3>1, <3>2, <3>3, <3>4 DEF IsEeprom
    <3>. QED BY <1>a, <2>1, <2>3, <3>5
  <2>. QED BY <2>2, <2>3
<1>2. ASSUME NEW s \in UserStrings, eeprom_set_strings(s)
      PROVE  /\ IsEeprom(eeprom') /\ IsBuilt(built')
             /\ eeprom'.size # 0 => type = family
             /\ calls' \in 0..MaxCalls[family] /\ faults' \in 0..MaxFaults
  <2>1. eeprom' = [eeprom EXCEPT !.strings = s, !.values["use_serial"] = 1]
    BY <1>2 DEF eeprom_set_strings
  <2>2. "use_serial" \in Fields
    BY DEF Fields, Flags
  <2>3. IsEeprom(eeprom') /\ eeprom'.size = eeprom.size
    BY <1>a, <2>1, <2>2 DEF IsEeprom
  <2>. QED BY <1>2, <1>a, <1>b, <1>c, <1>d, <2>3 DEF eeprom_set_strings
<1>3. ASSUME NEW call \in SetCalls, set_eeprom_value(call)
      PROVE  /\ IsEeprom(eeprom') /\ IsBuilt(built')
             /\ eeprom'.size # 0 => type = family
             /\ calls' \in 0..MaxCalls[family] /\ faults' \in 0..MaxFaults
  <2>1. eeprom' = [eeprom EXCEPT !.values[call[1]] = call[2], !.initialized = FALSE]
    BY <1>3 DEF set_eeprom_value
  <2>2. call[1] \in Fields
    BY EepromAssumption
  <2>3. IsEeprom(eeprom') /\ eeprom'.size = eeprom.size
    BY <1>a, <2>1, <2>2 DEF IsEeprom
  <2>. QED BY <1>3, <1>a, <1>b, <1>c, <1>d, <2>3 DEF set_eeprom_value
<1>4. ASSUME NEW end \in UserEnds, set_eeprom_user_data(end) \/ set_user_data_addr(end)
      PROVE  /\ IsEeprom(eeprom') /\ IsBuilt(built')
             /\ eeprom'.size # 0 => type = family
             /\ calls' \in 0..MaxCalls[family] /\ faults' \in 0..MaxFaults
  <2>1. CASE set_eeprom_user_data(end)
    <3>1. IsEeprom(eeprom') /\ eeprom'.size = eeprom.size
      BY <2>1, <1>a DEF IsEeprom, set_eeprom_user_data
    <3>. QED BY <2>1, <1>a, <1>b, <1>c, <1>d, <3>1 DEF set_eeprom_user_data
  <2>2. CASE set_user_data_addr(end)
    <3>1. IsEeprom(eeprom') /\ eeprom'.size = eeprom.size
      BY <2>2, <1>a DEF IsEeprom, set_user_data_addr
    <3>. QED BY <2>2, <1>a, <1>b, <1>c, <1>d, <3>1 DEF set_user_data_addr
  <2>. QED BY <1>4, <2>1, <2>2
<1>5. ASSUME NEW d \in Devices, set_eeprom_buf(d)
      PROVE  /\ IsEeprom(eeprom') /\ IsBuilt(built')
             /\ eeprom'.size # 0 => type = family
             /\ calls' \in 0..MaxCalls[family] /\ faults' \in 0..MaxFaults
  <2>1. AreBlocks(Answers(d), 4)
    BY <1>a, AnswersAreBlocks
  <2>2. IsEeprom(eeprom') /\ eeprom'.size = eeprom.size
    BY <1>5, <1>a, <2>1 DEF IsEeprom, set_eeprom_buf
  <2>. QED BY <1>5, <1>a, <1>b, <1>c, <1>d, <2>2 DEF set_eeprom_buf
<1>6. ASSUME NEW factory, eeprom_build(factory)
      PROVE  /\ IsEeprom(eeprom') /\ IsBuilt(built')
             /\ eeprom'.size # 0 => type = family
             /\ calls' \in 0..MaxCalls[family] /\ faults' \in 0..MaxFaults
  <2>. DEFINE size == SizeToBuild
              sum == Summed(Body(size), size, factory)
              chip == ChipAfter(size)
  <2>1. size \in {0, 64, 128, 256} /\ (size # 0 => type = family)
    BY <1>a DEF SizeToBuild, IsEeprom
  <2>2. AreBlocks(Body(size), 4) /\ AreBlocks(sum, 4)
    <3>. HIDE DEF size
    <3>. QED BY <1>a, <2>1, BuiltAreBlocks
  <2>3. calls' \in 0..MaxCalls[family] /\ faults' \in 0..MaxFaults
    BY <1>6, <1>b, <1>c DEF eeprom_build
  <2>4. \/ eeprom' = [eeprom EXCEPT !.size = size] /\ UNCHANGED built
        \/ eeprom' = [eeprom EXCEPT !.size = size, !.buf = Body(size)] /\ built' = Clobbered
        \/ /\ eeprom' = [eeprom EXCEPT !.size = size, !.buf = sum, !.values["chip"] = chip, !.initialized = TRUE]
           /\ built' = [on |-> usb_dev, size |-> IF type = X230 /\ factory = NULL THEN 0 ELSE size,
                        values |-> eeprom.values, strings |-> eeprom.strings]
    BY <1>6 DEF eeprom_build
  <2>5. "chip" \in Fields
    BY DEF Fields, Numbers
  <2>. HIDE DEF size, sum, chip
  <2>6. CASE eeprom' = [eeprom EXCEPT !.size = size] /\ UNCHANGED built
    BY <1>a, <1>d, <2>1, <2>3, <2>6 DEF IsEeprom
  <2>7. CASE eeprom' = [eeprom EXCEPT !.size = size, !.buf = Body(size)] /\ built' = Clobbered
    <3>1. eeprom' = [size |-> size, values |-> eeprom.values, strings |-> eeprom.strings,
                     user |-> eeprom.user, buf |-> Body(size), initialized |-> eeprom.initialized]
      BY <1>a, <2>7 DEF IsEeprom
    <3>2. IsEeprom(eeprom') /\ eeprom'.size = size
      BY <1>a, <2>1, <2>2, <3>1 DEF IsEeprom
    <3>. QED BY <1>d, <2>1, <2>3, <2>7, <3>2
  <2>8. CASE /\ eeprom' = [eeprom EXCEPT !.size = size, !.buf = sum, !.values["chip"] = chip, !.initialized = TRUE]
             /\ built' = [on |-> usb_dev, size |-> IF type = X230 /\ factory = NULL THEN 0 ELSE size,
                          values |-> eeprom.values, strings |-> eeprom.strings]
    <3>. DEFINE v == [eeprom.values EXCEPT !["chip"] = chip]
    <3>3. v = [f \in Fields |-> v[f]]
      BY <1>a, <2>5 DEF IsEeprom
    <3>4. eeprom' = [size |-> size, values |-> v, strings |-> eeprom.strings,
                     user |-> eeprom.user, buf |-> sum, initialized |-> TRUE]
      BY <1>a, <2>8 DEF IsEeprom
    <3>1. IsEeprom(eeprom') /\ eeprom'.size = size
      <4>. HIDE DEF v
      <4>. QED BY <2>1, <2>2, <3>3, <3>4 DEF IsEeprom
    <3>2. IsBuilt(built')
      BY <2>1, <2>8 DEF IsBuilt
    <3>. QED BY <2>1, <2>3, <3>1, <3>2
  <2>. QED BY <2>4, <2>6, <2>7, <2>8
<1>7. CASE eeprom_decode
  <2>. DEFINE header == HeaderIn(eeprom.buf[1])
              v == IF Valid(type, eeprom.buf, eeprom.size) THEN DecodedValues(type, header, eeprom.values)
                   ELSE DecodedCommon(type, header, eeprom.values)
  <2>1. v = [f \in Fields |-> v[f]]
    <3>. HIDE DEF header
    <3>. QED BY TablesOfValues
  <2>2. PICK strings : eeprom' = [eeprom EXCEPT !.strings = strings, !.values = v]
    <3>1. PICK strings :
            eeprom' = [eeprom EXCEPT
                !.strings = strings,
                !.values = IF Valid(type, eeprom.buf, eeprom.size)
                           THEN DecodedValues(type, HeaderIn(eeprom.buf[1]), @)
                           ELSE DecodedCommon(type, HeaderIn(eeprom.buf[1]), @)]
      BY <1>7, Zenon DEF eeprom_decode
    <3>2. eeprom' = [eeprom EXCEPT !.strings = strings, !.values = v]
      BY <1>a, <3>1 DEF IsEeprom
    <3>. QED BY <3>2
  <2>. HIDE DEF v
  <2>3. IsEeprom(eeprom') /\ eeprom'.size = eeprom.size
    BY <1>a, <2>1, <2>2 DEF IsEeprom
  <2>. QED BY <1>7, <1>a, <1>b, <1>c, <1>d, <2>3 DEF eeprom_decode
<1>8. CASE read_eeprom
  <2>. DEFINE size == GuessedSize(type, Answers(usb_dev), eeprom.values["release_number"])
  <2>1. size \in {-1, 0, 64, 128, 256}
    BY DEF GuessedSize
  <2>2. usb_dev \in Devices /\ type = family
    BY <1>8, <1>a DEF read_eeprom
  <2>3. AreBlocks(Answers(usb_dev), 4)
    BY <1>a, <2>2, AnswersAreBlocks
  <2>4. eeprom' = [eeprom EXCEPT !.buf = Answers(usb_dev), !.size = size]
    BY <1>8 DEF read_eeprom
  <2>. HIDE DEF size
  <2>5. IsEeprom(eeprom')
    BY <1>a, <2>1, <2>3, <2>4 DEF IsEeprom
  <2>. QED BY <1>8, <1>b, <1>c, <1>d, <2>2, <2>5 DEF read_eeprom
<1>9. ASSUME NEW k \in 0..3, ReadEepromFails(k)
      PROVE  /\ IsEeprom(eeprom') /\ IsBuilt(built')
             /\ eeprom'.size # 0 => type = family
             /\ calls' \in 0..MaxCalls[family] /\ faults' \in 0..MaxFaults
  <2>. DEFINE buf == [i \in 1..4 |-> IF i <= k THEN Answer(usb_dev, i - 1) ELSE eeprom.buf[i]]
  <2>1. usb_dev \in Devices /\ type = family
    BY <1>9, <1>a DEF ReadEepromFails
  <2>2. AreBlocks(buf, 4)
    BY <1>a, <2>1, AnswersAreBlocks DEF AreBlocks, IsEeprom
  <2>3. eeprom' = [eeprom EXCEPT !.buf = buf]
    BY <1>9 DEF ReadEepromFails
  <2>. HIDE DEF buf
  <2>4. IsEeprom(eeprom')
    BY <1>a, <2>2, <2>3, BufUpdates
  <2>. QED BY <1>9, <1>b, <1>c, <1>d, <2>1, <2>4 DEF ReadEepromFails
<1>. QED BY <1>1, <1>2, <1>3, <1>4, <1>5, <1>6, <1>7, <1>8, <1>9 DEF StructureStep

\* What writing and erasing leave of the EEPROMs.
LEMMA EepromTypes ==
    ASSUME LineInv, Types, WriteStep \/ ChipStep
    PROVE  RomOK' /\ (\A d \in Devices : IsBuilt(meant'[d])) /\ meant' = [d \in Devices |-> meant'[d]]
           /\ IsEeprom(eeprom') /\ eeprom'.size = eeprom.size
           /\ calls' \in 0..MaxCalls[family] /\ faults' \in 0..MaxFaults
           /\ UNCHANGED <<usb_dev, family, type, built>>
<1>a. /\ IsEeprom(eeprom) /\ IsBuilt(built) /\ RomOK /\ family \in Families
      /\ calls \in 0..MaxCalls[family] /\ faults \in 0..MaxFaults
      /\ MaxCalls[family] \in Nat /\ MaxFaults \in Nat
      /\ usb_dev \in Devices \cup {NULL}
      /\ meant = [d \in Devices |-> meant[d]] /\ \A d \in Devices : IsBuilt(meant[d])
      /\ rom = [d \in Devices |-> rom[d]]
      /\ \A d \in Devices : AreBlocks(rom[d], RomBlocks(family, d))
  BY EepromAssumption DEF Types, Session, BuiltOK, LineInv, LineTypeOK, RomOK
<1>b. Call => calls' \in 0..MaxCalls[family]
  BY <1>a DEF Call
<1>c. MayFail \/ UNCHANGED faults => faults' \in 0..MaxFaults
  BY <1>a DEF MayFail
<1>d. UNCHANGED <<usb_dev, family, type, built>>
  BY DEF WriteStep, ChipStep, write_eeprom, WriteEepromFails, Write, erase_eeprom, EraseEepromFails,
         write_eeprom_location, lineVars
<1>e. usb_dev \in Devices
  BY <1>a DEF WriteStep, ChipStep, write_eeprom, WriteEepromFails, Write, erase_eeprom, EraseEepromFails,
         write_eeprom_location
<1>f. ASSUME NEW blocks, AreBlocks(blocks, RomBlocks(family, usb_dev)), rom' = [rom EXCEPT ![usb_dev] = blocks]
      PROVE  RomOK'
  BY <1>a, <1>d, <1>e, <1>f DEF RomOK, RomBlocks
<1>g. ASSUME NEW b, IsBuilt(b), meant' = meant \/ meant' = [meant EXCEPT ![usb_dev] = b]
      PROVE  (\A d \in Devices : IsBuilt(meant'[d])) /\ meant' = [d \in Devices |-> meant'[d]]
  BY <1>a, <1>e, <1>g
<1>h. IsBuilt(NotBuilt)
  BY FreshIsEeprom
<1>i. UNCHANGED rom => RomOK'
  BY <1>a, <1>d DEF RomOK, RomBlocks
<1>1. ASSUME NEW k \in 0..4, Write(k) PROVE RomOK' /\ calls' \in 0..MaxCalls[family] /\ UNCHANGED eeprom
  <2>1. AreBlocks(Written(usb_dev, k), RomBlocks(family, usb_dev))
    BY <1>a, <1>e, ChangedAreBlocks
  <2>2. rom' = [rom EXCEPT ![usb_dev] = Written(usb_dev, k)] /\ UNCHANGED eeprom /\ Call
    BY <1>1 DEF Write
  <2>. QED BY <1>b, <1>f, <2>1, <2>2
<1>2. CASE write_eeprom
  <2>1. LastPart(eeprom.size) \in 0..4
    BY <1>a, Parts
  <2>2. RomOK' /\ calls' \in 0..MaxCalls[family] /\ UNCHANGED eeprom
    BY <1>1, <1>2, <2>1 DEF write_eeprom
  <2>3. (\A d \in Devices : IsBuilt(meant'[d])) /\ meant' = [d \in Devices |-> meant'[d]]
    BY <1>2, <1>a, <1>g DEF write_eeprom
  <2>4. faults' \in 0..MaxFaults
    BY <1>2, <1>c DEF write_eeprom
  <2>. QED BY <1>a, <1>d, <2>2, <2>3, <2>4
<1>3. ASSUME NEW k \in 0..3, WriteEepromFails(k)
      PROVE  /\ RomOK' /\ (\A d \in Devices : IsBuilt(meant'[d])) /\ meant' = [d \in Devices |-> meant'[d]]
             /\ IsEeprom(eeprom') /\ eeprom'.size = eeprom.size
             /\ calls' \in 0..MaxCalls[family] /\ faults' \in 0..MaxFaults
  <2>1. Write(k) /\ MayFail /\ meant' = [meant EXCEPT ![usb_dev] = NotBuilt] /\ k \in 0..4
    BY <1>3 DEF WriteEepromFails
  <2>2. RomOK' /\ calls' \in 0..MaxCalls[family] /\ UNCHANGED eeprom
    BY <1>1, <2>1
  <2>. QED BY <1>a, <1>c, <1>g, <1>h, <2>1, <2>2
<1>4. ASSUME NEW blocks, NEW chip, AreBlocks(blocks, RomBlocks(family, usb_dev)), EraseChanges(blocks, chip)
      PROVE  /\ RomOK' /\ (\A d \in Devices : IsBuilt(meant'[d])) /\ meant' = [d \in Devices |-> meant'[d]]
             /\ IsEeprom(eeprom') /\ eeprom'.size = eeprom.size
  <2>1. "chip" \in Fields
    BY DEF Fields, Numbers
  <2>2. eeprom' = [eeprom EXCEPT !.values["chip"] = chip]
    BY <1>4 DEF EraseChanges
  <2>3. IsEeprom(eeprom') /\ eeprom'.size = eeprom.size
    BY <1>a, <2>1, <2>2 DEF IsEeprom
  <2>4. RomOK'
    BY <1>4, <1>f DEF EraseChanges
  <2>5. (\A d \in Devices : IsBuilt(meant'[d])) /\ meant' = [d \in Devices |-> meant'[d]]
    BY <1>4, <1>g, <1>h DEF EraseChanges
  <2>. QED BY <2>3, <2>4, <2>5
<1>5. CASE erase_eeprom
  <2>1. calls' \in 0..MaxCalls[family] /\ faults' \in 0..MaxFaults
    BY <1>5, <1>b, <1>c DEF erase_eeprom
  <2>2. CASE type \in {R, X230}
    <3>1. eeprom' = [eeprom EXCEPT !.values["chip"] = 0] /\ UNCHANGED <<rom, meant>>
      BY <1>5, <2>2 DEF erase_eeprom
    <3>2. "chip" \in Fields
      BY DEF Fields, Numbers
    <3>3. IsEeprom(eeprom') /\ eeprom'.size = eeprom.size
      BY <1>a, <3>1, <3>2 DEF IsEeprom
    <3>. QED BY <1>a, <1>d, <1>i, <2>1, <3>1, <3>3
  <2>3. CASE type \notin {R, X230}
    <3>1. AreBlocks(Erased(usb_dev), RomBlocks(family, usb_dev))
      BY <1>a, <1>e, ChangedAreBlocks
    <3>2. EraseChanges(Erased(usb_dev), FoundChip(Marked(Erased(usb_dev), Mark)))
      BY <1>5, <2>3 DEF erase_eeprom
    <3>. QED BY <1>4, <1>d, <2>1, <3>1, <3>2
  <2>. QED BY <2>2, <2>3
<1>6. CASE EraseEepromFails
  <2>1. calls' \in 0..MaxCalls[family] /\ faults' \in 0..MaxFaults
    BY <1>6, <1>b, <1>c DEF EraseEepromFails
  <2>2. /\ AreBlocks(Erased(usb_dev), RomBlocks(family, usb_dev))
        /\ AreBlocks(Marked(Erased(usb_dev), Mark), RomBlocks(family, usb_dev))
    BY <1>a, <1>e, ChangedAreBlocks DEF Mark
  <2>3. \E blocks \in {Erased(usb_dev), Marked(Erased(usb_dev), Mark)} : \E chip : EraseChanges(blocks, chip)
    BY <1>6 DEF EraseEepromFails
  <2>. QED BY <1>4, <1>d, <2>1, <2>2, <2>3
<1>7. CASE write_eeprom_location
  <2>. DEFINE i == (4 % Len(rom[usb_dev])) + 1
              blocks == [rom[usb_dev] EXCEPT ![i].what = "patched"]
  <2>1. rom[usb_dev] # <<>> /\ rom' = [rom EXCEPT ![usb_dev][i].what = "patched"] /\ UNCHANGED <<eeprom, faults>> /\ Call
        /\ (meant' = meant \/ meant' = [meant EXCEPT ![usb_dev] = NotBuilt])
    BY <1>7 DEF write_eeprom_location
  <2>2. i \in DOMAIN rom[usb_dev]
    <3>1. Len(rom[usb_dev]) = RomBlocks(family, usb_dev) /\ DOMAIN rom[usb_dev] = 1..RomBlocks(family, usb_dev)
          /\ RomBlocks(family, usb_dev) \in {2, 4, 8}
      BY <1>a, <1>e, <2>1, RomLength, RomSizes
    <3>2. ASSUME NEW n \in {2, 4, 8} PROVE (4 % n) + 1 \in 1..n
      BY SMT
    <3>. QED BY <3>1, <3>2
  <2>. HIDE DEF i
  <2>3. AreBlocks(blocks, RomBlocks(family, usb_dev))
    BY <1>a, <1>e, <2>1, <2>2, ChangedAreBlocks
  <2>4. rom' = [rom EXCEPT ![usb_dev] = blocks]
    BY <2>1
  <2>. HIDE DEF blocks
  <2>5. RomOK'
    BY <1>f, <2>3, <2>4
  <2>6. (\A d \in Devices : IsBuilt(meant'[d])) /\ meant' = [d \in Devices |-> meant'[d]]
    BY <1>g, <1>h, <2>1
  <2>. QED BY <1>a, <1>b, <1>c, <1>d, <2>1, <2>5, <2>6
<1>. QED BY <1>d, <1>2, <1>3, <1>5, <1>6, <1>7 DEF WriteStep, ChipStep

LEMMA TypesNext ==
    ASSUME LineInv, Types, [Next]_vars
    PROVE  Types'
<1>1. CASE LineStep
  <2>1. UNCHANGED usb_dev /\ UNCHANGED eepromVars
    BY <1>1 DEF LineStep, LineCall, set_interface
  <2>. QED BY <2>1 DEF eepromVars, Types, Session, RomOK, RomBlocks, BuiltOK
<1>2. ASSUME NEW d \in Devices, usb_open(d) PROVE Types'
  <2>1. UNCHANGED <<family, rom, eeprom, built, meant, faults>> /\ type' = family /\ Call
    BY <1>2 DEF usb_open
  <2>2. calls' \in 0..MaxCalls[family]
    BY <2>1, EepromAssumption DEF Call, Types, Session
  <2>. QED BY <2>1, <2>2 DEF Types, Session, RomOK, RomBlocks, BuiltOK
<1>3. CASE usb_close
  <2>1. UNCHANGED <<family, rom, type, built, meant, faults>> /\ Call /\ usb_dev' = NULL
        /\ eeprom' = [eeprom EXCEPT !.initialized = FALSE]
    BY <1>3 DEF usb_close
  <2>2. calls' \in 0..MaxCalls[family]
    BY <2>1, EepromAssumption DEF Call, Types, Session
  <2>3. IsEeprom(eeprom') /\ eeprom'.size = eeprom.size
    BY <2>1 DEF Types, IsEeprom
  <2>. QED BY <2>1, <2>2, <2>3 DEF Types, Session, RomOK, RomBlocks, BuiltOK
<1>4. CASE StructureStep
  <2>1. UNCHANGED <<usb_dev, family, type, rom, meant>>
    BY <1>4, StructureKeeps DEF Keeps, lineVars
  <2>. QED BY <1>4, <2>1, StructureTypes DEF Types, Session, RomOK, RomBlocks, BuiltOK
<1>5. CASE WriteStep \/ ChipStep
  BY <1>5, EepromTypes DEF Types, Session, BuiltOK
<1>6. CASE UNCHANGED vars
  BY <1>6 DEF vars, lineVars, eepromVars, Types, Session, RomOK, RomBlocks, BuiltOK
<1>. QED BY <1>1, <1>2, <1>3, <1>4, <1>5, <1>6, Steps

\* Every variable keeps its type, for any devices and EEPROMs, values and strings.
THEOREM TypeCorrect == Spec => []TypeOK
<1>1. LineInv /\ Types => TypeOK
  <2>. SUFFICES ASSUME LineInv, Types PROVE TypeOK
    OBVIOUS
  <2>1. ASSUME NEW d \in Devices PROVE Len(rom[d]) = RomBlocks(family, d)
    BY RomLength DEF Types, Session
  <2>2. ASSUME NEW d \in Devices,
               NEW b \in {eeprom.buf[i] : i \in 1..4} \cup {rom[d][i] : i \in DOMAIN rom[d]}
        PROVE  [what |-> b.what, part |-> b.part] \in Blocks
    <3>1. DOMAIN rom[d] = 1..RomBlocks(family, d)
      BY RomLength DEF Types, Session
    <3>2. IsBlock(b)
      BY <3>1 DEF Types, RomOK, IsEeprom, AreBlocks
    <3>. QED BY <3>2 DEF IsBlock, Blocks
  <2>3. DOMAIN eeprom.values = Fields /\ DOMAIN eeprom.buf = 1..4
    BY DEF Types, IsEeprom, AreBlocks
  <2>4. eeprom.size \in {-1, 0, 64, 128, 256} /\ eeprom.initialized \in BOOLEAN
    BY DEF Types, IsEeprom
  <2>. QED BY <2>1, <2>2, <2>3, <2>4 DEF TypeOK, LineInv, Types, Session
<1>. QED BY <1>1, LineInit1, LineNext, TypesInit, TypesNext, PTL DEF Spec

-----------------------------------------------------------------------------
(* Whose image it is.                                                      *)

\* The flag, and the device that was open when it was set.
Own == eeprom.initialized => usb_dev # NULL /\ built.on = usb_dev

LEMMA OwnNext ==
    ASSUME BuildsClosed = FALSE, LineInv, Types, Own, [Next]_vars
    PROVE  Own'
<1>a. IsEeprom(eeprom) /\ IsBuilt(built)
  BY DEF Types, BuiltOK
<1>1. CASE LineStep
  BY <1>1 DEF LineStep, LineCall, set_interface, eepromVars, Own
<1>2. ASSUME NEW d \in Devices, usb_open(d) PROVE Own'
  BY <1>2 DEF usb_open, Own
<1>3. CASE usb_close
  <2>1. eeprom'.initialized = FALSE
    BY <1>3, <1>a DEF usb_close, IsEeprom
  <2>. QED BY <2>1 DEF Own
<1>4. CASE StructureStep
  <2>1. usb_dev' = usb_dev
    BY <1>4, StructureKeeps DEF Keeps, lineVars
  <2>2. \/ eeprom'.initialized = FALSE
        \/ eeprom'.initialized = eeprom.initialized /\ built'.on = built.on
        \/ usb_dev # NULL /\ built'.on = usb_dev
    <3>1. ASSUME NEW s, eeprom_initdefaults(s) PROVE eeprom'.initialized = FALSE
      BY <3>1 DEF eeprom_initdefaults, FreshEeprom
    <3>2. ASSUME NEW s, eeprom_set_strings(s) PROVE eeprom'.initialized = eeprom.initialized /\ built' = built
      BY <3>2, <1>a DEF eeprom_set_strings, IsEeprom
    <3>3. ASSUME NEW call, set_eeprom_value(call) PROVE eeprom'.initialized = FALSE
      BY <3>3, <1>a DEF set_eeprom_value, IsEeprom
    <3>4. ASSUME NEW end, set_eeprom_user_data(end)
          PROVE  eeprom'.initialized = eeprom.initialized /\ built' = built
      BY <3>4, <1>a DEF set_eeprom_user_data, IsEeprom
    <3>11. ASSUME NEW end, set_user_data_addr(end) PROVE eeprom'.initialized = FALSE
      BY <3>11, <1>a DEF set_user_data_addr, IsEeprom
    <3>5. Clobbered.on = built.on
      BY <1>a DEF Clobbered, IsBuilt
    <3>6. ASSUME NEW d, set_eeprom_buf(d) PROVE eeprom'.initialized = eeprom.initialized /\ built'.on = built.on
      BY <3>5, <3>6, <1>a DEF set_eeprom_buf, IsEeprom
    <3>7. ASSUME NEW factory, eeprom_build(factory)
          PROVE  \/ eeprom'.initialized = eeprom.initialized /\ built'.on = built.on
                 \/ usb_dev # NULL /\ built'.on = usb_dev
      <4>1. usb_dev # NULL
        BY <3>7 DEF eeprom_build
      <4>. DEFINE size == SizeToBuild
      <4>2. \/ eeprom' = [eeprom EXCEPT !.size = size] /\ built' = built
            \/ eeprom' = [eeprom EXCEPT !.size = size, !.buf = Body(size)] /\ built' = Clobbered
            \/ built' = [on |-> usb_dev, size |-> IF type = X230 /\ factory = NULL THEN 0 ELSE size,
                         values |-> eeprom.values, strings |-> eeprom.strings]
        BY <3>7 DEF eeprom_build
      <4>. DEFINE buf == Body(size)
      <4>. HIDE DEF size, buf
      <4>3. CASE eeprom' = [eeprom EXCEPT !.size = size] /\ built' = built
        BY <1>a, <4>3 DEF IsEeprom
      <4>4. CASE eeprom' = [eeprom EXCEPT !.size = size, !.buf = buf] /\ built' = Clobbered
        BY <1>a, <3>5, <4>4 DEF IsEeprom
      <4>. QED BY <4>1, <4>2, <4>3, <4>4 DEF buf
    <3>8. CASE eeprom_decode
      <4>1. PICK strings, v : eeprom' = [eeprom EXCEPT !.strings = strings, !.values = v]
        BY <3>8, <1>a DEF eeprom_decode
      <4>2. built' = built
        BY <3>8 DEF eeprom_decode
      <4>. QED BY <1>a, <4>1, <4>2 DEF IsEeprom
    <3>9. CASE read_eeprom
      BY <3>5, <3>9, <1>a DEF read_eeprom, IsEeprom
    <3>10. ASSUME NEW k, ReadEepromFails(k) PROVE eeprom'.initialized = eeprom.initialized /\ built'.on = built.on
      BY <3>5, <3>10, <1>a DEF ReadEepromFails, IsEeprom
    <3>. QED BY <1>4, <3>1, <3>2, <3>3, <3>4, <3>6, <3>7, <3>8, <3>9, <3>10, <3>11 DEF StructureStep
  <2>. QED BY <2>1, <2>2 DEF Own
<1>5. CASE WriteStep \/ ChipStep
  <2>1. UNCHANGED <<usb_dev, built>>
    BY <1>5, EepromTypes
  <2>2. eeprom' = eeprom \/ \E chip : eeprom' = [eeprom EXCEPT !.values["chip"] = chip]
    BY <1>5 DEF WriteStep, ChipStep, write_eeprom, WriteEepromFails, Write, erase_eeprom, EraseEepromFails,
                EraseChanges, write_eeprom_location
  <2>3. eeprom'.initialized = eeprom.initialized
    BY <1>a, <2>2 DEF IsEeprom
  <2>. QED BY <2>1, <2>3 DEF Own
<1>6. CASE UNCHANGED vars
  BY <1>6 DEF vars, lineVars, eepromVars, Own
<1>. QED BY <1>1, <1>2, <1>3, <1>4, <1>5, <1>6, Steps

\* A program that builds its images with the device open never has an image that a
\* write would accept but that was built for another device: not after the device was
\* closed and another one opened, nor after reads, failed builds or new values.
THEOREM ImagesAreOwn ==
    ASSUME BuildsClosed = FALSE
    PROVE  Spec => []InitializedForThisDevice
<1>1. Init => Own
  BY DEF Init, EepromInit, FreshEeprom, Own
<1>2. Own => InitializedForThisDevice
  BY DEF Own, InitializedForThisDevice
<1>3. LineInv /\ Types /\ Own /\ [Next]_vars => Own'
  BY OwnNext
<1>. QED BY <1>1, <1>2, <1>3, LineInit1, LineNext, TypesInit, TypesNext, PTL DEF Spec

-----------------------------------------------------------------------------
(* The size that an erase finds.                                           *)

LEMMA MarkShows ==
    ASSUME RomOK, family \in Families, family \notin {R, X230}, NEW d \in Devices
    PROVE  FoundChip(Marked(Erased(d), Mark)) = ChipOf(External[family][d])
<1>. DEFINE n == RomBlocks(family, d)
            b == Marked(Erased(d), Mark)
<1>1. External[family][d] \in {0, 46, 56, 66}
  BY EepromAssumption
<1>2. DOMAIN Erased(d) = 1..n /\ Erased(d) = [j \in 1..n |-> Blank] /\ n \in {0, 2, 4, 8}
  BY RomLength, RomSizes DEF Erased
<1>3. Len(Erased(d)) = n
  BY <1>2
<1>4. b = [j \in 1..n |-> IF j = (6 % n) + 1 THEN Magic ELSE Blank]
  BY <1>2, <1>3 DEF Marked, Mark
<1>5. Magic # Blank
  BY DEF Magic, Blank, Block
<1>. HIDE DEF b
<1>6. CASE External[family][d] = 0
  <2>1. n = 0
    BY <1>6 DEF RomBlocks
  <2>2. b = <<>>
    BY <1>4, <2>1
  <2>. QED BY <1>6, <2>2 DEF FoundChip, FirstWordIsMagic, ChipOf, b
<1>7. CASE External[family][d] = 46
  <2>1. n = 2
    BY <1>7 DEF RomBlocks
  <2>2. b = [j \in 1..2 |-> IF j = 1 THEN Magic ELSE Blank]
    BY <1>4, <2>1
  <2>3. Len(b) = 2 /\ b[1] = Magic /\ b # <<>>
    BY <2>2
  <2>4. FoundChip(b) = 70
    BY <2>3 DEF FoundChip, FirstWordIsMagic
  <2>. QED BY <1>7, <2>4 DEF ChipOf, b
<1>8. CASE External[family][d] = 56
  <2>1. n = 4
    BY <1>8 DEF RomBlocks
  <2>2. b = [j \in 1..4 |-> IF j = 3 THEN Magic ELSE Blank]
    BY <1>4, <2>1
  <2>3. Len(b) = 4 /\ b[1] = Blank /\ b[3] = Magic /\ b # <<>>
    BY <2>2
  <2>4. FoundChip(b) = 86
    BY <1>5, <2>3 DEF FoundChip, FirstWordIsMagic
  <2>. QED BY <1>8, <2>4 DEF ChipOf, b
<1>9. CASE External[family][d] = 66
  <2>1. n = 8
    BY <1>9 DEF RomBlocks
  <2>2. b = [j \in 1..8 |-> IF j = 7 THEN Magic ELSE Blank]
    BY <1>4, <2>1
  <2>3. Len(b) = 8 /\ b[1] = Blank /\ b[3] = Blank /\ b[7] = Magic /\ b # <<>>
    BY <2>2
  <2>4. FoundChip(b) = 102
    BY <1>5, <2>3 DEF FoundChip, FirstWordIsMagic
  <2>. QED BY <1>9, <2>4 DEF ChipOf, b
<1>. QED BY <1>1, <1>6, <1>7, <1>8, <1>9

\* An erase that succeeds has found the size of any EEPROM there may be, by where its
\* mark shows, and leaves it blank.
THEOREM ErasesFindTheChip == Spec => EraseFindsChip
<1>1. ASSUME LineInv, Types, erase_eeprom, family \notin {R, X230}
      PROVE  /\ eeprom'.values["chip"] = ChipOf(External[family][usb_dev])
             /\ \A i \in 1..4 : Answers(usb_dev)'[i] = Blank
  <2>1. /\ IsEeprom(eeprom) /\ RomOK /\ family \in Families /\ type = family /\ usb_dev \in Devices
        /\ rom = [d \in Devices |-> rom[d]]
    BY <1>1 DEF Types, Session, LineInv, LineTypeOK, erase_eeprom, RomOK
  <2>2. /\ rom' = [rom EXCEPT ![usb_dev] = Erased(usb_dev)]
        /\ eeprom' = [eeprom EXCEPT !.values["chip"] = FoundChip(Marked(Erased(usb_dev), Mark))]
    BY <1>1, <2>1 DEF erase_eeprom, EraseChanges
  <2>3. "chip" \in Fields
    BY DEF Fields, Numbers
  <2>4. eeprom'.values["chip"] = FoundChip(Marked(Erased(usb_dev), Mark))
    BY <2>1, <2>2, <2>3 DEF IsEeprom
  <2>5. usb_dev' = usb_dev
    BY <1>1 DEF erase_eeprom, lineVars
  <2>6. ASSUME NEW i \in 1..4 PROVE Answers(usb_dev)'[i] = Blank
    <3>. DEFINE r == rom'[usb_dev]
                n == RomBlocks(family, usb_dev)
    <3>1. r = [j \in 1..n |-> Blank] /\ n \in {0, 2, 4, 8}
      BY <2>1, <2>2, RomLength, RomSizes DEF Erased
    <3>2. Answers(usb_dev)'[i] = IF r = <<>> THEN Blank ELSE r[((i - 1) % Len(r)) + 1]
      BY <2>5 DEF Answers, Answer
    <3>. HIDE DEF r, n
    <3>3. CASE n = 0
      BY <3>1, <3>2, <3>3
    <3>4. CASE n # 0
      <4>1. Len(r) = n
        BY <3>1
      <4>2. ((i - 1) % n) + 1 \in 1..n
        BY <3>1, <3>4, SMT
      <4>. QED BY <3>1, <3>2, <4>1, <4>2
    <3>. QED BY <3>3, <3>4
  <2>. QED BY <1>1, <2>1, <2>4, <2>6, MarkShows
<1>2. LineInv /\ Types /\ [Next]_vars =>
        [ erase_eeprom /\ family \notin {R, X230} =>
            /\ eeprom'.values["chip"] = ChipOf(External[family][usb_dev])
            /\ \A i \in 1..4 : Answers(usb_dev)'[i] = Blank ]_vars
  BY <1>1
<1>. QED BY <1>2, LineInit1, LineNext, TypesInit, TypesNext, PTL DEF Spec, EraseFindsChip

-----------------------------------------------------------------------------
(* Complete images.                                                        *)

\* The blocks with the factory's data of a 230X in their place.
View(t, blocks, factory) == IF t = X230 THEN [blocks EXCEPT ![3].factory = factory] ELSE blocks

\* The blocks are the image of what a build was made from, with a checksum over them.
Whole(t, blocks, m, factory) ==
    /\ \A i \in 1..LastPart(m.size) : blocks[i].what = "part" /\ blocks[i].part = i
    /\ blocks[1].header = Header(t, m.values)
    /\ blocks[LastPart(m.size)].strings = m.strings
    /\ blocks[LastPart(m.size)].sum = CoveredBy(t, View(t, blocks, factory), m.size)

\* The buffer holds what was built last, if that is still all there.
BufferHolds ==
    built.size # 0 =>
        /\ type = family /\ eeprom.size = built.size
        /\ Whole(family, eeprom.buf, built, built.on)

\* A device whose EEPROM was completely written has the image, with its own factory data.
RomHolds ==
    \A d \in Devices : rom[d] # <<>> /\ meant[d].size = RomSize(d) =>
        /\ Whole(family, rom[d], meant[d], d)
        /\ family = X230 => rom[d][3].factory = d

LEMMA RomSizeIs ==
    ASSUME RomOK, family \in Families, NEW d \in Devices
    PROVE  /\ RomSize(d) = CASE RomBlocks(family, d) = 0 -> 0
                             [] RomBlocks(family, d) = 2 -> 128
                             [] RomBlocks(family, d) \in {4, 8} -> 256
           /\ RomSize(d) = 0 <=> rom[d] = <<>>
           /\ family = X230 => RomBlocks(family, d) = 4
           /\ family = R => RomBlocks(family, d) = 2
<1>. DEFINE n == RomBlocks(family, d)
<1>1. n \in {0, 2, 4, 8} /\ (rom[d] = <<>> <=> n = 0)
  BY RomSizes, RomLength
<1>2. RomSize(d) = 64 * Min({4, n})
  BY DEF RomSize
<1>3. (family = X230 => n = 4) /\ (family = R => n = 2)
  BY DEF RomBlocks, X230, R
<1>. HIDE DEF n
<1>4. Min({4, n}) = IF n = 8 THEN 4 ELSE n
  <2>. DEFINE l == IF n = 8 THEN 4 ELSE n
  <2>1. l \in {4, n} /\ \A y \in {4, n} : l =< y
    BY <1>1
  <2>2. \A x \in {4, n} : (\A y \in {4, n} : x =< y) => x = l
    BY <1>1
  <2>. QED BY <2>1, <2>2 DEF Min
<1>5. RomSize(d) = CASE n = 0 -> 0 [] n = 2 -> 128 [] n \in {4, 8} -> 256
  BY <1>1, <1>2, <1>4
<1>. QED BY <1>1, <1>3, <1>5 DEF n

\* What a checksum covers of a block.
LEMMA CoveredIs ==
    ASSUME NEW t, NEW b, IsBlock(b)
    PROVE  Covered(t, b) = [what |-> b.what, part |-> b.part, header |-> b.header, strings |-> b.strings,
                            user |-> IF t = X230 THEN 0 ELSE b.user, factory |-> b.factory, sum |-> <<>>]
<1>. DEFINE u == IF t = X230 THEN 0 ELSE b.user
<1>1. Covered(t, b) = [b EXCEPT !.sum = <<>>, !.user = u]
  BY DEF Covered, IsBlock
<1>. HIDE DEF u
<1>2. Covered(t, b) = [what |-> b.what, part |-> b.part, header |-> b.header, strings |-> b.strings,
                       user |-> u, factory |-> b.factory, sum |-> <<>>]
  BY <1>1 DEF IsBlock
<1>. QED BY <1>2 DEF u

\* The factory's data and the checksum can be replaced without touching the rest.
LEMMA FactoryReplaced ==
    ASSUME NEW b, NEW x, IsBlock(b), NEW r, r = [b EXCEPT !.factory = x]
    PROVE  /\ r.what = b.what /\ r.part = b.part /\ r.header = b.header /\ r.strings = b.strings
           /\ r.user = b.user /\ r.factory = x /\ r.sum = b.sum /\ [r EXCEPT !.factory = x] = r
BY DEF IsBlock

LEMMA SumReplaced ==
    ASSUME NEW b, NEW x, IsBlock(b), NEW r, r = [b EXCEPT !.sum = x]
    PROVE  /\ r.what = b.what /\ r.part = b.part /\ r.header = b.header /\ r.strings = b.strings
           /\ r.user = b.user /\ r.factory = b.factory /\ r.sum = x
BY DEF IsBlock

LEMMA ViewIs ==
    ASSUME NEW blocks, NEW n, NEW x, AreBlocks(blocks, n), n \in {2, 4, 8}, family = X230 => n >= 4,
           NEW i \in 1..n
    PROVE  View(family, blocks, x)[i] = IF family = X230 /\ i = 3 THEN [blocks[3] EXCEPT !.factory = x] ELSE blocks[i]
BY DEF View, AreBlocks

\* An image is whole by its blocks.
LEMMA WholeByBlocks ==
    ASSUME NEW a, NEW b, NEW n, NEW k, NEW x, NEW m, AreBlocks(a, n), AreBlocks(b, k),
           n \in {2, 4, 8}, k \in {2, 4, 8}, family = X230 => n >= 4 /\ k >= 4,
           m.size \in {64, 128, 256}, LastPart(m.size) <= n, LastPart(m.size) <= k,
           \A i \in 1..LastPart(m.size) :
                a[i] = b[i] \/ (family = X230 /\ i = 3 /\ a[i] = [b[i] EXCEPT !.factory = x]),
           Whole(family, b, m, x)
    PROVE  Whole(family, a, m, x)
<1>. DEFINE l == LastPart(m.size)
<1>1. l \in {1, 2, 4}
  BY SMT DEF LastPart
<1>. HIDE DEF l
<1>2. ASSUME NEW i \in 1..l
      PROVE  /\ a[i].what = b[i].what /\ a[i].part = b[i].part /\ a[i].header = b[i].header
             /\ a[i].strings = b[i].strings /\ a[i].sum = b[i].sum
             /\ View(family, a, x)[i] = View(family, b, x)[i]
  <2>1. i \in 1..n /\ i \in 1..k /\ IsBlock(b[i]) /\ IsBlock(a[i])
    BY <1>1 DEF AreBlocks, l
  <2>2. /\ View(family, a, x)[i] = IF family = X230 /\ i = 3 THEN [a[3] EXCEPT !.factory = x] ELSE a[i]
        /\ View(family, b, x)[i] = IF family = X230 /\ i = 3 THEN [b[3] EXCEPT !.factory = x] ELSE b[i]
    BY <2>1, ViewIs
  <2>3. CASE a[i] = b[i]
    BY <2>2, <2>3
  <2>4. CASE family = X230 /\ i = 3 /\ a[i] = [b[i] EXCEPT !.factory = x]
    <3>. DEFINE q == b[i]
                r == a[i]
    <3>1. IsBlock(q) /\ r = [q EXCEPT !.factory = x]
      BY <2>1, <2>4
    <3>2. View(family, a, x)[i] = [r EXCEPT !.factory = x] /\ View(family, b, x)[i] = [q EXCEPT !.factory = x]
      BY <2>2, <2>4
    <3>. HIDE DEF q, r
    <3>3. /\ r.what = q.what /\ r.part = q.part /\ r.header = q.header /\ r.strings = q.strings
          /\ r.sum = q.sum
      BY <3>1, FactoryReplaced
    <3>4. [r EXCEPT !.factory = x] = r
      BY <3>1 DEF IsBlock
    <3>. QED BY <3>1, <3>2, <3>3, <3>4 DEF q, r
  <2>. QED BY <2>3, <2>4 DEF l
<1>3. CoveredBy(family, View(family, a, x), m.size) = CoveredBy(family, View(family, b, x), m.size)
  BY <1>2 DEF CoveredBy, l
<1>4. 1 \in 1..l /\ l \in 1..l
  BY <1>1
<1>. QED BY <1>2, <1>3, <1>4 DEF Whole, l

\* What a build leaves in the buffer is whole.
LEMMA BuildsWhole ==
    ASSUME IsEeprom(eeprom), type = family, NEW size \in {64, 128, 256}, NEW factory, NEW m,
           m.size = size, m.values = eeprom.values, m.strings = eeprom.strings
    PROVE  Whole(family, Summed(Body(size), size, factory), m, factory)
<1>. DEFINE body == Body(size)
            s == Summed(body, size, factory)
            l == LastPart(size)
            h == [size |-> size, header |-> Header(type, eeprom.values),
                  strings |-> eeprom.strings, user |-> eeprom.user]
<1>1. l \in {1, 2, 4} /\ l = LastPart(m.size)
  BY SMT DEF LastPart
<1>2. ASSUME NEW i \in 1..4
      PROVE  body[i] = LET part == IF i <= l THEN Part(h, i) ELSE Zero
                       IN  IF type = X230 /\ i = 3 THEN [part EXCEPT !.factory = eeprom.buf[3].factory] ELSE part
  BY DEF Body
<1>3. AreBlocks(body, 4) /\ AreBlocks(s, 4)
  BY BuiltAreBlocks
<1>4. ASSUME NEW i \in 1..l
      PROVE  /\ body[i].what = "part" /\ body[i].part = i
             /\ body[i].header = (IF i = 1 THEN Header(type, eeprom.values) ELSE {})
             /\ i = l => body[i].strings = eeprom.strings
  <2>1. i \in 1..4 /\ i <= l
    BY <1>1
  <2>. HIDE DEF l
  <2>2. /\ Part(h, i).what = "part" /\ Part(h, i).part = i
        /\ Part(h, i).header = (IF i = 1 THEN Header(type, eeprom.values) ELSE {})
        /\ size < 256 \/ i \in {3, 4} => Part(h, i).strings = eeprom.strings
    BY DEF Part
  <2>3. i = l => size < 256 \/ i \in {3, 4}
    BY SMT DEF LastPart, l
  <2>4. IsBlock(Part(h, i))
    BY <2>1, SimpleBlocks
  <2>. DEFINE p == Part(h, i)
  <2>5. body[i] = p \/ body[i] = [p EXCEPT !.factory = eeprom.buf[3].factory]
    BY <1>2, <2>1
  <2>. HIDE DEF p, body
  <2>6. /\ body[i].what = p.what /\ body[i].part = p.part /\ body[i].header = p.header
        /\ body[i].strings = p.strings
    BY <2>4, <2>5 DEF IsBlock, p
  <2>. QED BY <2>2, <2>3, <2>6 DEF p
<1>5. s = [body EXCEPT ![l].sum = CoveredBy(family, View(family, body, factory), size)]
  BY <1>1 DEF Summed, View
<1>. DEFINE sum == CoveredBy(family, View(family, body, factory), size)
<1>. HIDE DEF body, s, l, h
<1>6. ASSUME NEW i \in 1..l
      PROVE  s[i] = IF i = l THEN [body[i] EXCEPT !.sum = sum] ELSE body[i]
  BY <1>1, <1>3, <1>5 DEF AreBlocks
<1>7. ASSUME NEW i \in 1..l
      PROVE  /\ IsBlock(body[i]) /\ IsBlock(s[i])
             /\ s[i].what = body[i].what /\ s[i].part = body[i].part /\ s[i].header = body[i].header
             /\ s[i].strings = body[i].strings
             /\ i = l => s[i].sum = sum
  <2>1. i \in 1..4
    BY <1>1
  <2>2. IsBlock(body[i]) /\ IsBlock(s[i])
    BY <1>3, <2>1 DEF AreBlocks
  <2>. DEFINE q == body[i]
              r == s[i]
  <2>3. IsBlock(q) /\ (r = q \/ r = [q EXCEPT !.sum = sum]) /\ (i = l => r = [q EXCEPT !.sum = sum])
    BY <1>6, <2>2
  <2>. HIDE DEF sum, q, r
  <2>4. /\ r.what = q.what /\ r.part = q.part /\ r.header = q.header /\ r.strings = q.strings
        /\ i = l => r.sum = sum
    <3>1. CASE r = [q EXCEPT !.sum = sum]
      BY <2>3, <3>1, SumReplaced
    <3>2. CASE i # l
      BY <2>3, <3>1, <3>2
    <3>. QED BY <2>3, <3>1, <3>2
  <2>. QED BY <2>2, <2>4 DEF q, r
<1>8. ASSUME NEW i \in 1..l
      PROVE  Covered(family, View(family, s, factory)[i]) = Covered(family, View(family, body, factory)[i])
  <2>1. i \in 1..4 /\ IsBlock(body[i]) /\ IsBlock(s[i])
    BY <1>1, <1>7
  <2>2. /\ View(family, s, factory)[i] = IF family = X230 /\ i = 3 THEN [s[3] EXCEPT !.factory = factory] ELSE s[i]
        /\ View(family, body, factory)[i] = IF family = X230 /\ i = 3 THEN [body[3] EXCEPT !.factory = factory] ELSE body[i]
    BY <1>3, <2>1, ViewIs
  <2>3. s[i] = body[i] \/ s[i] = [body[i] EXCEPT !.sum = sum]
    BY <1>6
  <2>. HIDE DEF sum
  <2>4. CASE family = X230 /\ i = 3
    <3>. DEFINE a == [s[i] EXCEPT !.factory = factory]
                b == [body[i] EXCEPT !.factory = factory]
    <3>1. IsBlock(a) /\ IsBlock(b)
      BY <2>1 DEF IsBlock
    <3>2. a.what = b.what /\ a.part = b.part /\ a.header = b.header /\ a.strings = b.strings
          /\ a.user = b.user /\ a.factory = b.factory
      BY <2>1, <2>3 DEF IsBlock
    <3>3. View(family, s, factory)[i] = a /\ View(family, body, factory)[i] = b
      BY <2>2, <2>4
    <3>. HIDE DEF a, b
    <3>. QED BY <3>1, <3>2, <3>3, CoveredIs
  <2>5. CASE ~(family = X230 /\ i = 3)
    <3>1. s[i].what = body[i].what /\ s[i].part = body[i].part /\ s[i].header = body[i].header
          /\ s[i].strings = body[i].strings /\ s[i].user = body[i].user /\ s[i].factory = body[i].factory
      BY <2>1, <2>3 DEF IsBlock
    <3>. QED BY <2>1, <2>2, <2>5, <3>1, CoveredIs
  <2>. QED BY <2>4, <2>5
<1>9. CoveredBy(family, View(family, s, factory), size) = sum
  BY <1>8 DEF CoveredBy, sum, l
<1>10. 1 \in 1..l /\ l \in 1..l
  BY <1>1
<1>. HIDE DEF sum
<1>. QED BY <1>1, <1>4, <1>7, <1>9, <1>10 DEF Whole, s, body

\* The block that a write leaves at an address that does not wrap around.
LEMMA WrittenIs ==
    ASSUME RomOK, family \in Families, NEW d \in Devices, NEW k \in 1..4, k <= RomBlocks(family, d),
           NEW j \in 1..k
    PROVE  Written(d, k)[j] = Stored(d, j, eeprom.buf[j])
<1>. DEFINE n == RomBlocks(family, d)
            here == {i \in 1..k : ((i - 1) % Len(rom[d])) + 1 = j}
<1>1. n \in {2, 4, 8} /\ DOMAIN rom[d] = 1..n /\ Len(rom[d]) = n /\ j \in 1..n
  BY RomSizes, RomLength
<1>2. ASSUME NEW i \in 1..k PROVE (i - 1) % n = i - 1
  BY <1>1, SMT
<1>3. here = {j}
  <2>. HIDE DEF n
  <2>. QED BY <1>1, <1>2
<1>4. Written(d, k)[j] = IF here = {} THEN rom[d][j] ELSE Stored(d, Max(here), eeprom.buf[Max(here)])
  BY <1>1 DEF Written
<1>. HIDE DEF here
<1>5. Max(here) \in here
  BY <1>3, MaxOfParts
<1>. QED BY <1>3, <1>4, <1>5

LEMMA BufferKept ==
    ASSUME BufferHolds, UNCHANGED <<family, built>>, type' = type, eeprom'.size = eeprom.size,
           eeprom'.buf = eeprom.buf
    PROVE  BufferHolds'
BY DEF BufferHolds

LEMMA BuildHolds ==
    ASSUME BuildsClosed = FALSE, LineInv, Types, BufferHolds, NEW factory, eeprom_build(factory)
    PROVE  BufferHolds'
<1>a. /\ IsEeprom(eeprom) /\ IsBuilt(built) /\ usb_dev # NULL /\ type = family
      /\ UNCHANGED <<family, type>>
  BY DEF Types, BuiltOK, Session, eeprom_build, Keeps
<1>. DEFINE size == SizeToBuild
            body == Body(size)
            sum == Summed(body, size, factory)
            chip == ChipAfter(size)
<1>1. size \in {0, 64, 128, 256} /\ (eeprom.size # -1 => size = eeprom.size)
  BY <1>a DEF SizeToBuild, IsEeprom
<1>2. \/ eeprom' = [eeprom EXCEPT !.size = size] /\ UNCHANGED built
      \/ built' = Clobbered
      \/ /\ eeprom' = [eeprom EXCEPT !.size = size, !.buf = sum, !.values["chip"] = chip, !.initialized = TRUE]
         /\ built' = [on |-> usb_dev, size |-> IF type = X230 /\ factory = NULL THEN 0 ELSE size,
                      values |-> eeprom.values, strings |-> eeprom.strings]
  BY DEF eeprom_build
<1>3. type = X230 => factory \in {usb_dev, NULL}
  BY <1>a DEF eeprom_build
<1>4. size # 0 => \A m : m.size = size /\ m.values = eeprom.values /\ m.strings = eeprom.strings =>
                    Whole(family, sum, m, factory)
  <2>. HIDE DEF size
  <2>. QED BY <1>a, <1>1, BuildsWhole
<1>. HIDE DEF size, body, sum, chip
<1>5. CASE eeprom' = [eeprom EXCEPT !.size = size] /\ UNCHANGED built
  <2>1. eeprom'.size = size /\ eeprom'.buf = eeprom.buf
    BY <1>a, <1>5 DEF IsEeprom
  <2>2. built.size # 0 => size = eeprom.size
    BY <1>a, <1>1 DEF BufferHolds, IsBuilt
  <2>. QED BY <1>a, <1>5, <2>1, <2>2 DEF BufferHolds
<1>6. CASE built' = Clobbered
  <2>1. built'.size = 0
    BY <1>a, <1>6 DEF Clobbered, IsBuilt
  <2>. QED BY <2>1 DEF BufferHolds
<1>7. CASE /\ eeprom' = [eeprom EXCEPT !.size = size, !.buf = sum, !.values["chip"] = chip, !.initialized = TRUE]
           /\ built' = [on |-> usb_dev, size |-> IF type = X230 /\ factory = NULL THEN 0 ELSE size,
                        values |-> eeprom.values, strings |-> eeprom.strings]
  <2>. SUFFICES ASSUME built'.size # 0
                PROVE  type' = family' /\ eeprom'.size = built'.size /\ Whole(family', eeprom'.buf, built', built'.on)
    BY DEF BufferHolds
  <2>1. eeprom'.size = size /\ eeprom'.buf = sum
    BY <1>a, <1>7 DEF IsEeprom
  <2>2. /\ built'.on = usb_dev /\ built'.size = size /\ size # 0 /\ ~(type = X230 /\ factory = NULL)
        /\ built'.values = eeprom.values /\ built'.strings = eeprom.strings
    BY <1>7
  <2>3. Whole(family, sum, built', factory)
    BY <1>4, <2>2
  <2>4. CASE family = X230
    BY <1>a, <1>3, <2>1, <2>2, <2>3, <2>4
  <2>5. CASE family # X230
    <3>1. View(family, sum, factory) = View(family, sum, usb_dev)
      BY <2>5 DEF View
    <3>2. Whole(family, sum, built', usb_dev)
      BY <2>3, <3>1 DEF Whole
    <3>. QED BY <1>a, <2>1, <2>2, <3>2
  <2>. QED BY <2>4, <2>5
<1>. QED BY <1>2, <1>5, <1>6, <1>7

LEMMA BufferNext ==
    ASSUME BuildsClosed = FALSE, LineInv, Types, BufferHolds, [Next]_vars
    PROVE  BufferHolds'
<1>a. IsEeprom(eeprom) /\ IsBuilt(built) /\ Clobbered.size = 0 /\ NotBuilt.size = 0
      /\ type \in {BM, family} /\ (usb_dev # NULL => type = family) /\ (eeprom.size # 0 => type = family)
  BY DEF Types, BuiltOK, Session, IsBuilt, Clobbered, NotBuilt
<1>b. built'.size = 0 => BufferHolds'
  BY DEF BufferHolds
<1>1. CASE LineStep \/ UNCHANGED vars
  <2>1. UNCHANGED eepromVars
    BY <1>1 DEF LineStep, vars
  <2>. QED BY <2>1 DEF eepromVars, BufferHolds
<1>2. ASSUME NEW d \in Devices, usb_open(d) PROVE BufferHolds'
  BY <1>2 DEF usb_open, BufferHolds
<1>3. CASE usb_close
  <2>1. eeprom'.size = eeprom.size /\ eeprom'.buf = eeprom.buf /\ UNCHANGED <<family, built>> /\ type' = type
    BY <1>3, <1>a DEF usb_close, IsEeprom
  <2>. QED BY <2>1, BufferKept
<1>4. CASE StructureStep
  <2>1. UNCHANGED family /\ type' = type
    BY <1>4, StructureKeeps DEF Keeps
  <2>2. ASSUME NEW s, eeprom_initdefaults(s) PROVE BufferHolds'
    BY <1>a, <1>b, <2>2 DEF eeprom_initdefaults
  <2>3. ASSUME NEW s, eeprom_set_strings(s) PROVE BufferHolds'
    <3>1. eeprom'.size = eeprom.size /\ eeprom'.buf = eeprom.buf /\ built' = built
      BY <1>a, <2>3 DEF eeprom_set_strings, IsEeprom
    <3>. QED BY <2>1, <3>1, BufferKept
  <2>4. ASSUME NEW call, set_eeprom_value(call) PROVE BufferHolds'
    <3>1. eeprom'.size = eeprom.size /\ eeprom'.buf = eeprom.buf /\ built' = built
      BY <1>a, <2>4 DEF set_eeprom_value, IsEeprom
    <3>. QED BY <2>1, <3>1, BufferKept
  <2>5. ASSUME NEW end, set_eeprom_user_data(end) \/ set_user_data_addr(end) PROVE BufferHolds'
    <3>1. eeprom'.size = eeprom.size /\ eeprom'.buf = eeprom.buf /\ built' = built
      <4>1. CASE set_eeprom_user_data(end)
        BY <1>a, <4>1, SMTT(40) DEF set_eeprom_user_data, IsEeprom
      <4>2. CASE set_user_data_addr(end)
        BY <1>a, <4>2, SMTT(40) DEF set_user_data_addr, IsEeprom
      <4>. QED BY <2>5, <4>1, <4>2
    <3>. QED BY <2>1, <3>1, BufferKept
  <2>6. ASSUME NEW d, set_eeprom_buf(d) PROVE BufferHolds'
    BY <1>a, <1>b, <2>6 DEF set_eeprom_buf
  <2>7. ASSUME NEW factory, eeprom_build(factory) PROVE BufferHolds'
    BY <2>7, BuildHolds
  <2>8. CASE eeprom_decode
    <3>1. PICK strings, v : eeprom' = [eeprom EXCEPT !.strings = strings, !.values = v]
      BY <2>8, <1>a DEF eeprom_decode
    <3>2. eeprom'.size = eeprom.size /\ eeprom'.buf = eeprom.buf /\ built' = built
      BY <1>a, <2>8, <3>1 DEF IsEeprom, eeprom_decode
    <3>. QED BY <2>1, <3>2, BufferKept
  <2>9. CASE read_eeprom
    BY <1>a, <1>b, <2>9 DEF read_eeprom
  <2>10. ASSUME NEW k, ReadEepromFails(k) PROVE BufferHolds'
    BY <1>a, <1>b, <2>10 DEF ReadEepromFails
  <2>. QED BY <1>4, <2>2, <2>3, <2>4, <2>5, <2>6, <2>7, <2>8, <2>9, <2>10 DEF StructureStep
<1>5. CASE WriteStep \/ ChipStep
  <2>1. UNCHANGED <<family, built>> /\ type' = type
    BY <1>5, EepromTypes
  <2>2. eeprom' = eeprom \/ \E chip : eeprom' = [eeprom EXCEPT !.values["chip"] = chip]
    BY <1>5 DEF WriteStep, ChipStep, write_eeprom, WriteEepromFails, Write, erase_eeprom, EraseEepromFails,
                EraseChanges, write_eeprom_location
  <2>3. eeprom'.size = eeprom.size /\ eeprom'.buf = eeprom.buf
    BY <1>a, <2>2 DEF IsEeprom
  <2>. QED BY <2>1, <2>3, BufferKept
<1>. QED BY <1>1, <1>2, <1>3, <1>4, <1>5, Steps

\* One device's part of RomHolds.
RomHoldsAt(t, blocks, m, size, d) ==
    blocks # <<>> /\ m.size = size => Whole(t, blocks, m, d) /\ (t = X230 => blocks[3].factory = d)

\* A complete write, of an image as large as the EEPROM.
LEMMA WriteHolds ==
    ASSUME LineInv, Types, Own, BufferHolds, eeprom.initialized, usb_dev # NULL
    PROVE  LET l == LastPart(eeprom.size)
           IN  l # 0 => RomHoldsAt(family, Written(usb_dev, l), built, RomSize(usb_dev), usb_dev)
<1>. DEFINE d == usb_dev
            l == LastPart(eeprom.size)
            n == RomBlocks(family, d)
            w == Written(d, l)
            size == RomSize(d)
<1>a. /\ IsEeprom(eeprom) /\ IsBuilt(built) /\ RomOK /\ family \in Families /\ d \in Devices /\ built.on = d
  BY DEF Types, BuiltOK, Session, LineInv, LineTypeOK, Own
<1>. SUFFICES ASSUME l # 0, w # <<>>, built.size = size
              PROVE  Whole(family, w, built, d) /\ (family = X230 => w[3].factory = d)
  BY DEF RomHoldsAt
<1>1. l \in 1..4 /\ l \in 0..4
  BY <1>a, Parts
<1>2. AreBlocks(w, n)
  <2>. HIDE DEF l
  <2>. QED BY <1>a, <1>1, ChangedAreBlocks
<1>3. n \in {2, 4, 8}
  <2>1. n \in {0, 2, 4, 8}
    BY <1>a, RomSizes
  <2>2. n = 0 => w = <<>>
    <3>. HIDE DEF w, n
    <3>. QED BY <1>2 DEF AreBlocks
  <2>. QED BY <2>1, <2>2
<1>4. /\ n = 2 => size = 128
      /\ n \in {4, 8} => size = 256
      /\ family = X230 => n = 4
  BY <1>a, <1>3, RomSizeIs
<1>5. built.size \in {128, 256} /\ (n = 2 => built.size = 128) /\ (n \in {4, 8} => built.size = 256)
  BY <1>3, <1>4
<1>6. eeprom.size = built.size /\ Whole(family, eeprom.buf, built, d)
  BY <1>a, <1>5 DEF BufferHolds
<1>7. l = LastPart(built.size) /\ l <= n /\ (family = X230 => l = 4)
  <2>1. (built.size = 128 => LastPart(built.size) = 2) /\ (built.size = 256 => LastPart(built.size) = 4)
    BY SMT DEF LastPart
  <2>. QED BY <1>3, <1>4, <1>5, <1>6, <2>1
<1>8. ASSUME NEW i \in 1..l
      PROVE  /\ w[i] = Stored(d, i, eeprom.buf[i])
             /\ w[i] = eeprom.buf[i] \/ (family = X230 /\ i = 3 /\ w[i] = [eeprom.buf[i] EXCEPT !.factory = d])
  <2>1. w[i] = Stored(d, i, eeprom.buf[i])
    <3>. HIDE DEF l
    <3>. QED BY <1>a, <1>1, <1>7, <1>8, WrittenIs
  <2>. QED BY <2>1 DEF Stored
<1>9. AreBlocks(eeprom.buf, 4)
  BY <1>a DEF IsEeprom
<1>. HIDE DEF w, n, l
<1>10. Whole(family, w, built, d)
  BY <1>1, <1>2, <1>3, <1>4, <1>5, <1>6, <1>7, <1>8, <1>9, WholeByBlocks
<1>11. ASSUME family = X230 PROVE w[3].factory = d
  <2>. DEFINE b == eeprom.buf[3]
  <2>1. w[3] = Stored(d, 3, b)
    <3>1. 3 \in 1..l
      BY <1>7, <1>11
    <3>. QED BY <1>8, <3>1
  <2>2. w[3] = [b EXCEPT !.factory = d]
    BY <1>11, <2>1 DEF Stored
  <2>3. IsBlock(b)
    BY <1>9 DEF AreBlocks
  <2>. HIDE DEF b
  <2>. QED BY <2>2, <2>3 DEF IsBlock
<1>. QED BY <1>10, <1>11

\* RomHolds, device by device.
LEMMA RomByDevices ==
    ASSUME RomHolds, family' = family,
           \A d \in Devices :
                \/ rom'[d] = rom[d] /\ meant'[d] = meant[d]
                \/ meant'[d].size = 0
                \/ RomHoldsAt(family, rom'[d], meant'[d], RomSize(d), d),
           RomOK', family \in Families
    PROVE  RomHolds'
<1>. SUFFICES ASSUME NEW d \in Devices, rom'[d] # <<>>, meant'[d].size = RomSize(d)'
              PROVE  Whole(family', rom'[d], meant'[d], d) /\ (family' = X230 => rom'[d][3].factory = d)
  BY DEF RomHolds
<1>1. RomSize(d)' = RomSize(d) /\ RomBlocks(family, d)' = RomBlocks(family, d)
  BY DEF RomSize, RomBlocks
<1>2. RomSize(d) # 0
  <2>1. AreBlocks(rom'[d], RomBlocks(family, d))
    BY <1>1 DEF RomOK
  <2>2. RomBlocks(family, d) # 0
    <3>. DEFINE r == rom'[d]
                n == RomBlocks(family, d)
    <3>. HIDE DEF r, n
    <3>1. n = 0 => r = <<>>
      <4>1. AreBlocks(r, n)
        BY <2>1 DEF r, n
      <4>. QED BY <4>1 DEF AreBlocks
    <3>. QED BY <3>1 DEF r, n
  <2>3. RomBlocks(family, d) \in {2, 4, 8}
    BY <2>2, RomSizes
  <2>. DEFINE n == RomBlocks(family, d)
  <2>4. RomSize(d) = 64 * Min({4, n})
    BY DEF RomSize
  <2>. HIDE DEF n
  <2>5. Min({4, n}) \in {2, 4}
    <3>1. n \in {2, 4, 8}
      BY <2>3 DEF n
    <3>2. \E x \in {4, n} : \A y \in {4, n} : x =< y
      BY <3>1
    <3>3. Min({4, n}) \in {4, n} /\ \A y \in {4, n} : Min({4, n}) =< y
      BY <3>2 DEF Min
    <3>. QED BY <3>1, <3>3
  <2>. QED BY <2>4, <2>5
<1>3. CASE rom'[d] = rom[d] /\ meant'[d] = meant[d]
  BY <1>1, <1>3 DEF RomHolds
<1>4. CASE meant'[d].size = 0
  BY <1>1, <1>2, <1>4
<1>5. CASE RomHoldsAt(family, rom'[d], meant'[d], RomSize(d), d)
  BY <1>1, <1>5 DEF RomHoldsAt
<1>. QED BY <1>3, <1>4, <1>5

LEMMA RomNext ==
    ASSUME LineInv, Types, Types', Own, BufferHolds, RomHolds, [Next]_vars
    PROVE  RomHolds'
<1>a. /\ rom = [d \in Devices |-> rom[d]] /\ meant = [d \in Devices |-> meant[d]]
      /\ usb_dev \in Devices \cup {NULL} /\ family \in Families /\ RomOK' /\ NotBuilt.size = 0
      /\ RomOK /\ IsEeprom(eeprom)
  BY DEF Types, RomOK, BuiltOK, LineInv, LineTypeOK, Session, NotBuilt
<1>1. CASE UNCHANGED <<family, rom, meant>>
  BY <1>1, <1>a, RomByDevices
<1>2. LineStep \/ (\E d \in Devices : usb_open(d)) \/ usb_close \/ StructureStep \/ UNCHANGED vars
        => UNCHANGED <<family, rom, meant>>
  BY StructureKeeps DEF LineStep, usb_open, usb_close, Keeps, vars, eepromVars
<1>3. ASSUME meant' = [meant EXCEPT ![usb_dev] = NotBuilt], NEW blocks, rom' = [rom EXCEPT ![usb_dev] = blocks],
             usb_dev # NULL, UNCHANGED family
      PROVE  RomHolds'
  BY <1>3, <1>a, RomByDevices
<1>4. CASE WriteStep \/ ChipStep
  <2>1. UNCHANGED family
    BY <1>4, EepromTypes
  <2>2. CASE write_eeprom
    <3>. DEFINE l == LastPart(eeprom.size)
    <3>1. /\ usb_dev # NULL /\ eeprom.initialized
          /\ rom' = [rom EXCEPT ![usb_dev] = Written(usb_dev, l)]
          /\ meant' = IF l = 0 THEN meant ELSE [meant EXCEPT ![usb_dev] = built]
      BY <2>2 DEF write_eeprom, Write
    <3>2. CASE l = 0
      <4>1. Written(usb_dev, 0) = rom[usb_dev]
        <5>. DEFINE r == rom[usb_dev]
                    n == RomBlocks(family, usb_dev)
        <5>1. r = [j \in 1..n |-> r[j]]
          BY <1>a, <3>1 DEF RomOK, AreBlocks
        <5>2. DOMAIN r = 1..n
          <6>. HIDE DEF r
          <6>. QED BY <5>1
        <5>3. \A j \in 1..n : {i \in 1..0 : ((i - 1) % Len(r)) + 1 = j} = {}
          OBVIOUS
        <5>4. Written(usb_dev, 0) = [j \in 1..n |-> r[j]]
          BY <5>2, <5>3 DEF Written
        <5>. QED BY <5>1, <5>4
      <4>2. rom' = rom /\ meant' = meant
        BY <1>a, <3>1, <3>2, <4>1
      <4>. QED BY <1>1, <2>1, <4>2
    <3>3. CASE l # 0
      <4>1. RomHoldsAt(family, Written(usb_dev, l), built, RomSize(usb_dev), usb_dev)
        BY <3>1, <3>3, WriteHolds
      <4>. DEFINE w == Written(usb_dev, l)
      <4>. HIDE DEF w
      <4>2. ASSUME NEW d \in Devices, d # usb_dev PROVE rom'[d] = rom[d] /\ meant'[d] = meant[d]
        BY <1>a, <3>1, <3>3, <4>2
      <4>3. rom'[usb_dev] = w /\ meant'[usb_dev] = built
        BY <1>a, <3>1, <3>3 DEF w
      <4>4. RomHoldsAt(family, rom'[usb_dev], meant'[usb_dev], RomSize(usb_dev), usb_dev)
        BY <4>1, <4>3 DEF w
      <4>. QED BY <1>a, <2>1, <4>2, <4>4, RomByDevices
    <3>. QED BY <3>2, <3>3
  <2>3. ASSUME NEW k, WriteEepromFails(k) PROVE RomHolds'
    BY <1>3, <2>1, <2>3 DEF WriteEepromFails, Write
  <2>4. ASSUME NEW blocks, NEW chip, EraseChanges(blocks, chip), usb_dev # NULL PROVE RomHolds'
    BY <1>3, <2>1, <2>4 DEF EraseChanges
  <2>5. CASE erase_eeprom
    BY <1>1, <2>1, <2>4, <2>5 DEF erase_eeprom
  <2>6. CASE EraseEepromFails
    BY <2>4, <2>6 DEF EraseEepromFails
  <2>7. CASE write_eeprom_location
    <3>. DEFINE i == (4 % Len(rom[usb_dev])) + 1
                blocks == [rom[usb_dev] EXCEPT ![i].what = "patched"]
    <3>1. /\ usb_dev # NULL /\ rom[usb_dev] # <<>>
          /\ rom' = [rom EXCEPT ![usb_dev][i].what = "patched"]
          /\ meant' = IF i > 4 THEN meant ELSE [meant EXCEPT ![usb_dev] = NotBuilt]
      BY <2>7 DEF write_eeprom_location
    <3>. HIDE DEF i
    <3>2. rom' = [rom EXCEPT ![usb_dev] = blocks]
      BY <3>1
    <3>3. CASE ~(i > 4)
      BY <1>3, <2>1, <3>1, <3>2, <3>3
    <3>4. CASE i > 4
      <4>. DEFINE d == usb_dev
                  m == meant[d]
                  r == rom[d]
                  n == RomBlocks(family, d)
                  size == RomSize(d)
      <4>1. AreBlocks(r, n) /\ n \in {2, 4, 8} /\ AreBlocks(blocks, n) /\ i \in Nat
        <5>1. n \in {0, 2, 4, 8} /\ Len(r) = n /\ DOMAIN r = 1..n /\ n # 0
          BY <1>a, <3>1, RomSizes, RomLength
        <5>2. i \in 1..n
          <6>1. ASSUME NEW x \in {2, 4, 8} PROVE (4 % x) + 1 \in 1..x
            BY SMT
          <6>. HIDE DEF r, n
          <6>. QED BY <5>1, <6>1 DEF i, r
        <5>3. AreBlocks(blocks, n)
          BY <1>a, <3>1, <5>1, <5>2, ChangedAreBlocks
        <5>. QED BY <1>a, <3>1, <5>1, <5>2, <5>3 DEF RomOK
      <4>2. \A j \in 1..4 : blocks[j] = r[j]
        BY <3>4, <4>1
      <4>3. RomHoldsAt(family, blocks, m, size, d)
        <5>. SUFFICES ASSUME m.size = size
                      PROVE  Whole(family, blocks, m, d) /\ (family = X230 => blocks[3].factory = d)
          BY DEF RomHoldsAt
        <5>1. Whole(family, r, m, d) /\ (family = X230 => r[3].factory = d)
          BY <1>a, <3>1 DEF RomHolds
        <5>2. size \in {128, 256} /\ (n = 2 => size = 128) /\ (family = X230 => n = 4)
          BY <1>a, <3>1, <4>1, RomSizeIs
        <5>3. /\ m.size \in {64, 128, 256} /\ LastPart(m.size) <= n /\ LastPart(m.size) <= 4
              /\ family = X230 => n >= 4
          <6>1. LastPart(128) = 2 /\ LastPart(256) = 4
            BY SMT DEF LastPart
          <6>. QED BY <4>1, <5>2, <6>1
        <5>4. LastPart(m.size) \in Nat
          BY <5>3, SMT DEF LastPart
        <5>5. \A j \in 1..LastPart(m.size) : blocks[j] = r[j]
          BY <4>2, <5>3, <5>4
        <5>. HIDE DEF blocks, r, m, n, size
        <5>6. Whole(family, blocks, m, d)
          BY <4>1, <5>1, <5>3, <5>5, WholeByBlocks
        <5>. QED BY <4>2, <5>1, <5>6
      <4>. HIDE DEF blocks, size
      <4>4. ASSUME NEW e \in Devices, e # usb_dev PROVE rom'[e] = rom[e] /\ meant'[e] = meant[e]
        BY <1>a, <3>1, <3>2, <3>4, <4>4
      <4>5. rom'[usb_dev] = blocks /\ meant'[usb_dev] = m
        BY <1>a, <3>1, <3>2, <3>4
      <4>6. RomHoldsAt(family, rom'[usb_dev], meant'[usb_dev], RomSize(usb_dev), usb_dev)
        BY <4>3, <4>5 DEF size
      <4>. QED BY <1>a, <2>1, <3>1, <4>4, <4>6, RomByDevices
    <3>. QED BY <3>3, <3>4
  <2>. QED BY <1>4, <2>2, <2>3, <2>5, <2>6, <2>7 DEF WriteStep, ChipStep
<1>. QED BY <1>1, <1>2, <1>4, Steps

-----------------------------------------------------------------------------
(* The next reader.                                                        *)

\* What a reader gets of an EEPROM with an image of its own size.
LEMMA ImageAnswered ==
    ASSUME Types, RomHolds, NEW d \in Devices, rom[d] # <<>>, meant[d].size = RomSize(d)
    PROVE  /\ RomSize(d) \in {128, 256} /\ (family = R => RomSize(d) = 128)
           /\ \A i \in 1..LastPart(RomSize(d)) :
                Answers(d)[i] = rom[d][i] /\ Answers(d)[i].what = "part" /\ Answers(d)[i].part = i
           /\ RomSize(d) = 128 => Answers(d)[3] = Answers(d)[1] /\ Answers(d)[4] = Answers(d)[2]
           /\ LastPart(128) = 2 /\ LastPart(256) = 4
<1>. DEFINE n == RomBlocks(family, d)
            s == RomSize(d)
            r == rom[d]
            a == Answers(d)
<1>0. family \in Families /\ RomOK
  BY DEF Types, Session
<1>1. n \in {2, 4, 8} /\ Len(r) = n /\ (n = 2 => s = 128) /\ (n \in {4, 8} => s = 256) /\ (family = R => n = 2)
  BY <1>0, RomSizes, RomLength, RomSizeIs
<1>2. LastPart(128) = 2 /\ LastPart(256) = 4
  BY SMT DEF LastPart
<1>3. \A i \in 1..4 : a[i] = r[((i - 1) % Len(r)) + 1]
  BY DEF Answers, Answer
<1>4. \A i \in 1..LastPart(meant[d].size) : r[i].what = "part" /\ r[i].part = i
  BY DEF RomHolds, Whole
<1>. HIDE DEF n, r, a
<1>5. CASE n = 2
  <2>1. \A i \in 1..4 : a[i] = r[((i - 1) % 2) + 1]
    BY <1>1, <1>3, <1>5
  <2>2. a[1] = r[1] /\ a[2] = r[2] /\ a[3] = r[1] /\ a[4] = r[2]
    BY <2>1
  <2>. QED BY <1>1, <1>2, <1>4, <1>5, <2>2 DEF r, a
<1>6. CASE n \in {4, 8}
  <2>1. \A i \in 1..4 : ((i - 1) % n) + 1 = i
    BY <1>6, SMT
  <2>2. \A i \in 1..4 : a[i] = r[i]
    BY <1>1, <1>3, <2>1
  <2>. QED BY <1>1, <1>2, <1>4, <1>6, <2>2 DEF r, a
<1>. QED BY <1>1, <1>5, <1>6

\* The size is right whatever release number the reader has decoded before, the checksum
\* matches what the EEPROM of this device sums up to, and all comes back.
LEMMA ImageRead ==
    ASSUME Types, RomHolds
    PROVE  ReadBack
<1>. SUFFICES ASSUME NEW d \in Devices, rom[d] # <<>>, meant[d].size = RomSize(d)
              PROVE  /\ \A release \in {0, 255, 65535} : GuessedSize(family, Answers(d), release) = RomSize(d)
                     /\ Valid(family, Answers(d), RomSize(d))
                     /\ Answers(d)[LastPart(RomSize(d))].strings = meant[d].strings
                     /\ \A f \in DOMAIN BuildAt(family) : meant[d].values[f] \in Legal(family, f) =>
                            DecodedValues(family, HeaderIn(Answers(d)[1]), Zeros)[f]
                                = ReadAs(family, f, meant[d].values[f], 0)
  BY DEF ReadBack
<1>. DEFINE s == RomSize(d)
            r == rom[d]
            a == Answers(d)
            m == meant[d]
            l == LastPart(s)
<1>1. family \in ChipTypes /\ family \in Families /\ RomOK
  BY EepromAssumption DEF Types, Session
<1>2. /\ Whole(family, r, m, d) /\ m.size = s /\ (family = X230 => r[3].factory = d)
  BY DEF RomHolds
<1>3. /\ s \in {128, 256} /\ (family = R => s = 128)
      /\ \A i \in 1..l : a[i] = r[i] /\ a[i].what = "part" /\ a[i].part = i
      /\ s = 128 => a[3] = a[1] /\ a[4] = a[2]
      /\ s = 128 => l = 2
      /\ s = 256 => l = 4
  BY ImageAnswered
<1>4. View(family, r, d) = r
  <2>1. CASE family = X230
    <3>1. RomBlocks(family, d) = 4
      BY <1>1, <2>1, RomSizeIs
    <3>2. r = [i \in 1..4 |-> r[i]] /\ IsBlock(r[3])
      <4>1. AreBlocks(r, 4)
        BY <1>1, <3>1 DEF RomOK
      <4>. HIDE DEF r
      <4>. QED BY <4>1 DEF AreBlocks
    <3>. DEFINE b == r[3]
    <3>3. [b EXCEPT !.factory = d] = b
      BY <1>2, <2>1, <3>2 DEF IsBlock
    <3>4. View(family, r, d) = [r EXCEPT ![3] = [b EXCEPT !.factory = d]]
      BY <2>1 DEF View
    <3>. HIDE DEF b, r
    <3>5. View(family, r, d) = [r EXCEPT ![3] = b]
      BY <3>3, <3>4
    <3>. QED BY <3>2, <3>5 DEF b
  <2>2. CASE family # X230
    BY <2>2 DEF View
  <2>. QED BY <2>1, <2>2
<1>. HIDE DEF s, r, a, m, l
<1>5. ASSUME NEW release PROVE GuessedSize(family, a, release) = s
  <2>1. 1 \in 1..l /\ 2 \in 1..l
    BY <1>3
  <2>2. ~LooksBlank(a, release)
    BY <1>3, <2>1 DEF LooksBlank
  <2>3. CASE s = 128
    BY <1>3, <2>2, <2>3 DEF GuessedSize
  <2>4. CASE s = 256
    <3>1. a[1].part = 1 /\ a[2].part = 2 /\ a[3].part = 3
      BY <1>3, <2>4
    <3>2. a[1] # a[3] /\ a[1] # a[2]
      BY <3>1
    <3>3. family # R
      BY <1>3, <2>4
    <3>. QED BY <2>2, <2>4, <3>2, <3>3 DEF GuessedSize
  <2>. QED BY <1>3, <2>3, <2>4
<1>6. l \in 1..l /\ 1 \in 1..l /\ l > 0
  BY <1>3
<1>7. Valid(family, a, s)
  <2>1. r[l].sum = CoveredBy(family, r, s)
    BY <1>2, <1>4 DEF Whole, l
  <2>2. CoveredBy(family, r, s) = CoveredBy(family, a, s)
    BY <1>3 DEF CoveredBy, l
  <2>. QED BY <1>3, <1>6, <2>1, <2>2 DEF Valid, l
<1>8. a[l].strings = m.strings
  BY <1>2, <1>3, <1>6 DEF Whole, l
<1>9. HeaderIn(a[1]) = Header(family, m.values)
  <2>1. a[1].what = "part" /\ a[1].header = Header(family, m.values)
    BY <1>2, <1>3, <1>6 DEF Whole
  <2>. QED BY <2>1 DEF HeaderIn
<1>10. ASSUME NEW f \in DOMAIN BuildAt(family), m.values[f] \in Legal(family, f)
       PROVE  DecodedValues(family, HeaderIn(a[1]), Zeros)[f] = ReadAs(family, f, m.values[f], 0)
  <2>1. Zeros[f] = 0
    BY <1>1, BuildRead, UndecodedAre DEF Zeros, Reads
  <2>. QED BY <1>1, <1>9, <1>10, <2>1, ValueRead
<1>. QED BY <1>5, <1>7, <1>8, <1>10 DEF s, r, a, m, l

\* A program that builds its images with the device open: what it has completely written,
\* if of the EEPROM's own size, is what the next reader gets, for every type and EEPROM,
\* after any calls and failures: sized right, with its checksum, strings and values
\* (ftdi_eeprom_build, ftdi_write_eeprom, ftdi_read_eeprom, ftdi_eeprom_decode).
THEOREM ImagesReadBack ==
    ASSUME BuildsClosed = FALSE
    PROVE  Spec => []ReadBack
<1>1. Init => Own /\ BufferHolds /\ RomHolds
  <2>. SUFFICES ASSUME Init PROVE Own /\ BufferHolds /\ RomHolds
    OBVIOUS
  <2>1. Own
    BY DEF Init, EepromInit, FreshEeprom, Own
  <2>2. BufferHolds
    BY DEF Init, EepromInit, NotBuilt, BufferHolds
  <2>3. ASSUME NEW d \in Devices, rom[d] # <<>> PROVE meant[d].size # RomSize(d)
    <3>1. Types
      BY TypesInit
    <3>2. RomSize(d) # 0
      BY <2>3, <3>1, RomSizeIs DEF Types, Session
    <3>3. meant[d].size = 0
      BY DEF Init, EepromInit, NotBuilt
    <3>. QED BY <3>2, <3>3
  <2>. QED BY <2>1, <2>2, <2>3 DEF RomHolds
<1>2. LineInv /\ Types /\ Own /\ [Next]_vars => Own'
  BY OwnNext
<1>3. LineInv /\ Types /\ BufferHolds /\ [Next]_vars => BufferHolds'
  BY BufferNext
<1>4. LineInv /\ Types /\ Types' /\ Own /\ BufferHolds /\ RomHolds /\ [Next]_vars => RomHolds'
  BY RomNext
<1>5. Types /\ RomHolds => ReadBack
  BY ImageRead
<1>. QED BY <1>1, <1>2, <1>3, <1>4, <1>5, LineInit1, LineNext, TypesInit, TypesNext, PTL DEF Spec

\* For every chip type and all corners of the values: each value that was built is decoded
\* as it was, but for the channel type of a TYPE_R, which comes back as 0, and the pin
\* functions 4 to 6 of a 230X, which keep what the structure had.  Strings of every length
\* that is accepted stay clear of header and checksum; the PnP bytes behind them reach
\* these only for a TYPE_R of 47 characters or more and a 230X of 43, and are overwritten.
THEOREM TablesMatch == Spec => []TablesAgree
<1>1. Types => TablesAgree
  <2>. SUFFICES ASSUME Types PROVE KeepsValues(family) /\ KeepsStrings(family)
    BY DEF TablesAgree
  <2>1. family \in ChipTypes
    BY EepromAssumption DEF Types, Session
  <2>. QED BY <2>1, ValuesKept, StringsKept
<1>. QED BY <1>1, LineInit1, LineNext, TypesInit, TypesNext, PTL DEF Spec
=============================================================================
