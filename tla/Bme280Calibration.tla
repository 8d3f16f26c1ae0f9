--------------------------- MODULE Bme280Calibration ---------------------------
(***************************************************************************)
(* The decoding of the chip's calibration bytes (bme280.c, the second half *)
(* of bme280_get_compensation_data), over the integers: data is the        *)
(* buffer, a function from offsets to bytes.  The bit operations of the    *)
(* code work on fields that are multiples of four bits wide and are        *)
(* written here by division.                                               *)
(***************************************************************************)
EXTENDS Integers

Byte   == 0..255
Nibble == 0..15

\* The value that a C integer type keeps of n.
uint8_t(n)  == n % 256
uint16_t(n) == n % 2^16
int8_t(n)   == LET u == n % 256  IN IF u < 128 THEN u ELSE u - 256
int16_t(n)  == LET u == n % 2^16 IN IF u < 2^15 THEN u ELSE u - 2^16

High(byte) == byte \div 16
Low(byte)  == byte % 16

\* a | b of two nibbles, bit by bit.
NibbleOr(a, b) ==
  LET bit(n, w) == (n \div w) % 2
      or(w) == IF bit(a, w) + bit(b, w) > 0 THEN w ELSE 0
  IN  or(8) + or(4) + or(2) + or(1)

\* (msb << 8) | lsb
Word(msb, lsb) == 256 * msb + lsb

Coefficients ==
  {"t1", "t2", "t3", "p1", "p2", "p3", "p4", "p5", "p6", "p7", "p8", "p9",
   "h1", "h2", "h3", "h4", "h5", "h6"}

--------------------------------------------------------------------------------
(* bme280_get_compensation_data.  The words of temperature and pressure are in *)
(* the order of the fields: T1 at offset 0, P9 at offset 22.                   *)

Words == <<"t1", "t2", "t3", "p1", "p2", "p3", "p4", "p5", "p6", "p7", "p8", "p9">>

\* Faulty variant: all words are taken as signed.
WordFieldSigned(c, word) == int16_t(word)

\* The type of the field: dig_t1 and dig_p1 are unsigned.
WordField(c, word) == IF c \in {"t1", "p1"} THEN uint16_t(word) ELSE int16_t(word)

Humidity(data, c) ==
  CASE c = "h1" -> uint8_t(256 * data[24])
    [] c = "h2" -> int16_t(Word(data[26], data[25]))
    [] c = "h3" -> uint8_t(256 * data[27])
    \* ((data[28] << 4) | (data[29] & 0x0f)) & 0x0fff
    [] c = "h4" -> int16_t(16 * data[28] + Low(data[29]))
    \* ((data[30] << 4) | (data[29] & 0xf0)) & 0x0fff: the low nibble of data[30]
    \* and the high one of data[29] are ORed in bits 4 to 7
    [] c = "h5" -> int16_t(256 * High(data[30])
                           + 16 * NibbleOr(Low(data[30]), High(data[29])))
    [] c = "h6" -> int8_t(data[31])

Decoded(data, c) ==
  IF \E k \in DOMAIN Words : Words[k] = c
  THEN LET k == CHOOSE k \in DOMAIN Words : Words[k] = c
       IN  WordField(c, Word(data[2 * k - 1], data[2 * k - 2]))
  ELSE Humidity(data, c)
================================================================================
