---------------------------- MODULE MCBme280Driver ----------------------------
(* The BME280 driver with a heap of a few command links.  The byte values are *)
(* those at which a sign, a nibble or a carry changes.                        *)
EXTENDS Bme280Driver

MCBytes == {0, 15, 16, 127, 128, 240, 255}
================================================================================
