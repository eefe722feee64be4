------------------------------ MODULE MCDevices ------------------------------
EXTENDS Devices
CONSTANTS a, b
\* A line that fits readline_buffer with its terminator and one with a carriage
\* return; values of which one is shorter and one has a NUL; nothing, and letters
\* that a value might have, behind a text.
MCLines == {<<a, "r">>, <<a, b>>}
MCValues == {<<a, b>>, <<b>>, <<b, "0", a>>}
MCRests == {<<>>, <<b, a, a>>}
\* Pins on both sides of a word's end, and two that share no word with a third.
MCMasks == {{7, 31}, {7, 8}}
=============================================================================
