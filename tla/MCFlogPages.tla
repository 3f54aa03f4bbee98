---------------------------- MODULE MCFlogPages ----------------------------
EXTENDS FlogPages

MCBlock   == 0 .. Blocks - 1
NoBad     == {}
Proper    == { "mmap", "sd_write" }
CardErase == { "sd_erase" }
Written   == { "close_before_rm", "rm_erases", "quiet_reboot" }

=============================================================================
