------------------------------- MODULE FramesMC -------------------------------
(* Messages of all types, in bytes of base 8 and fields of two bytes.  The   *)
(* fields have values that a wrong byte order or a wrong boundary changes.   *)
EXTENDS Frames

AllTypes ==
  {OpenMessage(8, 1, 63), OpenConfirmMessage(1, 8, 0, 9), OpenFailureMessage(8),
   WindowAdjustMessage(1, 16), DataMessage(8, <<4, 6>>), DataMessage(1, <<>>),
   EOFMessage(1), CloseMessage(9)}

===============================================================================
