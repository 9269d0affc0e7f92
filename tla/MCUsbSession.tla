---------------------------- MODULE MCUsbSession ----------------------------
(* UsbSession with one pad, one softkey LED and the backlight; a ring of   *)
(* three commands, of which led_flush leaves two free.                     *)
EXTENDS UsbSession

MCPressures == {3, 40, 200}

=============================================================================
