------------------------- MODULE VirtioConsoleShared -------------------------
(***************************************************************************)
(* What virtio_console_init and virtio_console_receive share of struct     *)
(* virtio_console: "ready", which the first sets last and the second tests *)
(* first, and the size of the receive buffers.                             *)
(***************************************************************************)
CONSTANT RX_BUFFER_SIZE   \* VIRTIO_CONSOLE_RX_BUFFER_SIZE (64)

VARIABLE ready            \* console->ready
=============================================================================
