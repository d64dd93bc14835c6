SPECIFICATION Spec
CONSTANTS
  Binding = "KP4"
  Keysets <- MCKeysets
  UsbKeys <- MCUsbKeys
  Modifiers <- MCModifiers
  PadButtons <- MCPadButtons
  PadMoves <- MCPadMoves
  Setups <- MCSetups
  MatrixKeys <- MCMatrixKeys
  Bindings <- MCBindings
  Ddrs <- MCDdrs
  JoyChoices <- MCJoyChoices
  Hardware = {"keyboard", "pad", "mouse", "gpio"}
  MaxChanges <- MCMaxChanges
INVARIANTS EmulatorSeesKeys MenuSeesKeys JoyFollowsPad PinsAreSafe
CHECK_DEADLOCK FALSE
