------------------------------ MODULE MCUiApp ------------------------------
EXTENDS UiApp

\* One pixel of the desktop and one of each part the window and the cursor can
\* uncover: corners, shadow, title bar, content, and the cursor's first places.
MCPixels == { <<0, 0>>, <<40, 200>>, <<205, 155>>, <<300, 170>>, <<390, 172>>,
              <<402, 302>>, <<235, 215>>, <<602, 402>>, <<799, 599>>, <<700, 300>> }
=============================================================================
